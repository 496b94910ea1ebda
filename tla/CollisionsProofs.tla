-------------------------- MODULE CollisionsProofs --------------------------
(***************************************************************************)
(* Ladder::collisions is right for every table: its loop invariant is      *)
(* inductive, and with the lemmas about resolution it yields that the lint *)
(* raises no false alarm and misses no pair.                               *)
(***************************************************************************)
EXTENDS Collisions, TLAPS, FiniteSetTheorems, SequenceTheorems, WellFoundedInduction

-----------------------------------------------------------------------------
(* Lemmas.                                                                 *)

\* Positions are well-ordered: a set of them that is not empty has a least one.
LEMMA MinExists ==
  ASSUME NEW S, S \subseteq Nat, S # {}
  PROVE  Min(S) \in S /\ \A x \in S : Min(S) <= x
<1>1. PICK m \in S : \A x \in S : ~(<<x, m>> \in OpToRel(<, Nat))
  BY NatLessThanWellFounded, WFMin
<1>2. ASSUME NEW x \in S, x < m
      PROVE  <<x, m>> \in OpToRel(<, Nat)
  <2>1. <<x, m>> \in Nat \X Nat /\ <<x, m>>[1] < <<x, m>>[2]
    BY <1>2
  <2> QED BY <2>1, Zenon DEF OpToRel
<1>3. \A x \in S : ~(x < m)
  BY <1>1, <1>2, Zenon
<1>4. \A x \in S : m <= x
  BY <1>3
<1>5. \A x \in S : (\A y \in S : x <= y) => x = m
  BY <1>4
<1> QED BY <1>4, <1>5 DEF Min

\* A table has a sequence of rungs, and each rung has the fields of one.
LEMMA LadderShape ==
  ASSUME NEW l \in Ladder
  PROVE  /\ l.rungs \in Seq(Rung)
         /\ Len(l.rungs) \in Nat
         /\ DOMAIN l.rungs = 1 .. Len(l.rungs)
         /\ \A i \in 1 .. Len(l.rungs) : l.rungs[i] \in Rung
         /\ l.hatch.action \in Action
BY DEF Ladder, Hatch

\* Pushing a report adds it to what is reported; pushing none adds nothing.
LEMMA Push ==
  ASSUME NEW S, NEW q \in Seq(S), NEW r \in S
  PROVE  /\ q \o <<r>> \in Seq(S) /\ Range(q \o <<r>>) = Range(q) \cup {r}
         /\ q \o <<>> = q
<1>1. q \o <<r>> = Append(q, r)
  OBVIOUS
<1> QED BY <1>1 DEF Range

\* The collisions are what their constructors build.
LEMMA CollisionShape ==
  ASSUME NEW c \in Claimant, NEW t \in Trigger, NEW f \in Nat
  PROVE  /\ ReservedByHatch(c, t) \in Collision
         /\ DeadRung(c, t, f) \in Collision
         /\ ReservedFallthrough(t) \in Collision
BY DEF ReservedByHatch, DeadRung, ReservedFallthrough, Collision

\* What a visit of one pair adds to the reports.
LEMMA VisitReports ==
  ASSUME TypeOK, NEW t \in Trigger, VisitPair(t),
         NEW c, c = ladder.rungs[index].claimant, c \in Claimant
  PROVE  LET first == seen[<<c, t>>]
         IN  /\ found' \in Seq(Collision)
             /\ Reports' = Reports
                  \cup (IF Reserved(t) THEN {ReservedByHatch(c, t)} ELSE {})
                  \cup (IF first # 0 THEN {DeadRung(c, t, first)} ELSE {})
<1> DEFINE f == seen[<<c, t>>]
           q == found \o ReportIf(Reserved(t), ReservedByHatch(c, t))
<1>1. found \in Seq(Collision) /\ f \in Nat
  BY LadderShape DEF TypeOK
<1>2. found' = q \o ReportIf(f # 0, DeadRung(c, t, f))
  BY DEF VisitPair
<1>3. ReservedByHatch(c, t) \in Collision /\ DeadRung(c, t, f) \in Collision
  BY <1>1, CollisionShape
<1> HIDE DEF f
<1>4. /\ q \in Seq(Collision)
      /\ Range(q) = Range(found)
           \cup (IF Reserved(t) THEN {ReservedByHatch(c, t)} ELSE {})
  <2>1. CASE Reserved(t)
    BY <1>1, <1>3, <2>1, Push DEF ReportIf
  <2>2. CASE ~Reserved(t)
    BY <1>1, <2>2, Push DEF ReportIf
  <2> QED BY <2>1, <2>2
<1> HIDE DEF q
<1>5. /\ found' \in Seq(Collision)
      /\ Range(found') = Range(q) \cup (IF f # 0 THEN {DeadRung(c, t, f)} ELSE {})
  <2>1. CASE f # 0
    BY <1>2, <1>3, <1>4, <2>1, Push DEF ReportIf
  <2>2. CASE f = 0
    BY <1>2, <1>4, <2>2, Push DEF ReportIf
  <2> QED BY <2>1, <2>2
<1> QED BY <1>4, <1>5 DEF Reports, f

\* What a visit of one fallthrough trigger adds to the reports.
LEMMA FallthroughReports ==
  ASSUME TypeOK, NEW t \in Trigger, VisitFallthrough(t)
  PROVE  /\ found' \in Seq(Collision)
         /\ Reports' = Reports
              \cup (IF Reserved(t) THEN {ReservedFallthrough(t)} ELSE {})
<1>1. /\ found \in Seq(Collision)
      /\ found' = found \o ReportIf(Reserved(t), ReservedFallthrough(t))
  BY DEF VisitFallthrough, TypeOK
<1>2. ReservedFallthrough(t) \in Collision
  BY DEF ReservedFallthrough, Collision
<1>3. /\ found' \in Seq(Collision)
      /\ Range(found') = Range(found)
           \cup (IF Reserved(t) THEN {ReservedFallthrough(t)} ELSE {})
  BY <1>1, <1>2, Push DEF ReportIf
<1> QED BY <1>3 DEF Reports

-----------------------------------------------------------------------------
(* The invariants.                                                         *)

\* The variables stay in their types.
THEOREM TypeCorrect == Spec => []TypeOK /\ []WalkInv
<1>1. Init => TypeOK /\ WalkInv
  <2> SUFFICES ASSUME Init PROVE TypeOK /\ WalkInv
    OBVIOUS
  <2>1. ladder \in Ladder /\ Len(ladder.rungs) \in Nat
    BY TablesAssumption, LadderShape DEF Init
  <2> QED BY <2>1 DEF Init, TypeOK, WalkInv
<1>2. ASSUME TypeOK, WalkInv, [Next]_vars
      PROVE  TypeOK' /\ WalkInv'
  <2>1. /\ ladder \in Ladder /\ Len(ladder.rungs) \in Nat
        /\ DOMAIN ladder.rungs = 1 .. Len(ladder.rungs)
        /\ \A k \in 1 .. Len(ladder.rungs) : /\ ladder.rungs[k].claimant \in Claimant
                                           /\ ladder.rungs[k].triggers \subseteq Trigger
        /\ ladder.fallthrough \subseteq Trigger
    BY <1>2, LadderShape DEF TypeOK, Ladder, Rung
  <2>2. CASE NextRung
    BY <1>2, <2>1, <2>2 DEF NextRung, TypeOK, WalkInv
  <2>3. CASE \E t \in Trigger : VisitPair(t)
    <3>1. PICK t \in Trigger : VisitPair(t)
      BY <2>3
    <3>2. index \in 1 .. Len(ladder.rungs)
      BY <1>2, <2>1, <3>1 DEF VisitPair, NextTrigger, TypeOK, WalkInv
    <3> DEFINE c == ladder.rungs[index].claimant
    <3>3. c \in Claimant
      BY <2>1, <3>2
    <3>4. found' \in Seq(Collision)
      BY <1>2, <3>1, <3>3, VisitReports
    <3>5. seen' \in [Claimant \X Trigger -> 0 .. Len(ladder.rungs)]
      BY <1>2, <2>1, <3>1, <3>2, <3>3 DEF VisitPair, TypeOK
    <3> QED BY <1>2, <2>1, <3>1, <3>4, <3>5 DEF VisitPair, NextTrigger, TypeOK, WalkInv
  <2>4. CASE EnterFallthrough
    BY <1>2, <2>1, <2>4 DEF EnterFallthrough, TypeOK, WalkInv
  <2>5. CASE \E t \in Trigger : VisitFallthrough(t)
    <3>1. PICK t \in Trigger : VisitFallthrough(t)
      BY <2>5
    <3>2. found' \in Seq(Collision)
      BY <1>2, <3>1, FallthroughReports
    <3> QED BY <1>2, <3>1, <3>2 DEF VisitFallthrough, TypeOK, WalkInv
  <2>6. CASE Finish
    BY <1>2, <2>6 DEF Finish, TypeOK, WalkInv
  <2>7. CASE UNCHANGED vars
    BY <1>2, <2>7 DEF vars, TypeOK, WalkInv
  <2> QED BY <1>2, <2>2, <2>3, <2>4, <2>5, <2>6, <2>7 DEF Next
<1> QED BY <1>1, <1>2, PTL DEF Spec

\* The parts of a table the lint reads, and where it is in it.
LEMMA WalkShape ==
  ASSUME TypeOK, WalkInv
  PROVE  /\ ladder \in Ladder /\ Len(ladder.rungs) \in Nat
         /\ DOMAIN ladder.rungs = 1 .. Len(ladder.rungs)
         /\ \A k \in 1 .. Len(ladder.rungs) : /\ ladder.rungs[k].claimant \in Claimant
                                            /\ ladder.rungs[k].triggers \subseteq Trigger
         /\ index \in 0 .. Len(ladder.rungs)
BY LadderShape DEF TypeOK, Rung

\* What a visit of one pair leaves: its row joins the rows walked, as the last
\* of them, and its entry of `seen` is filled in if it was empty.
LEMMA VisitEffect ==
  ASSUME TypeOK, WalkInv, NEW t \in Trigger, VisitPair(t),
         NEW c, c = ladder.rungs[index].claimant
  PROVE  /\ index \in 1 .. Len(ladder.rungs) /\ c \in Claimant
         /\ \A d \in Claimant, u \in Trigger :
              /\ Walked(d, u)' = Walked(d, u) \cup
                                  (IF d = c /\ u = t THEN {index} ELSE {})
              /\ seen'[<<d, u>>] = IF d = c /\ u = t /\ seen[<<c, t>>] = 0
                                   THEN index ELSE seen[<<d, u>>]
         /\ \A k \in Walked(c, t) : k < index
         /\ UNCHANGED <<ladder, pc, index>>
<1>1. index \in 1 .. Len(ladder.rungs) /\ c \in Claimant /\ pc = "rungs" /\ t \in todo
      /\ t \in ladder.rungs[index].triggers /\ todo' = todo \ {t}
      /\ UNCHANGED <<ladder, pc, index>>
  BY WalkShape DEF VisitPair, NextTrigger, WalkInv
<1>2. \A k \in Walked(c, t) : k < index
  BY <1>1, WalkShape DEF Walked, Visited
<1>3. ASSUME NEW d \in Claimant, NEW u \in Trigger
      PROVE  Walked(d, u)' = Walked(d, u) \cup
                             (IF d = c /\ u = t THEN {index} ELSE {})
  BY <1>1, WalkShape DEF Walked, Lists, Visited
<1>4. \A d \in Claimant, u \in Trigger :
        seen'[<<d, u>>] = IF d = c /\ u = t /\ seen[<<c, t>>] = 0
                          THEN index ELSE seen[<<d, u>>]
  BY <1>1 DEF VisitPair, TypeOK
<1> QED BY <1>1, <1>2, <1>3, <1>4

\* No other step walks a row past a pair it lists.
LEMMA OtherEffect ==
  ASSUME TypeOK, WalkInv,
         \/ NextRung \/ EnterFallthrough \/ Finish \/ UNCHANGED vars
         \/ \E t \in Trigger : VisitFallthrough(t)
  PROVE  /\ \A d, u : Walked(d, u)' = Walked(d, u)
         /\ UNCHANGED <<ladder, seen>>
<1>1. UNCHANGED <<ladder, seen>>
  BY DEF NextRung, EnterFallthrough, Finish, vars, VisitFallthrough
<1>2. ASSUME NEW d, NEW u
      PROVE  Walked(d, u)' = Walked(d, u)
  <2>1. CASE NextRung
    <3>1. /\ index \in Nat /\ index + 1 \in DOMAIN ladder.rungs /\ todo = {}
          /\ pc = "rungs" /\ pc' = "rungs" /\ index' = index + 1
          /\ todo' = ladder.rungs[index + 1].triggers
      BY <2>1, WalkShape DEF NextRung
    <3>2. ASSUME NEW k \in DOMAIN ladder.rungs, Lists(k, d, u)
          PROVE  Visited(k, u)' <=> Visited(k, u)
      <4>1. k \in Nat
        BY WalkShape
      <4>2. CASE k = index + 1
        BY <3>1, <3>2, <4>1, <4>2 DEF Visited, Lists
      <4>3. CASE k # index + 1
        BY <3>1, <4>1, <4>3 DEF Visited
      <4> QED BY <4>2, <4>3
    <3> QED BY <1>1, <3>2 DEF Walked, Lists
  <2>2. CASE EnterFallthrough
    BY <1>1, <2>2, WalkShape DEF EnterFallthrough, Walked, Lists, Visited
  <2>3. CASE Finish \/ UNCHANGED vars \/ \E t \in Trigger : VisitFallthrough(t)
    BY <1>1, <2>3 DEF Finish, vars, VisitFallthrough, Walked, Lists, Visited
  <2> QED BY <2>1, <2>2, <2>3
<1> QED BY <1>1, <1>2

\* Before the first row nothing has been walked.
LEMMA NothingWalked ==
  ASSUME Init
  PROVE  \A c, t : Walked(c, t) = {}
<1>1. DOMAIN ladder.rungs \subseteq Nat \ {0}
  BY TablesAssumption, LadderShape DEF Init
<1> QED BY <1>1 DEF Init, Walked, Visited

\* `seen` holds the first row of every pair walked.
THEOREM SeenCorrect == Spec => []SeenInv
<1>1. Init => SeenInv
  BY NothingWalked DEF Init, SeenInv
<1>2. ASSUME TypeOK, WalkInv, SeenInv, [Next]_vars
      PROVE  SeenInv'
  <2>1. CASE \E t \in Trigger : VisitPair(t)
    <3>1. PICK t \in Trigger : VisitPair(t)
      BY <2>1
    <3> DEFINE c == ladder.rungs[index].claimant
    <3>2. /\ index \in 1 .. Len(ladder.rungs) /\ c \in Claimant
          /\ \A d \in Claimant, u \in Trigger :
               /\ Walked(d, u)' = Walked(d, u) \cup
                                   (IF d = c /\ u = t THEN {index} ELSE {})
               /\ seen'[<<d, u>>] = IF d = c /\ u = t /\ seen[<<c, t>>] = 0
                                    THEN index ELSE seen[<<d, u>>]
          /\ \A k \in Walked(c, t) : k < index
      BY <1>2, <3>1, VisitEffect
    <3> HIDE DEF c
    <3>3. index # 0 /\ index <= index
      BY <3>2, WalkShape, <1>2
    <3>4. \A k \in Walked(c, t) : k <= index
      BY <1>2, <3>2, WalkShape DEF Walked
    <3>5. ASSUME NEW d \in Claimant, NEW u \in Trigger
          PROVE  /\ seen'[<<d, u>>] = 0 => Walked(d, u)' = {}
                 /\ seen'[<<d, u>>] # 0 => seen'[<<d, u>>] \in Walked(d, u)'
                 /\ \A k \in Walked(d, u)' : seen'[<<d, u>>] <= k
      BY <1>2, <3>2, <3>3, <3>4 DEF SeenInv
    <3> QED BY <3>5 DEF SeenInv
  <2>2. CASE ~\E t \in Trigger : VisitPair(t)
    <3>1. (\A d, u : Walked(d, u)' = Walked(d, u)) /\ UNCHANGED seen
      BY <1>2, <2>2, OtherEffect DEF Next
    <3> QED BY <1>2, <3>1 DEF SeenInv
  <2> QED BY <2>1, <2>2
<1> QED BY <1>1, <1>2, TypeCorrect, PTL DEF Spec

\* The fields of what has been reported.
LEMMA ReportShape ==
  ASSUME TypeOK, NEW r \in Reports
  PROVE  /\ r \in Collision
         /\ r.trigger \in Trigger
         /\ r.kind # "ReservedFallthrough" => r.claimant \in Claimant
         /\ r.kind = "DeadRung" => r = DeadRung(r.claimant, r.trigger, r.shadowed_by)
<1>1. r \in Collision
  BY DEF TypeOK, Reports, Range
<1> QED BY <1>1 DEF Collision, DeadRung

\* Whatever a step leaves reported of the kind DeadRung was reported before or
\* is of the pair visited; the same of the two other kinds.
LEMMA ReportsEffect ==
  ASSUME TypeOK, WalkInv, SeenInv, Next \/ UNCHANGED vars
  PROVE  /\ Reports \subseteq Reports'
         /\ (~\E t \in Trigger : VisitPair(t)) /\ (~\E t \in Trigger : VisitFallthrough(t))
              => Reports' = Reports
<1>1. CASE \E t \in Trigger : VisitPair(t)
  <2>1. PICK t \in Trigger : VisitPair(t)
    BY <1>1
  <2>2. ladder.rungs[index].claimant \in Claimant
    BY <2>1, VisitEffect
  <2> QED BY <1>1, <2>1, <2>2, VisitReports
<1>2. CASE \E t \in Trigger : VisitFallthrough(t)
  BY <1>2, FallthroughReports
<1>3. CASE NextRung \/ EnterFallthrough \/ Finish \/ UNCHANGED vars
  BY <1>3 DEF NextRung, EnterFallthrough, Finish, vars, Reports
<1> QED BY <1>1, <1>2, <1>3 DEF Next

\* A true report stays true: rows are only added to those walked, and an entry
\* of `seen` is filled in once.
LEMMA ReportStaysTrue ==
  ASSUME TypeOK, UNCHANGED ladder, NEW r \in Reports, IsTrue(r),
         \A d \in Claimant, u \in Trigger :
           /\ Walked(d, u) \subseteq Walked(d, u)'
           /\ seen[<<d, u>>] # 0 => seen'[<<d, u>>] = seen[<<d, u>>]
  PROVE  IsTrue(r)'
<1>1. Reserved(r.trigger)' <=> Reserved(r.trigger)
  BY DEF Reserved
<1>2. r.trigger \in Trigger /\ (r.kind = "DeadRung" => r.claimant \in Claimant)
  BY ReportShape
<1> QED BY <1>1, <1>2 DEF IsTrue

\* Every report is true of the rows walked.
THEOREM SoundCorrect == Spec => []SoundInv
<1>1. Init => SoundInv
  BY DEF Init, SoundInv, Reports, Range
<1>2. ASSUME TypeOK, WalkInv, SeenInv, SoundInv, [Next]_vars
      PROVE  SoundInv'
  <2>1. CASE \E t \in Trigger : VisitPair(t)
    <3>1. PICK t \in Trigger : VisitPair(t)
      BY <2>1
    <3>2. PICK c : c = ladder.rungs[index].claimant
      OBVIOUS
    <3>3. /\ c \in Claimant
          /\ \A d \in Claimant, u \in Trigger :
               /\ Walked(d, u)' = Walked(d, u) \cup
                                   (IF d = c /\ u = t THEN {index} ELSE {})
               /\ seen'[<<d, u>>] = IF d = c /\ u = t /\ seen[<<c, t>>] = 0
                                    THEN index ELSE seen[<<d, u>>]
          /\ \A k \in Walked(c, t) : k < index
          /\ UNCHANGED ladder
      BY <1>2, <3>1, <3>2, VisitEffect
    <3>4. PICK first : first = seen[<<c, t>>]
      OBVIOUS
    <3>5. Reports' = Reports
            \cup (IF Reserved(t) THEN {ReservedByHatch(c, t)} ELSE {})
            \cup (IF first # 0 THEN {DeadRung(c, t, first)} ELSE {})
      BY <1>2, <3>1, <3>2, <3>3, <3>4, VisitReports
    <3>6. ASSUME NEW r \in Reports
          PROVE  IsTrue(r)'
      <4>1. IsTrue(r)
        BY <1>2 DEF SoundInv
      <4> QED BY <1>2, <3>3, <4>1, ReportStaysTrue
    <3>7. Reserved(t) => IsTrue(ReservedByHatch(c, t))'
      BY <3>3 DEF IsTrue, ReservedByHatch, Reserved
    <3>8. first # 0 => IsTrue(DeadRung(c, t, first))'
      <4>1. SUFFICES ASSUME first # 0
                     PROVE  IsTrue(DeadRung(c, t, first))'
        OBVIOUS
      <4>2. first \in Walked(c, t)
        BY <1>2, <3>1, <3>3, <3>4, <4>1 DEF SeenInv
      <4>3. first < index /\ index \in Walked(c, t)' /\ seen'[<<c, t>>] = first
        BY <3>1, <3>3, <3>4, <4>1, <4>2
      <4> QED BY <4>1, <4>3 DEF IsTrue, DeadRung
    <3> QED BY <3>5, <3>6, <3>7, <3>8 DEF SoundInv
  <2>2. CASE \E t \in Trigger : VisitFallthrough(t)
    <3>1. PICK t \in Trigger : VisitFallthrough(t)
      BY <2>2
    <3>2. /\ UNCHANGED <<ladder, seen>>
          /\ \A d, u : Walked(d, u)' = Walked(d, u)
      BY <1>2, <2>2, OtherEffect
    <3>3. Reports' = Reports \cup (IF Reserved(t) THEN {ReservedFallthrough(t)} ELSE {})
      BY <1>2, <3>1, FallthroughReports
    <3>4. t \in ladder.fallthrough
      BY <1>2, <3>1 DEF WalkInv, VisitFallthrough, NextTrigger
    <3>5. Reserved(t) => IsTrue(ReservedFallthrough(t))'
      BY <3>2, <3>4 DEF IsTrue, ReservedFallthrough, Reserved
    <3>6. ASSUME NEW r \in Reports
          PROVE  IsTrue(r)'
      <4>1. IsTrue(r)
        BY <1>2 DEF SoundInv
      <4> QED BY <1>2, <3>2, <4>1, ReportStaysTrue
    <3> QED BY <3>3, <3>5, <3>6 DEF SoundInv
  <2>3. CASE ~(\E t \in Trigger : VisitPair(t)) /\ ~(\E t \in Trigger : VisitFallthrough(t))
    <3>1. /\ UNCHANGED <<ladder, seen>> /\ Reports' = Reports
          /\ \A d, u : Walked(d, u)' = Walked(d, u)
      BY <1>2, <2>3, OtherEffect, ReportsEffect DEF Next
    <3>2. ASSUME NEW r \in Reports
          PROVE  IsTrue(r)'
      <4>1. IsTrue(r)
        BY <1>2 DEF SoundInv
      <4> QED BY <1>2, <3>1, <4>1, ReportStaysTrue
    <3> QED BY <3>1, <3>2 DEF SoundInv
  <2> QED BY <2>1, <2>2, <2>3
<1> QED BY <1>1, <1>2, TypeCorrect, SeenCorrect, PTL DEF Spec

\* Every pair and fallthrough trigger walked has its reports.
THEOREM CompleteCorrect == Spec => []CompleteInv
<1>1. Init => CompleteInv
  BY NothingWalked DEF Init, CompleteInv
<1>2. ASSUME TypeOK, WalkInv, SeenInv, CompleteInv, [Next]_vars
      PROVE  CompleteInv'
  <2>0. Reports \subseteq Reports'
    BY <1>2, ReportsEffect
  <2>1. CASE \E t \in Trigger : VisitPair(t)
    <3>1. PICK t \in Trigger : VisitPair(t)
      BY <2>1
    <3>2. PICK c : c = ladder.rungs[index].claimant
      OBVIOUS
    <3>3. /\ index \in 1 .. Len(ladder.rungs) /\ c \in Claimant
          /\ \A d \in Claimant, u \in Trigger :
               /\ Walked(d, u)' = Walked(d, u) \cup
                                   (IF d = c /\ u = t THEN {index} ELSE {})
               /\ seen'[<<d, u>>] = IF d = c /\ u = t /\ seen[<<c, t>>] = 0
                                    THEN index ELSE seen[<<d, u>>]
          /\ UNCHANGED <<ladder, pc>>
      BY <1>2, <3>1, <3>2, VisitEffect
    <3>4. Reports' = Reports
            \cup (IF Reserved(t) THEN {ReservedByHatch(c, t)} ELSE {})
            \cup (IF seen[<<c, t>>] # 0 THEN {DeadRung(c, t, seen[<<c, t>>])} ELSE {})
      BY <1>2, <3>1, <3>2, <3>3, VisitReports
    <3>5. \A u : Reserved(u)' <=> Reserved(u)
      BY <3>3 DEF Reserved
    <3>6. ASSUME NEW d \in Claimant, NEW u \in Trigger, NEW k \in Walked(d, u)'
          PROVE  /\ Reserved(u)' => ReservedByHatch(d, u) \in Reports'
                 /\ seen'[<<d, u>>] < k => DeadRung(d, u, seen'[<<d, u>>]) \in Reports'
      <4>1. CASE d = c /\ u = t
        <5>1. Reserved(u)' => ReservedByHatch(d, u) \in Reports'
          BY <3>4, <3>5, <4>1
        <5>2. CASE seen[<<c, t>>] = 0
          <6>1. Walked(c, t) = {} /\ seen'[<<d, u>>] = index
            BY <1>2, <3>3, <4>1, <5>2 DEF SeenInv
          <6>2. k = index
            BY <3>3, <3>6, <4>1, <6>1
          <6> QED BY <3>3, <5>1, <6>1, <6>2
        <5>3. CASE seen[<<c, t>>] # 0
          BY <3>3, <3>4, <4>1, <5>1, <5>3
        <5> QED BY <5>2, <5>3
      <4>2. CASE ~(d = c /\ u = t)
        <5>1. k \in Walked(d, u) /\ seen'[<<d, u>>] = seen[<<d, u>>]
          BY <3>3, <3>6, <4>2
        <5>2. /\ Reserved(u) => ReservedByHatch(d, u) \in Reports
              /\ seen[<<d, u>>] < k => DeadRung(d, u, seen[<<d, u>>]) \in Reports
          BY <1>2, <5>1 DEF CompleteInv, Reported
        <5> QED BY <2>0, <3>5, <5>1, <5>2
      <4> QED BY <4>1, <4>2
    <3>7. pc' = "rungs"
      BY <3>1, <3>3 DEF VisitPair
    <3> QED BY <3>6, <3>7 DEF CompleteInv, Reported
  <2>2. CASE ~\E t \in Trigger : VisitPair(t)
    <3>1. /\ UNCHANGED <<ladder, seen>>
          /\ \A d, u : Walked(d, u)' = Walked(d, u)
      BY <1>2, <2>2, OtherEffect DEF Next
    <3>2. \A u : Reserved(u)' <=> Reserved(u)
      BY <3>1 DEF Reserved
    <3>3. ASSUME NEW d \in Claimant, NEW u \in Trigger, NEW k \in Walked(d, u)'
          PROVE  /\ Reserved(u)' => ReservedByHatch(d, u) \in Reports'
                 /\ seen'[<<d, u>>] < k => DeadRung(d, u, seen'[<<d, u>>]) \in Reports'
      BY <1>2, <2>0, <3>1, <3>2 DEF CompleteInv, Reported
    <3>4. ASSUME NEW u \in ladder'.fallthrough, Reserved(u)', pc' # "rungs", u \notin todo'
          PROVE  ReservedFallthrough(u) \in Reports'
      <4>1. CASE EnterFallthrough
        BY <3>1, <3>4, <4>1 DEF EnterFallthrough
      <4>2. CASE \E t \in Trigger : VisitFallthrough(t)
        <5>1. PICK t \in Trigger : VisitFallthrough(t)
          BY <4>2
        <5>2. CASE u = t
          BY <1>2, <3>2, <3>4, <5>1, <5>2, FallthroughReports
        <5>3. CASE u # t
          <6>1. u \in ladder.fallthrough /\ Reserved(u) /\ pc # "rungs" /\ u \notin todo
            BY <3>1, <3>2, <3>4, <5>1, <5>3 DEF VisitFallthrough
          <6> QED BY <1>2, <2>0, <6>1 DEF CompleteInv, Reported
        <5> QED BY <5>2, <5>3
      <4>3. CASE NextRung
        BY <3>4, <4>3 DEF NextRung
      <4>4. CASE Finish \/ UNCHANGED vars
        <5>1. u \in ladder.fallthrough /\ Reserved(u) /\ pc # "rungs" /\ u \notin todo
          BY <3>1, <3>2, <3>4, <4>4 DEF Finish, vars
        <5> QED BY <1>2, <2>0, <5>1 DEF CompleteInv, Reported
      <4> QED BY <1>2, <2>2, <4>1, <4>2, <4>3, <4>4 DEF Next
    <3> QED BY <3>3, <3>4 DEF CompleteInv, Reported
  <2> QED BY <2>1, <2>2
<1> QED BY <1>1, <1>2, TypeCorrect, SeenCorrect, PTL DEF Spec

\* The whole loop invariant.
THEOREM LintCorrect == Spec => []LintInv
BY TypeCorrect, SeenCorrect, SoundCorrect, CompleteCorrect, PTL DEF LintInv

-----------------------------------------------------------------------------
(* What the reports mean for resolution.                                   *)

\* The lint raises no false alarm.
THEOREM NoFalseAlarm == Spec => []DeadRungsAreDead
<1>1. ASSUME TypeOK, LintInv, NEW r \in Reports, r.kind = "DeadRung"
      PROVE  LET c == r.claimant
                 t == r.trigger
                 f == r.shadowed_by
             IN  /\ Lists(f, c, t)
                 /\ \E k \in DOMAIN ladder.rungs : f < k /\ Lists(k, c, t)
                 /\ \A k \in DOMAIN ladder.rungs :
                      f < k /\ Lists(k, c, t) => ~CanWin(k, t)
  <2> DEFINE c == r.claimant
             t == r.trigger
             f == r.shadowed_by
  <2>1. c \in Claimant /\ t \in Trigger
    BY <1>1, ReportShape
  <2>2. /\ f \in Walked(c, t)
        /\ \E k \in Walked(c, t) : f < k
    BY <1>1, <2>1 DEF LintInv, SoundInv, IsTrue, SeenInv
  <2> HIDE DEF c, t, f
  <2>3. f \in DOMAIN ladder.rungs /\ Lists(f, c, t)
        /\ \E k \in DOMAIN ladder.rungs : f < k /\ Lists(k, c, t)
    BY <2>2 DEF Walked
  <2>4. ASSUME NEW k \in DOMAIN ladder.rungs, f < k, Lists(k, c, t),
               NEW s \in Situation, Wins(ladder, k, t, s)
        PROVE  FALSE
    <3>1. f \in Owners(ladder, t, s)
      BY <2>3, <2>4 DEF Wins, Owners, Owns, Lists
    <3>2. k <= f /\ k \in Nat /\ f \in Nat
      BY <1>1, <2>3, <2>4, <3>1, LadderShape DEF Wins, TypeOK
    <3> QED BY <2>4, <3>2
  <2> QED BY <2>3, <2>4 DEF CanWin, c, t, f
<1>2. TypeOK /\ LintInv => DeadRungsAreDead
  BY <1>1 DEF DeadRungsAreDead
<1> QED BY <1>2, TypeCorrect, LintCorrect, PTL

\* The lint misses no pair.
THEOREM NoPairMissed == Spec => []UnreportedPairsCanFire
<1>1. ASSUME TypeOK, LintInv, Done,
             NEW k \in DOMAIN ladder.rungs, NEW t \in ladder.rungs[k].triggers
      PROVE  LET c == ladder.rungs[k].claimant IN
             /\ CanWinWhileRunning(k, t)
                  \/ Reported(ReservedByHatch(c, t))
                  \/ \E f \in 1 .. k - 1 : Reported(DeadRung(c, t, f))
             /\ CanWin(k, t) \/ \E f \in 1 .. k - 1 : Reported(DeadRung(c, t, f))
  <2> DEFINE c == ladder.rungs[k].claimant
             first == seen[<<c, t>>]
             At(w) == [claiming |-> {c}, work_running |-> w]
  <2>1. /\ DOMAIN ladder.rungs = 1 .. Len(ladder.rungs) /\ Len(ladder.rungs) \in Nat
        /\ c \in Claimant /\ t \in Trigger /\ index = Len(ladder.rungs) /\ pc = "done"
        /\ \A i \in DOMAIN ladder.rungs : ladder.rungs[i] \in Rung
    BY <1>1, WalkShape, LadderShape DEF LintInv, WalkInv, Done
  <2>2. \A i \in DOMAIN ladder.rungs : Lists(i, c, t) <=> i \in Walked(c, t)
    BY <2>1 DEF Walked, Visited
  <2>3. k \in Walked(c, t)
    BY <2>2 DEF Lists
  <2>4. /\ first # 0 /\ first \in Walked(c, t)
        /\ \A i \in Walked(c, t) : first <= i
        /\ Reserved(t) => Reported(ReservedByHatch(c, t))
        /\ first < k => Reported(DeadRung(c, t, first))
    BY <1>1, <2>1, <2>3 DEF LintInv, SeenInv, CompleteInv
  <2>5. first \in 1 .. Len(ladder.rungs)
    BY <2>1, <2>4 DEF Walked
  <2>6. \A w \in BOOLEAN : At(w) \in Situation /\ At(w).work_running = w
    BY <2>1 DEF Situation, ClaimSet
  <2>7. \A w \in BOOLEAN : Owners(ladder, t, At(w)) = Walked(c, t)
    BY <2>2 DEF Owners, Owns, Lists, Walked
  <2>8. CASE first < k
    BY <2>1, <2>4, <2>5, <2>8
  <2>9. CASE ~(first < k)
    <3>1. \A i \in Walked(c, t) : k <= i
      BY <2>1, <2>3, <2>4, <2>5, <2>9
    <3>2. ASSUME NEW w \in BOOLEAN, ~(w /\ Reserved(t))
          PROVE  Wins(ladder, k, t, At(w))
      BY <2>3, <2>6, <2>7, <3>1, <3>2 DEF Wins, HatchFires, Reserved
    <3>3. CanWin(k, t)
      BY <2>6, <3>2 DEF CanWin
    <3>4. ~Reserved(t) => CanWinWhileRunning(k, t)
      BY <2>6, <3>2 DEF CanWinWhileRunning
    <3> QED BY <2>4, <3>3, <3>4
  <2> QED BY <2>8, <2>9
<1>2. TypeOK /\ LintInv => UnreportedPairsCanFire
  BY <1>1 DEF UnreportedPairsCanFire
<1> QED BY <1>2, TypeCorrect, LintCorrect, PTL

-----------------------------------------------------------------------------
(* What deleting the reported rows does.                                   *)

\* Two tables that differ in the triggers of their rungs and in fallthrough
\* only, and agree on the first live owner and on falling through wherever the
\* hatch does not fire, give the same answer.
LEMMA SameAnswer ==
  ASSUME NEW l \in Ladder, NEW m \in Ladder, NEW t \in Trigger, NEW s \in Situation,
         m.hatch = l.hatch, Len(m.rungs) = Len(l.rungs),
         \A i \in 1 .. Len(l.rungs) : /\ m.rungs[i].claimant = l.rungs[i].claimant
                                     /\ m.rungs[i].action = l.rungs[i].action,
         \A i \in 1 .. Len(l.rungs) : Owns(m.rungs[i], t, s) => Owns(l.rungs[i], t, s),
         ~HatchFires(l, t, s) => (FallsThrough(m, t, s) <=> FallsThrough(l, t, s)),
         ~HatchFires(l, t, s) => \A i \in 1 .. Len(l.rungs) :
           Owns(l.rungs[i], t, s) /\ (\A j \in 1 .. i - 1 : ~Owns(l.rungs[j], t, s))
             => Owns(m.rungs[i], t, s)
  PROVE  Resolve(m, t, s) = Resolve(l, t, s)
<1>1. HatchFires(m, t, s) <=> HatchFires(l, t, s)
  BY DEF HatchFires
<1>2. Escape(m) = Escape(l)
  BY DEF Escape
<1>3. CASE HatchFires(l, t, s)
  BY <1>1, <1>2, <1>3 DEF Resolve
<1>4. CASE ~HatchFires(l, t, s)
  <2> DEFINE O == Owners(l, t, s)
             P == Owners(m, t, s)
  <2>1. /\ Len(l.rungs) \in Nat
        /\ DOMAIN l.rungs = 1 .. Len(l.rungs) /\ DOMAIN m.rungs = 1 .. Len(l.rungs)
    BY LadderShape
  <2>2. P \subseteq O /\ O \subseteq 1 .. Len(l.rungs)
    BY <2>1 DEF Owners
  <2>3. CASE O = {}
    BY <1>1, <1>2, <1>4, <2>2, <2>3 DEF Resolve
  <2>4. CASE O # {}
    <3>1. Min(O) \in O /\ \A i \in O : Min(O) <= i
      BY <2>2, <2>4, MinExists
    <3>2. \A j \in 1 .. Min(O) - 1 : ~Owns(l.rungs[j], t, s)
      <4>1. ASSUME NEW j \in 1 .. Min(O) - 1, Owns(l.rungs[j], t, s) PROVE FALSE
        <5>1. j \in O
          BY <2>1, <2>2, <3>1, <4>1 DEF Owners
        <5> QED BY <2>2, <3>1, <5>1
      <4> QED BY <4>1
    <3>3. Min(O) \in P
      BY <1>4, <2>1, <2>2, <3>1, <3>2 DEF Owners
    <3>4. Min(P) \in P /\ Min(P) <= Min(O)
      BY <2>2, <3>3, MinExists
    <3>5. Min(P) = Min(O)
      BY <2>2, <3>1, <3>4
    <3>6. m.rungs[Min(O)].claimant = l.rungs[Min(O)].claimant
          /\ m.rungs[Min(O)].action = l.rungs[Min(O)].action
      BY <2>2, <3>1
    <3> QED BY <1>1, <1>4, <2>4, <3>3, <3>5, <3>6 DEF Resolve, Claimed
  <2> QED BY <2>3, <2>4
<1> QED BY <1>3, <1>4

\* The rung with the triggers T, and no other change.
Trimmed(r, T) == [r EXCEPT !.triggers = T]

\* A rung with fewer triggers is a rung of the same claimant and action.
LEMMA FewerTriggers ==
  ASSUME NEW r \in Rung, NEW T \in SUBSET r.triggers
  PROVE  /\ Trimmed(r, T) \in Rung
         /\ Trimmed(r, T).claimant = r.claimant
         /\ Trimmed(r, T).action = r.action
         /\ Trimmed(r, T).triggers = T
BY DEF Rung, Trimmed

\* A table whose rungs are replaced one for one, and whose fallthrough set has
\* only lost triggers, is a table of as many rungs.
LEMMA RungsReplaced ==
  ASSUME NEW l \in Ladder, NEW q \in [DOMAIN l.rungs -> Rung],
         NEW F, F \subseteq l.fallthrough
  PROVE  LET m == NewLadder(l.hatch, q, F)
         IN  /\ m \in Ladder /\ m.hatch = l.hatch /\ m.rungs = q /\ m.fallthrough = F
             /\ Len(q) = Len(l.rungs)
<1>1. /\ Len(l.rungs) \in Nat /\ DOMAIN l.rungs = 1 .. Len(l.rungs)
      /\ l.hatch \in Hatch /\ F \subseteq Trigger
  BY LadderShape DEF Ladder
<1>2. q \in Seq(Rung) /\ Len(q) = Len(l.rungs)
  BY <1>1
<1> QED BY <1>1, <1>2 DEF Ladder, NewLadder

\* What is left of the table without the dead pairs and dead fallthrough.
LEMMA PrunedIs ==
  ASSUME TypeOK
  PROVE  /\ Pruned \in Ladder /\ Pruned.hatch = ladder.hatch
         /\ Len(Pruned.rungs) = Len(ladder.rungs)
         /\ Pruned.fallthrough =
              {t \in ladder.fallthrough : ~Reported(ReservedFallthrough(t))}
         /\ \A k \in 1 .. Len(ladder.rungs) :
              /\ Pruned.rungs[k].claimant = ladder.rungs[k].claimant
              /\ Pruned.rungs[k].action = ladder.rungs[k].action
              /\ Pruned.rungs[k].triggers =
                   {t \in ladder.rungs[k].triggers :
                      \A f \in 1 .. k - 1 :
                        ~Reported(DeadRung(ladder.rungs[k].claimant, t, f))}
<1> DEFINE Kept(k) == {t \in ladder.rungs[k].triggers :
                         \A f \in 1 .. k - 1 :
                           ~Reported(DeadRung(ladder.rungs[k].claimant, t, f))}
           F == {t \in ladder.fallthrough : ~Reported(ReservedFallthrough(t))}
           q == [k \in DOMAIN ladder.rungs |-> Trimmed(ladder.rungs[k], Kept(k))]
<1>1. /\ ladder \in Ladder /\ DOMAIN ladder.rungs = 1 .. Len(ladder.rungs)
      /\ \A k \in 1 .. Len(ladder.rungs) : ladder.rungs[k] \in Rung
  BY LadderShape DEF TypeOK
<1>2. Pruned = NewLadder(ladder.hatch, q, F)
  BY Zenon DEF Pruned, Trimmed
<1>3. F \subseteq ladder.fallthrough
  OBVIOUS
<1>4. ASSUME NEW k \in 1 .. Len(ladder.rungs)
      PROVE  /\ q[k] \in Rung /\ q[k].claimant = ladder.rungs[k].claimant
             /\ q[k].action = ladder.rungs[k].action /\ q[k].triggers = Kept(k)
  <2>1. q[k] = Trimmed(ladder.rungs[k], Kept(k))
    BY <1>1
  <2>2. Kept(k) \in SUBSET ladder.rungs[k].triggers
    OBVIOUS
  <2> HIDE DEF q, Kept
  <2> QED BY <1>1, <2>1, <2>2, FewerTriggers
<1>5. q = [k \in DOMAIN ladder.rungs |-> q[k]]
  OBVIOUS
<1> HIDE DEF q, F, Kept
<1>6. q \in [DOMAIN ladder.rungs -> Rung]
  BY <1>1, <1>4, <1>5
<1>7. /\ Pruned \in Ladder /\ Pruned.hatch = ladder.hatch
      /\ Pruned.rungs = q /\ Pruned.fallthrough = F /\ Len(q) = Len(ladder.rungs)
  BY <1>1, <1>2, <1>3, <1>6, RungsReplaced
<1> QED BY <1>4, <1>7 DEF F, Kept

\* What is left when the reserved triggers of the rungs go too.
LEMMA PrunedOfReservedIs ==
  ASSUME TypeOK
  PROVE  /\ PrunedOfReserved \in Ladder /\ PrunedOfReserved.hatch = ladder.hatch
         /\ Len(PrunedOfReserved.rungs) = Len(ladder.rungs)
         /\ PrunedOfReserved.fallthrough = Pruned.fallthrough
         /\ \A k \in 1 .. Len(ladder.rungs) :
              /\ PrunedOfReserved.rungs[k].claimant = ladder.rungs[k].claimant
              /\ PrunedOfReserved.rungs[k].action = ladder.rungs[k].action
              /\ PrunedOfReserved.rungs[k].triggers =
                   {t \in Pruned.rungs[k].triggers :
                      ~Reported(ReservedByHatch(ladder.rungs[k].claimant, t))}
<1> DEFINE Kept(k) == {t \in Pruned.rungs[k].triggers :
                         ~Reported(ReservedByHatch(Pruned.rungs[k].claimant, t))}
           q == [k \in DOMAIN Pruned.rungs |-> Trimmed(Pruned.rungs[k], Kept(k))]
<1>1. /\ Pruned \in Ladder /\ Pruned.hatch = ladder.hatch
      /\ Len(Pruned.rungs) = Len(ladder.rungs)
      /\ \A k \in 1 .. Len(ladder.rungs) :
           /\ Pruned.rungs[k].claimant = ladder.rungs[k].claimant
           /\ Pruned.rungs[k].action = ladder.rungs[k].action
  BY PrunedIs
<1>2. /\ DOMAIN Pruned.rungs = 1 .. Len(ladder.rungs)
      /\ \A k \in 1 .. Len(ladder.rungs) : Pruned.rungs[k] \in Rung
  BY <1>1, LadderShape
<1>3. PrunedOfReserved = NewLadder(Pruned.hatch, q, Pruned.fallthrough)
  BY Zenon DEF PrunedOfReserved, Trimmed
<1>4. ASSUME NEW k \in 1 .. Len(ladder.rungs)
      PROVE  /\ q[k] \in Rung /\ q[k].claimant = Pruned.rungs[k].claimant
             /\ q[k].action = Pruned.rungs[k].action /\ q[k].triggers = Kept(k)
  <2>1. q[k] = Trimmed(Pruned.rungs[k], Kept(k))
    BY <1>2
  <2>2. Kept(k) \in SUBSET Pruned.rungs[k].triggers
    OBVIOUS
  <2> HIDE DEF q, Kept
  <2> QED BY <1>2, <2>1, <2>2, FewerTriggers
<1>5. q = [k \in DOMAIN Pruned.rungs |-> q[k]]
  OBVIOUS
<1> HIDE DEF q, Kept
<1>6. q \in [DOMAIN Pruned.rungs -> Rung]
  BY <1>2, <1>4, <1>5
<1>7. /\ PrunedOfReserved \in Ladder /\ PrunedOfReserved.hatch = Pruned.hatch
      /\ PrunedOfReserved.rungs = q /\ PrunedOfReserved.fallthrough = Pruned.fallthrough
      /\ Len(q) = Len(Pruned.rungs)
  <2>1. PICK F : F = Pruned.fallthrough
    OBVIOUS
  <2>2. PICK p \in Ladder : p = Pruned
    BY <1>1
  <2>3. q \in [DOMAIN p.rungs -> Rung] /\ F \subseteq p.fallthrough
    BY <1>6, <2>1, <2>2
  <2>4. LET m == NewLadder(p.hatch, q, F)
        IN  /\ m \in Ladder /\ m.hatch = p.hatch /\ m.rungs = q /\ m.fallthrough = F
            /\ Len(q) = Len(p.rungs)
    BY ONLY <2>3, RungsReplaced
  <2>5. PrunedOfReserved = NewLadder(p.hatch, q, F)
    BY <1>3, <2>1, <2>2
  <2> QED BY <2>1, <2>2, <2>4, <2>5
<1> QED BY <1>1, <1>4, <1>7 DEF Kept

\* A first owner is named by no report as the dead one: the row such a report
\* names owns the trigger as well, further up.
LEMMA FirstOwnerIsNotDead ==
  ASSUME TypeOK, LintInv, NEW t \in Trigger, NEW s \in Situation,
         NEW i \in 1 .. Len(ladder.rungs), Owns(ladder.rungs[i], t, s),
         \A j \in 1 .. i - 1 : ~Owns(ladder.rungs[j], t, s),
         NEW f \in 1 .. i - 1
  PROVE  ~Reported(DeadRung(ladder.rungs[i].claimant, t, f))
<1> DEFINE c == ladder.rungs[i].claimant
<1>1. SUFFICES ASSUME Reported(DeadRung(c, t, f)) PROVE FALSE
  OBVIOUS
<1>2. c \in Claimant /\ Len(ladder.rungs) \in Nat
  BY WalkShape DEF LintInv
<1>3. f = seen[<<c, t>>] /\ f # 0
  <2>1. IsTrue(DeadRung(c, t, f))
    BY <1>1 DEF LintInv, SoundInv, Reported
  <2> QED BY <2>1 DEF IsTrue, DeadRung
<1>4. f \in Walked(c, t)
  BY <1>2, <1>3 DEF LintInv, SeenInv
<1>5. Owns(ladder.rungs[f], t, s)
  BY <1>4 DEF Walked, Lists, Owns
<1> QED BY <1>5

\* Whoever deletes what the lint reports changes no answer it should not.
THEOREM PruningHarmless == Spec => []PruningIsHarmless
<1>1. ASSUME TypeOK, LintInv, NEW t \in Trigger, NEW s \in Situation
      PROVE  Resolve(Pruned, t, s) = Resolve(ladder, t, s)
  <2>1. \A i \in 1 .. Len(ladder.rungs) :
          Owns(Pruned.rungs[i], t, s) => Owns(ladder.rungs[i], t, s)
    BY <1>1, PrunedIs DEF Owns
  <2>2. ~HatchFires(ladder, t, s) =>
          (FallsThrough(Pruned, t, s) <=> FallsThrough(ladder, t, s))
    <3>1. Reported(ReservedFallthrough(t)) => Reserved(t)
      BY <1>1 DEF LintInv, SoundInv, Reported, IsTrue, ReservedFallthrough
    <3> QED BY <1>1, <3>1, PrunedIs DEF HatchFires, FallsThrough, Reserved
  <2>3. ASSUME NEW i \in 1 .. Len(ladder.rungs), Owns(ladder.rungs[i], t, s),
               \A j \in 1 .. i - 1 : ~Owns(ladder.rungs[j], t, s)
        PROVE  Owns(Pruned.rungs[i], t, s)
    <3>1. \A f \in 1 .. i - 1 : ~Reported(DeadRung(ladder.rungs[i].claimant, t, f))
      BY <1>1, <2>3, FirstOwnerIsNotDead
    <3> QED BY <1>1, <2>3, <3>1, PrunedIs DEF Owns
  <2>4. /\ ladder \in Ladder /\ Pruned \in Ladder /\ Pruned.hatch = ladder.hatch
        /\ Len(Pruned.rungs) = Len(ladder.rungs)
        /\ \A i \in 1 .. Len(ladder.rungs) :
             /\ Pruned.rungs[i].claimant = ladder.rungs[i].claimant
             /\ Pruned.rungs[i].action = ladder.rungs[i].action
    BY <1>1, PrunedIs DEF TypeOK
  <2> QED BY <2>1, <2>2, <2>3, <2>4, SameAnswer
<1>2. ASSUME TypeOK, LintInv, NEW t \in Trigger, NEW s \in Situation, s.work_running
      PROVE  Resolve(PrunedOfReserved, t, s) = Resolve(Pruned, t, s)
  <2>1. /\ Pruned \in Ladder /\ PrunedOfReserved \in Ladder
        /\ PrunedOfReserved.hatch = Pruned.hatch
        /\ PrunedOfReserved.fallthrough = Pruned.fallthrough
        /\ Len(PrunedOfReserved.rungs) = Len(Pruned.rungs)
        /\ \A i \in 1 .. Len(Pruned.rungs) :
             /\ PrunedOfReserved.rungs[i].claimant = Pruned.rungs[i].claimant
             /\ PrunedOfReserved.rungs[i].action = Pruned.rungs[i].action
             /\ PrunedOfReserved.rungs[i].triggers =
                  {u \in Pruned.rungs[i].triggers :
                     ~Reported(ReservedByHatch(ladder.rungs[i].claimant, u))}
    BY <1>2, PrunedIs, PrunedOfReservedIs
  <2>2. \A i \in 1 .. Len(Pruned.rungs) :
          Owns(PrunedOfReserved.rungs[i], t, s) => Owns(Pruned.rungs[i], t, s)
    BY <2>1 DEF Owns
  <2>3. \A c : Reported(ReservedByHatch(c, t)) => Reserved(t)
    BY <1>2 DEF LintInv, SoundInv, Reported, IsTrue, ReservedByHatch
  <2>4. Reserved(t) => HatchFires(Pruned, t, s)
    BY <1>2, PrunedIs DEF HatchFires, Reserved
  <2>5. ASSUME ~HatchFires(Pruned, t, s), NEW i \in 1 .. Len(Pruned.rungs),
               Owns(Pruned.rungs[i], t, s)
        PROVE  Owns(PrunedOfReserved.rungs[i], t, s)
    BY <2>1, <2>3, <2>4, <2>5 DEF Owns
  <2>6. FallsThrough(PrunedOfReserved, t, s) <=> FallsThrough(Pruned, t, s)
    BY <2>1 DEF FallsThrough
  <2> QED BY <2>1, <2>2, <2>5, <2>6, SameAnswer
<1>3. TypeOK /\ LintInv => PruningIsHarmless
  BY <1>1, <1>2 DEF PruningIsHarmless
<1> QED BY <1>3, TypeCorrect, LintCorrect, PTL

-----------------------------------------------------------------------------
(* Counting the reports counts the collisions.                             *)

\* One more element, one more to count.
LEMMA OneMore ==
  ASSUME NEW S, IsFiniteSet(S), NEW x, x \notin S
  PROVE  IsFiniteSet(S \cup {x}) /\ Cardinality(S \cup {x}) = Cardinality(S) + 1
BY FS_AddElement

\* A report pushed takes the next place, and counts if it is a dead one of the
\* pair.
LEMMA PushCounts ==
  ASSUME NEW q \in Seq(Collision), NEW r \in Collision, NEW c, NEW t
  PROVE  /\ q \o <<r>> \in Seq(Collision) /\ Len(q \o <<r>>) = Len(q) + 1
         /\ Len(q) + 1 \notin DeadReports(q, c, t)
         /\ DeadReports(q \o <<r>>, c, t) =
              DeadReports(q, c, t)
                \cup (IF r.kind = "DeadRung" /\ r.claimant = c /\ r.trigger = t
                      THEN {Len(q) + 1} ELSE {})
<1> DEFINE p == q \o <<r>>
           n == Len(q) + 1
<1>1. /\ p \in Seq(Collision) /\ Len(p) = n /\ Len(q) \in Nat
      /\ DOMAIN p = DOMAIN q \cup {n} /\ n \notin DOMAIN q
      /\ p[n] = r /\ \A i \in DOMAIN q : p[i] = q[i]
  OBVIOUS
<1> HIDE DEF p, n
<1>2. /\ n \notin DeadReports(q, c, t)
      /\ DeadReports(p, c, t) =
           DeadReports(q, c, t)
             \cup (IF r.kind = "DeadRung" /\ r.claimant = c /\ r.trigger = t
                   THEN {n} ELSE {})
  BY <1>1, Zenon DEF DeadReports
<1> QED BY <1>1, <1>2 DEF p, n

\* A report of another kind adds to the number and to no pair's dead reports.
LEMMA PushOther ==
  ASSUME NEW q \in Seq(Collision), NEW r \in Collision, r.kind # "DeadRung"
  PROVE  /\ q \o <<r>> \in Seq(Collision) /\ Len(q \o <<r>>) = Len(q) + 1
         /\ \A c, t : DeadReports(q \o <<r>>, c, t) = DeadReports(q, c, t)
<1>1. ASSUME NEW c, NEW t
      PROVE  DeadReports(q \o <<r>>, c, t) = DeadReports(q, c, t)
  <2>1. DeadReports(q \o <<r>>, c, t) =
          DeadReports(q, c, t)
            \cup (IF r.kind = "DeadRung" /\ r.claimant = c /\ r.trigger = t
                  THEN {Len(q) + 1} ELSE {})
    BY PushCounts
  <2> QED BY <2>1, Zenon
<1> QED BY <1>1, PushCounts

\* Every pair has the same dead reports in p as in q; or one pair has one more,
\* and the others as many.
SameDead(q, p) == \A d, u : DeadReports(p, d, u) = DeadReports(q, d, u)

OneMoreDead(q, p, c, t) ==
  \A d \in Claimant, u \in Trigger : IsFiniteSet(DeadReports(q, d, u)) =>
    /\ IsFiniteSet(DeadReports(p, d, u))
    /\ Cardinality(DeadReports(p, d, u)) =
         Cardinality(DeadReports(q, d, u)) + (IF d = c /\ u = t THEN 1 ELSE 0)

\* A dead report pushed is one more of its pair.
LEMMA PushDead ==
  ASSUME NEW q \in Seq(Collision), NEW c \in Claimant, NEW t \in Trigger, NEW f \in Nat
  PROVE  OneMoreDead(q, q \o <<DeadRung(c, t, f)>>, c, t)
<1> SUFFICES ASSUME NEW d \in Claimant, NEW u \in Trigger, IsFiniteSet(DeadReports(q, d, u))
             PROVE  LET p == q \o <<DeadRung(c, t, f)>>
                    IN  /\ IsFiniteSet(DeadReports(p, d, u))
                        /\ Cardinality(DeadReports(p, d, u)) =
                             Cardinality(DeadReports(q, d, u))
                               + (IF d = c /\ u = t THEN 1 ELSE 0)
  BY Zenon DEF OneMoreDead
<1> DEFINE p == q \o <<DeadRung(c, t, f)>>
           P == DeadReports(p, d, u)
           Q == DeadReports(q, d, u)
<1>1. PICK r \in Collision : /\ r = DeadRung(c, t, f)
                             /\ r.kind = "DeadRung" /\ r.claimant = c /\ r.trigger = t
  BY CollisionShape DEF DeadRung
<1>2. /\ Len(q) + 1 \notin Q
      /\ P = Q \cup (IF r.kind = "DeadRung" /\ r.claimant = d /\ r.trigger = u
                     THEN {Len(q) + 1} ELSE {})
  BY <1>1, PushCounts
<1>3. IsFiniteSet(Q) /\ Cardinality(Q) \in Nat
  BY FS_CardinalityType
<1>4. CASE d = c /\ u = t
  <2>1. P = Q \cup {Len(q) + 1}
    BY <1>1, <1>2, <1>4, Zenon
  <2> HIDE DEF P, Q
  <2>2. IsFiniteSet(P) /\ Cardinality(P) = Cardinality(Q) + 1
    BY <1>2, <1>3, <2>1, OneMore
  <2> QED BY <1>4, <2>2 DEF P, Q
<1>5. CASE ~(d = c /\ u = t)
  <2>1. ~(r.kind = "DeadRung" /\ r.claimant = d /\ r.trigger = u)
    BY <1>1, <1>5
  <2>2. P = Q
    BY <1>2, <2>1, Zenon
  <2> HIDE DEF P, Q
  <2>3. IsFiniteSet(P) /\ Cardinality(P) = Cardinality(Q) + 0
    BY <1>3, <2>2
  <2> QED BY <1>5, <2>3 DEF P, Q
<1> QED BY <1>4, <1>5

\* What a visit of one pair adds to the number of reports, and to its own.
LEMMA VisitCounts ==
  ASSUME TypeOK, NEW t \in Trigger, VisitPair(t),
         NEW c, c = ladder.rungs[index].claimant, c \in Claimant
  PROVE  LET first == seen[<<c, t>>]
         IN  /\ Len(found') = Len(found) + (IF Reserved(t) THEN 1 ELSE 0)
                                         + (IF first # 0 THEN 1 ELSE 0)
             /\ first # 0 => OneMoreDead(found, found', c, t)
             /\ first = 0 => SameDead(found, found')
<1> DEFINE f == seen[<<c, t>>]
           q == found \o ReportIf(Reserved(t), ReservedByHatch(c, t))
<1>1. found \in Seq(Collision) /\ f \in Nat /\ Len(found) \in Nat
  BY LadderShape DEF TypeOK
<1>2. found' = q \o ReportIf(f # 0, DeadRung(c, t, f))
  BY DEF VisitPair
<1> HIDE DEF f
<1>3. PICK r \in Collision : r = ReservedByHatch(c, t) /\ r.kind # "DeadRung"
  BY CollisionShape, 0 \in Nat DEF ReservedByHatch
<1>4. /\ q \in Seq(Collision)
      /\ Len(q) = Len(found) + (IF Reserved(t) THEN 1 ELSE 0)
      /\ SameDead(found, q)
  <2>1. CASE Reserved(t)
    <3>1. q = found \o <<r>>
      BY <1>3, <2>1 DEF ReportIf
    <3> HIDE DEF q
    <3>2. SameDead(found, q)
      BY <1>1, <1>3, <3>1, PushOther DEF SameDead
    <3> QED BY <1>1, <1>3, <2>1, <3>1, <3>2, PushOther
  <2>2. CASE ~Reserved(t)
    <3>1. q = found
      BY <1>1, <2>2 DEF ReportIf
    <3> HIDE DEF q
    <3> QED BY <1>1, <2>2, <3>1 DEF SameDead
  <2> QED BY <2>1, <2>2
<1> HIDE DEF q
<1>5. CASE f # 0
  <2>1. PICK p : p = q \o <<DeadRung(c, t, f)>> /\ p = found'
    BY <1>2, <1>5 DEF ReportIf
  <2>2. OneMoreDead(q, p, c, t)
    BY <1>1, <1>4, <2>1, PushDead
  <2>3. OneMoreDead(found, p, c, t)
    BY <1>4, <2>2, Zenon DEF SameDead, OneMoreDead
  <2>4. Len(p) = Len(q) + 1
    <3>1. DeadRung(c, t, f) \in Collision
      BY <1>1, CollisionShape
    <3> QED BY <1>4, <2>1, <3>1, PushCounts
  <2> QED BY <1>1, <1>4, <1>5, <2>1, <2>3, <2>4 DEF f
<1>6. CASE f = 0
  <2>1. found' = q
    BY <1>2, <1>4, <1>6 DEF ReportIf
  <2> QED BY <1>1, <1>4, <1>6, <2>1 DEF f
<1> QED BY <1>5, <1>6

\* What a visit of one fallthrough trigger adds.
LEMMA FallthroughCounts ==
  ASSUME TypeOK, NEW t \in Trigger, VisitFallthrough(t)
  PROVE  /\ Len(found') = Len(found) + (IF Reserved(t) THEN 1 ELSE 0)
         /\ SameDead(found, found')
<1>1. /\ found \in Seq(Collision) /\ Len(found) \in Nat
      /\ found' = found \o ReportIf(Reserved(t), ReservedFallthrough(t))
  BY DEF VisitFallthrough, TypeOK
<1>2. ReservedFallthrough(t) \in Collision /\ ReservedFallthrough(t).kind # "DeadRung"
  BY DEF ReservedFallthrough, Collision
<1>3. CASE Reserved(t)
  <2>1. found' = found \o <<ReservedFallthrough(t)>>
    BY <1>1, <1>3 DEF ReportIf
  <2>2. PICK r \in Collision : r = ReservedFallthrough(t) /\ r.kind # "DeadRung"
    BY <1>2
  <2>3. found' = found \o <<r>>
    BY <2>1, <2>2
  <2>4. /\ Len(found \o <<r>>) = Len(found) + 1
        /\ SameDead(found, found \o <<r>>)
    BY <1>1, <2>2, PushOther DEF SameDead
  <2> QED BY <1>3, <2>3, <2>4
<1>4. CASE ~Reserved(t)
  <2>1. found' = found
    BY <1>1, <1>4 DEF ReportIf
  <2> QED BY <1>1, <1>4, <2>1 DEF SameDead
<1> QED BY <1>3, <1>4

\* The pair visited joins the pairs walked, if it is one of them.
LEMMA PairWalked ==
  ASSUME TypeOK, WalkInv, NEW t \in Trigger, VisitPair(t),
         NEW pairs, pairs \subseteq Pairs(ladder)
  PROVE  /\ <<index, t>> \notin WalkedPairs(pairs)
         /\ WalkedPairs(pairs)' = WalkedPairs(pairs) \cup (pairs \cap {<<index, t>>})
<1>0. PICK c : c = ladder.rungs[index].claimant
  OBVIOUS
<1>1. /\ index \in 1 .. Len(ladder.rungs) /\ c \in Claimant
      /\ \A d \in Claimant, u \in Trigger :
           Walked(d, u)' = Walked(d, u) \cup (IF d = c /\ u = t THEN {index} ELSE {})
      /\ \A k \in Walked(c, t) : k < index
      /\ ladder' = ladder
  <2>1. /\ index \in 1 .. Len(ladder.rungs) /\ c \in Claimant
        /\ \A d \in Claimant, u \in Trigger :
             /\ Walked(d, u)' = Walked(d, u) \cup
                                 (IF d = c /\ u = t THEN {index} ELSE {})
             /\ seen'[<<d, u>>] = IF d = c /\ u = t /\ seen[<<c, t>>] = 0
                                  THEN index ELSE seen[<<d, u>>]
        /\ \A k \in Walked(c, t) : k < index
        /\ UNCHANGED <<ladder, pc, index>>
    BY <1>0, VisitEffect
  <2> QED BY <2>1, Zenon
<1>2. index \notin Walked(c, t)
  BY <1>1, WalkShape
<1>3. <<index, t>> \notin WalkedPairs(pairs)
  BY <1>0, <1>2 DEF WalkedPairs
<1>4. ASSUME NEW p \in pairs
      PROVE  p \in WalkedPairs(pairs)' <=> p \in WalkedPairs(pairs) \/ p = <<index, t>>
  <2>1. PICK k \in 1 .. Len(ladder.rungs), u \in Trigger : p = <<k, u>>
    BY <1>4, WalkShape DEF Pairs
  <2>2. PICK d \in Claimant : d = ladder.rungs[k].claimant
    BY WalkShape
  <2>3. p \in WalkedPairs(pairs) <=> k \in Walked(d, u)
    BY <2>1, <2>2 DEF WalkedPairs
  <2>4. p \in WalkedPairs(pairs)' <=> k \in Walked(d, u)'
    BY <1>1, <2>1, <2>2 DEF WalkedPairs
  <2>5. k \in Walked(d, u)' <=> k \in Walked(d, u) \/ (d = c /\ u = t /\ k = index)
    BY <1>1
  <2>6. k = index => d = c
    BY <1>0, <2>2
  <2> QED BY <2>1, <2>3, <2>4, <2>5, <2>6
<1>5. WalkedPairs(pairs) \subseteq pairs /\ WalkedPairs(pairs)' \subseteq pairs
  BY DEF WalkedPairs
<1> QED BY <1>3, <1>4, <1>5

\* The pair visited is a repeated one exactly if its entry of `seen` is set.
LEMMA VisitedPairIs ==
  ASSUME TypeOK, WalkInv, SeenInv, NEW t \in Trigger, VisitPair(t)
  PROVE  LET c == ladder.rungs[index].claimant
         IN  /\ <<index, t>> \in ReservedPairs(ladder) <=> Reserved(t)
             /\ <<index, t>> \in RepeatedPairs(ladder) <=> seen[<<c, t>>] # 0
<1> DEFINE c == ladder.rungs[index].claimant
<1>1. /\ index \in 1 .. Len(ladder.rungs) /\ c \in Claimant
      /\ \A k \in Walked(c, t) : k < index
  BY VisitEffect
<1>2. t \in ladder.rungs[index].triggers
  BY <1>1 DEF VisitPair, NextTrigger, WalkInv
<1>3. <<index, t>> \in Pairs(ladder)
  BY <1>1, <1>2, WalkShape DEF Pairs
<1>4. <<index, t>> \in ReservedPairs(ladder) <=> Reserved(t)
  BY <1>3 DEF ReservedPairs, Reserved
<1>5. <<index, t>> \in RepeatedPairs(ladder) <=>
        \E f \in 1 .. index - 1 : /\ ladder.rungs[f].claimant = c
                                  /\ t \in ladder.rungs[f].triggers
  BY <1>3 DEF RepeatedPairs
<1>6. \A f : f \in 1 .. index - 1 /\ ladder.rungs[f].claimant = c
              /\ t \in ladder.rungs[f].triggers <=> f \in Walked(c, t)
  BY <1>1, WalkShape DEF Walked, Lists, Visited
<1>7. seen[<<c, t>>] # 0 <=> \E f : f \in Walked(c, t)
  BY <1>1 DEF SeenInv
<1> QED BY <1>4, <1>5, <1>6, <1>7

\* Each row that repeats a pair is reported, once, when it is walked.
THEOREM RepeatCorrect == Spec => []RepeatInv
<1>1. Init => RepeatInv
  <2> SUFFICES ASSUME Init, NEW c \in Claimant, NEW t \in Trigger
               PROVE  /\ IsFiniteSet(Walked(c, t)) /\ IsFiniteSet(DeadReports(found, c, t))
                      /\ Walked(c, t) = {} /\ Cardinality(DeadReports(found, c, t)) = 0
    BY DEF RepeatInv
  <2>1. Walked(c, t) = {}
    BY NothingWalked
  <2>2. DeadReports(found, c, t) = {}
    BY DEF Init, DeadReports
  <2> QED BY <2>1, <2>2, FS_EmptySet
<1>2. ASSUME TypeOK, WalkInv, SeenInv, RepeatInv, [Next]_vars
      PROVE  RepeatInv'
  <2>1. CASE \E t \in Trigger : VisitPair(t)
    <3>1. PICK t \in Trigger : VisitPair(t)
      BY <2>1
    <3>2. PICK c : c = ladder.rungs[index].claimant
      OBVIOUS
    <3>3. /\ index \in 1 .. Len(ladder.rungs) /\ c \in Claimant
          /\ \A d \in Claimant, u \in Trigger :
               /\ Walked(d, u)' = Walked(d, u) \cup
                                   (IF d = c /\ u = t THEN {index} ELSE {})
               /\ seen'[<<d, u>>] = IF d = c /\ u = t /\ seen[<<c, t>>] = 0
                                    THEN index ELSE seen[<<d, u>>]
          /\ \A k \in Walked(c, t) : k < index
      BY <1>2, <3>1, <3>2, VisitEffect
    <3>6. ASSUME NEW d \in Claimant, NEW u \in Trigger
          PROVE  /\ IsFiniteSet(Walked(d, u)') /\ IsFiniteSet(DeadReports(found', d, u))
                 /\ Cardinality(DeadReports(found', d, u)) =
                      IF Walked(d, u)' = {} THEN 0 ELSE Cardinality(Walked(d, u)') - 1
      <4> DEFINE W == Walked(d, u)
                 m == Cardinality(DeadReports(found, d, u))
                 n == Cardinality(DeadReports(found', d, u))
      <4>1. /\ IsFiniteSet(W) /\ IsFiniteSet(DeadReports(found, d, u))
            /\ m = IF W = {} THEN 0 ELSE Cardinality(W) - 1
        BY <1>2 DEF RepeatInv
      <4>2. Cardinality(W) \in Nat /\ Cardinality({}) = 0
        BY <4>1, FS_CardinalityType, FS_EmptySet
      <4>3. /\ IsFiniteSet(DeadReports(found', d, u))
            /\ n = m + (IF d = c /\ u = t /\ seen[<<c, t>>] # 0 THEN 1 ELSE 0)
        <5>1. CASE seen[<<c, t>>] # 0
          <6>1. OneMoreDead(found, found', c, t)
            BY <1>2, <3>1, <3>2, <3>3, <5>1, VisitCounts
          <6>2. /\ IsFiniteSet(DeadReports(found', d, u))
                /\ n = m + (IF d = c /\ u = t THEN 1 ELSE 0)
            BY <4>1, <6>1, Zenon DEF OneMoreDead
          <6> QED BY <5>1, <6>2
        <5>2. CASE seen[<<c, t>>] = 0
          <6>1. SameDead(found, found')
            BY <1>2, <3>1, <3>2, <3>3, <5>2, VisitCounts
          <6>2. IsFiniteSet(DeadReports(found', d, u)) /\ n = m
            BY <4>1, <6>1, Zenon DEF SameDead
          <6> HIDE DEF m, n
          <6> QED BY <4>1, <4>2, <5>2, <6>2
        <5> QED BY <5>1, <5>2
      <4>4. CASE ~(d = c /\ u = t)
        <5>1. Walked(d, u)' = Walked(d, u)
          <6>1. Walked(d, u)' = Walked(d, u) \cup
                                 (IF d = c /\ u = t THEN {index} ELSE {})
            BY <3>3
          <6> QED BY <4>4, <6>1, Zenon
        <5>2. n = m
          BY <4>1, <4>2, <4>3, <4>4
        <5> HIDE DEF m, n
        <5> QED BY <4>1, <4>3, <5>1, <5>2, Zenon DEF n
      <4>5. CASE d = c /\ u = t
        <5>1. W' = W \cup {index} /\ index \notin W
          BY <1>2, <3>3, <4>5, WalkShape
        <5>2. seen[<<c, t>>] = 0 <=> W = {}
          BY <1>2, <3>3, <4>5 DEF SeenInv
        <5> HIDE DEF W, m, n
        <5>3. IsFiniteSet(W') /\ Cardinality(W') = Cardinality(W) + 1 /\ W' # {}
          BY <4>1, <5>1, OneMore
        <5>4. n = Cardinality(W') - 1
          <6>1. CASE W = {}
            <7>1. m = 0 /\ Cardinality(W) = 0 /\ n = m + 0
              BY <4>1, <4>2, <4>3, <4>5, <5>2, <6>1
            <7> QED BY <5>3, <7>1
          <6>2. CASE W # {}
            <7>1. m = Cardinality(W) - 1 /\ n = m + 1
              BY <4>1, <4>2, <4>3, <4>5, <5>2, <6>2
            <7> QED BY <4>2, <5>3, <7>1
          <6> QED BY <6>1, <6>2
        <5> QED BY <4>3, <5>3, <5>4, Zenon DEF W, n
      <4> QED BY <4>4, <4>5
    <3> QED BY <3>6 DEF RepeatInv
  <2>2. CASE ~\E t \in Trigger : VisitPair(t)
    <3>1. \A d, u : Walked(d, u)' = Walked(d, u)
      BY <1>2, <2>2, OtherEffect DEF Next
    <3>2. SameDead(found, found')
      <4>1. CASE \E t \in Trigger : VisitFallthrough(t)
        BY <1>2, <4>1, FallthroughCounts
      <4>2. CASE ~\E t \in Trigger : VisitFallthrough(t)
        <5>1. found' = found
          BY <1>2, <2>2, <4>2 DEF Next, NextRung, EnterFallthrough, Finish, vars
        <5> QED BY <5>1 DEF SameDead
      <4> QED BY <4>1, <4>2
    <3> QED BY <1>2, <3>1, <3>2 DEF RepeatInv, SameDead
  <2> QED BY <2>1, <2>2
<1> QED BY <1>1, <1>2, TypeCorrect, SeenCorrect, PTL DEF Spec

\* As many reports are pushed as collisions are walked.
THEOREM CountCorrect == Spec => []CountInv
<1> DEFINE R == WalkedPairs(ReservedPairs(ladder))
           D == WalkedPairs(RepeatedPairs(ladder))
           F == WalkedFallthrough
<1>1. Init => CountInv
  <2> SUFFICES ASSUME Init PROVE CountInv
    OBVIOUS
  <2>1. R = {} /\ D = {} /\ F = {}
    BY NothingWalked DEF Init, WalkedPairs, WalkedFallthrough
  <2>2. IsFiniteSet({}) /\ Cardinality({}) = 0
    BY FS_EmptySet
  <2>3. Len(found) = 0
    BY DEF Init
  <2> QED BY <2>1, <2>2, <2>3 DEF CountInv
<1>2. ASSUME TypeOK, WalkInv, SeenInv, CountInv, [Next]_vars
      PROVE  CountInv'
  <2>0. /\ IsFiniteSet(R) /\ IsFiniteSet(D) /\ IsFiniteSet(F)
        /\ Len(found) = Cardinality(R) + Cardinality(D) + Cardinality(F)
        /\ Cardinality(R) \in Nat /\ Cardinality(D) \in Nat /\ Cardinality(F) \in Nat
    BY <1>2, FS_CardinalityType DEF CountInv
  <2>1. CASE \E t \in Trigger : VisitPair(t)
    <3>1. PICK t \in Trigger : VisitPair(t)
      BY <2>1
    <3>2. PICK c : c = ladder.rungs[index].claimant
      OBVIOUS
    <3>3. c \in Claimant /\ UNCHANGED <<ladder, pc>>
      BY <1>2, <3>1, <3>2, VisitEffect
    <3>4. PICK rp, dp : rp = ReservedPairs(ladder) /\ dp = RepeatedPairs(ladder)
      OBVIOUS
    <3>5. rp \subseteq Pairs(ladder) /\ dp \subseteq Pairs(ladder)
      BY <3>4 DEF ReservedPairs, RepeatedPairs
    <3>6. /\ <<index, t>> \notin WalkedPairs(rp) /\ <<index, t>> \notin WalkedPairs(dp)
          /\ WalkedPairs(rp)' = WalkedPairs(rp) \cup (rp \cap {<<index, t>>})
          /\ WalkedPairs(dp)' = WalkedPairs(dp) \cup (dp \cap {<<index, t>>})
      BY <1>2, <3>1, <3>5, PairWalked
    <3>7. R = WalkedPairs(rp) /\ D = WalkedPairs(dp)
          /\ R' = WalkedPairs(rp)' /\ D' = WalkedPairs(dp)'
      BY <3>3, <3>4
    <3>8. /\ <<index, t>> \in rp <=> Reserved(t)
          /\ <<index, t>> \in dp <=> seen[<<c, t>>] # 0
      BY <1>2, <3>1, <3>2, <3>4, VisitedPairIs
    <3>9. Len(found') = Len(found) + (IF Reserved(t) THEN 1 ELSE 0)
                                   + (IF seen[<<c, t>>] # 0 THEN 1 ELSE 0)
      BY <1>2, <3>1, <3>2, <3>3, VisitCounts
    <3>10. F = {} /\ F' = {}
      BY <3>1, <3>3 DEF WalkedFallthrough, VisitPair
    <3> HIDE DEF R, D, F
    <3>11. IsFiniteSet(R') /\ Cardinality(R') =
             Cardinality(R) + (IF Reserved(t) THEN 1 ELSE 0)
      <4>1. CASE Reserved(t)
        <5>1. R' = R \cup {<<index, t>>} /\ <<index, t>> \notin R
          BY <3>6, <3>7, <3>8, <4>1
        <5> QED BY <2>0, <4>1, <5>1, OneMore
      <4>2. CASE ~Reserved(t)
        <5>1. R' = R
          BY <3>6, <3>7, <3>8, <4>2
        <5> QED BY <2>0, <4>2, <5>1
      <4> QED BY <4>1, <4>2
    <3>12. IsFiniteSet(D') /\ Cardinality(D') =
             Cardinality(D) + (IF seen[<<c, t>>] # 0 THEN 1 ELSE 0)
      <4>1. CASE seen[<<c, t>>] # 0
        <5>1. D' = D \cup {<<index, t>>} /\ <<index, t>> \notin D
          BY <3>6, <3>7, <3>8, <4>1
        <5> QED BY <2>0, <4>1, <5>1, OneMore
      <4>2. CASE seen[<<c, t>>] = 0
        <5>1. D' = D
          BY <3>6, <3>7, <3>8, <4>2
        <5> QED BY <2>0, <4>2, <5>1
      <4> QED BY <4>1, <4>2
    <3>13. Len(found') = Cardinality(R') + Cardinality(D') + Cardinality(F')
           /\ IsFiniteSet(F')
      BY <2>0, <3>9, <3>10, <3>11, <3>12
    <3> QED BY <3>11, <3>12, <3>13 DEF CountInv, R, D, F
  <2>2. CASE ~\E t \in Trigger : VisitPair(t)
    <3>1. ladder' = ladder /\ \A d, u : Walked(d, u)' = Walked(d, u)
      BY <1>2, <2>2, OtherEffect DEF Next
    <3>2. R' = R /\ D' = D
      BY <3>1 DEF WalkedPairs
    <3> HIDE DEF R, D
    <3>3. CASE \E t \in Trigger : VisitFallthrough(t)
      <4>1. PICK t \in Trigger : VisitFallthrough(t)
        BY <3>3
      <4>2. Len(found') = Len(found) + (IF Reserved(t) THEN 1 ELSE 0)
        BY <1>2, <4>1, FallthroughCounts
      <4>3. /\ t \in ladder.fallthrough /\ t \in todo /\ todo' = todo \ {t}
            /\ pc = "fallthrough" /\ pc' = pc
        BY <1>2, <4>1 DEF VisitFallthrough, NextTrigger, WalkInv
      <4>4. t \notin F /\ F' = F \cup (IF Reserved(t) THEN {t} ELSE {})
        BY <3>1, <4>3 DEF WalkedFallthrough, Reserved
      <4> HIDE DEF F
      <4>5. IsFiniteSet(F') /\ Cardinality(F') =
              Cardinality(F) + (IF Reserved(t) THEN 1 ELSE 0)
        <5>1. CASE Reserved(t)
          BY <2>0, <4>4, <5>1, OneMore
        <5>2. CASE ~Reserved(t)
          BY <2>0, <4>4, <5>2
        <5> QED BY <5>1, <5>2
      <4>6. Len(found') = Cardinality(R') + Cardinality(D') + Cardinality(F')
        BY <2>0, <3>2, <4>2, <4>5
      <4>7. IsFiniteSet(R') /\ IsFiniteSet(D')
        BY <2>0, <3>2
      <4> QED BY <4>5, <4>6, <4>7 DEF CountInv, R, D, F
    <3>4. CASE ~\E t \in Trigger : VisitFallthrough(t)
      <4>1. found' = found
        BY <1>2, <2>2, <3>4 DEF Next, NextRung, EnterFallthrough, Finish, vars
      <4>2. F' = F
        <5>1. CASE EnterFallthrough
          BY <3>1, <5>1 DEF EnterFallthrough, WalkedFallthrough
        <5>2. CASE NextRung
          BY <5>2 DEF NextRung, WalkedFallthrough
        <5>3. CASE Finish \/ UNCHANGED vars
          BY <3>1, <5>3 DEF Finish, vars, WalkedFallthrough
        <5> QED BY <1>2, <2>2, <3>4, <5>1, <5>2, <5>3 DEF Next
      <4> HIDE DEF F
      <4> QED BY <2>0, <3>2, <4>1, <4>2 DEF CountInv, R, D, F
    <3> QED BY <3>3, <3>4
  <2> QED BY <2>1, <2>2
<1> QED BY <1>1, <1>2, TypeCorrect, SeenCorrect, PTL DEF Spec

\* Every collision is reported, and none of them twice.
THEOREM ReportedOnce == Spec => []EveryCollisionReportedOnce
<1>1. ASSUME TypeOK, WalkInv, CountInv, RepeatInv, Done
      PROVE  /\ Len(found) = CollisionCount(ladder)
             /\ \A c \in Claimant, t \in Trigger :
                  LET rows == {k \in DOMAIN ladder.rungs : Lists(k, c, t)}
                  IN  Cardinality(DeadReports(found, c, t)) =
                        IF rows = {} THEN 0 ELSE Cardinality(rows) - 1
  <2>1. /\ pc = "done" /\ todo = {} /\ index = Len(ladder.rungs)
        /\ DOMAIN ladder.rungs = 1 .. Len(ladder.rungs) /\ Len(ladder.rungs) \in Nat
    BY <1>1, WalkShape DEF Done, WalkInv
  <2>2. \A c, t : Walked(c, t) = {k \in DOMAIN ladder.rungs : Lists(k, c, t)}
    BY <2>1 DEF Walked, Visited
  <2>3. ASSUME NEW pairs, pairs \subseteq Pairs(ladder)
        PROVE  WalkedPairs(pairs) = pairs
    <3>1. ASSUME NEW p \in pairs
          PROVE  p[1] \in Walked(ladder.rungs[p[1]].claimant, p[2])
      BY <2>2, <2>3, <3>1 DEF Pairs, Lists
    <3> QED BY <3>1 DEF WalkedPairs
  <2>4. /\ WalkedPairs(ReservedPairs(ladder)) = ReservedPairs(ladder)
        /\ WalkedPairs(RepeatedPairs(ladder)) = RepeatedPairs(ladder)
    <3>1. /\ ReservedPairs(ladder) \subseteq Pairs(ladder)
          /\ RepeatedPairs(ladder) \subseteq Pairs(ladder)
      BY DEF ReservedPairs, RepeatedPairs
    <3> QED BY <2>3, <3>1
  <2>5. WalkedFallthrough = ladder.fallthrough \cap ladder.hatch.reserved
    BY <2>1 DEF WalkedFallthrough
  <2>6. Len(found) = CollisionCount(ladder)
    BY <1>1, <2>4, <2>5 DEF CountInv, CollisionCount
  <2>7. ASSUME NEW c \in Claimant, NEW t \in Trigger
        PROVE  LET rows == {k \in DOMAIN ladder.rungs : Lists(k, c, t)}
               IN  Cardinality(DeadReports(found, c, t)) =
                     IF rows = {} THEN 0 ELSE Cardinality(rows) - 1
    <3>1. Cardinality(DeadReports(found, c, t)) =
            IF Walked(c, t) = {} THEN 0 ELSE Cardinality(Walked(c, t)) - 1
      BY <1>1 DEF RepeatInv
    <3> QED BY <2>2, <3>1, Zenon
  <2> QED BY <2>6, <2>7
<1>2. TypeOK /\ WalkInv /\ CountInv /\ RepeatInv => EveryCollisionReportedOnce
  <2> SUFFICES ASSUME TypeOK, WalkInv, CountInv, RepeatInv, Done
               PROVE  EveryCollisionReportedOnce
    BY DEF EveryCollisionReportedOnce
  <2> QED BY <1>1 DEF EveryCollisionReportedOnce
<1> QED BY <1>2, TypeCorrect, CountCorrect, RepeatCorrect, PTL
=============================================================================
