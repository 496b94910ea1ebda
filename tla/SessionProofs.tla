---------------------------- MODULE SessionProofs ----------------------------
(***************************************************************************)
(* What a host may count on, for every table, any claimants and any number *)
(* of units of work: the count of units is right, so the escape is there   *)
(* exactly while work runs, reserved hints do not go stale, and each step  *)
(* changes answers only in the direction it may.                           *)
(***************************************************************************)
EXTENDS Session, TLAPS, FiniteSetTheorems, WellFoundedInduction

-----------------------------------------------------------------------------
(* Lemmas about the decision.                                              *)

\* Positions are well-ordered: a set of them that is not empty has a least one.
LEMMA MinExists ==
  ASSUME NEW S, S \subseteq Nat, S # {}
  PROVE  Min(S) \in S /\ \A x \in S : Min(S) <= x
<1>1. PICK m \in S : \A x \in S : ~(<<x, m>> \in OpToRel(<, Nat))
  BY NatLessThanWellFounded, WFMin
<1>2. ASSUME NEW x \in S, x < m
      PROVE  <<x, m>> \in OpToRel(<, Nat)
  <2>1. <<x, m>> \in Nat \X Nat /\ <<x, m>>[1] < <<x, m>>[2]
    BY <1>2
  <2> QED BY <2>1, Zenon DEF OpToRel
<1>3. \A x \in S : ~(x < m)
  BY <1>1, <1>2, Zenon
<1>4. \A x \in S : m <= x
  BY <1>3
<1>5. \A x \in S : (\A y \in S : x <= y) => x = m
  BY <1>4
<1> QED BY <1>4, <1>5 DEF Min

\* The first owner is an owner, and no owner is above it.
LEMMA FirstOwner ==
  ASSUME NEW l \in Ladder, NEW t, NEW s, Owners(l, t, s) # {}
  PROVE  /\ Min(Owners(l, t, s)) \in Owners(l, t, s)
         /\ \A i \in Owners(l, t, s) : Min(Owners(l, t, s)) <= i
<1>1. l.rungs \in Seq(Rung)
  BY DEF Ladder
<1>2. Owners(l, t, s) \subseteq Nat
  BY <1>1 DEF Owners
<1> QED BY <1>2, MinExists

\* An answer other than the hatch's own branch, spelled out.
LEMMA WithoutHatch ==
  ASSUME NEW l, NEW t, NEW s, ~HatchFires(l, t, s)
  PROVE  /\ Owners(l, t, s) # {} =>
              Resolve(l, t, s) = Claimed(l.rungs[Min(Owners(l, t, s))])
         /\ Owners(l, t, s) = {} /\ FallsThrough(l, t, s) => Resolve(l, t, s) = Escape(l)
         /\ Owners(l, t, s) = {} /\ ~FallsThrough(l, t, s) => Resolve(l, t, s) = Unbound
BY DEF Resolve

\* A host at rest is never answered with an escape.
LEMMA EscapeNeedsWork ==
  ASSUME NEW l \in Ladder, NEW t, NEW s, ~s.work_running
  PROVE  Resolve(l, t, s).kind # "Escape"
<1>1. ~HatchFires(l, t, s) /\ ~FallsThrough(l, t, s)
  BY DEF HatchFires, FallsThrough
<1> QED BY <1>1, WithoutHatch DEF Claimed, Unbound

\* More claims, and all else equal: the answer stays or goes to a newcomer.
LEMMA MoreClaims ==
  ASSUME NEW l \in Ladder, NEW t, NEW s, NEW u,
         s.work_running <=> u.work_running, s.claiming \subseteq u.claiming
  PROVE  \/ Resolve(l, t, u) = Resolve(l, t, s)
         \/ /\ Resolve(l, t, u).kind = "Claimed"
            /\ Resolve(l, t, u).claimant \in u.claiming \ s.claiming
<1>1. CASE HatchFires(l, t, s)
  <2>1. HatchFires(l, t, u)
    BY <1>1 DEF HatchFires
  <2> QED BY <1>1, <2>1 DEF Resolve
<1>2. CASE ~HatchFires(l, t, s)
  <2>1. ~HatchFires(l, t, u)
    BY <1>2 DEF HatchFires
  <2>2. Owners(l, t, s) \subseteq Owners(l, t, u)
    BY DEF Owners, Owns
  <2>3. CASE Owners(l, t, u) = {}
    <3>1. Owners(l, t, s) = {} /\ (FallsThrough(l, t, s) <=> FallsThrough(l, t, u))
      BY <2>2, <2>3 DEF FallsThrough
    <3> QED BY <1>2, <2>1, <2>3, <3>1, WithoutHatch
  <2>4. CASE Owners(l, t, u) # {}
    <3> DEFINE m == Min(Owners(l, t, u))
    <3>1. m \in Owners(l, t, u) /\ \A x \in Owners(l, t, u) : m <= x
      BY <2>4, FirstOwner
    <3>2. Resolve(l, t, u) = Claimed(l.rungs[m])
      BY <2>1, <2>4, WithoutHatch
    <3>3. m \in DOMAIN l.rungs /\ Owns(l.rungs[m], t, u)
      BY <3>1 DEF Owners
    <3>4. CASE l.rungs[m].claimant \in s.claiming
      <4>1. m \in Owners(l, t, s)
        BY <3>3, <3>4 DEF Owners, Owns
      <4>2. /\ Min(Owners(l, t, s)) \in Owners(l, t, s)
            /\ Min(Owners(l, t, s)) <= m
        BY <4>1, FirstOwner
      <4>3. m <= Min(Owners(l, t, s)) /\ Owners(l, t, s) \subseteq Nat
        BY <2>2, <3>1, <4>2 DEF Owners, Ladder
      <4>4. Min(Owners(l, t, s)) = m
        BY <3>1, <4>1, <4>2, <4>3
      <4> QED BY <1>2, <3>2, <4>1, <4>4, WithoutHatch
    <3>5. CASE l.rungs[m].claimant \notin s.claiming
      BY <3>2, <3>3, <3>5 DEF Owns, Claimed
    <3> QED BY <3>4, <3>5
  <2> QED BY <2>3, <2>4
<1> QED BY <1>1, <1>2

\* The same claims at rest and at work.
LEMMA WorkBegins ==
  ASSUME NEW l \in Ladder, NEW t, NEW s, NEW u,
         ~s.work_running, u.work_running, s.claiming = u.claiming
  PROVE  /\ t \in l.hatch.reserved => Resolve(l, t, u) = Escape(l)
         /\ t \in l.fallthrough /\ Resolve(l, t, s) = Unbound
              => Resolve(l, t, u) = Escape(l)
         /\ t \notin l.hatch.reserved
              /\ ~(t \in l.fallthrough /\ Resolve(l, t, s) = Unbound)
              => Resolve(l, t, u) = Resolve(l, t, s)
<1>1. ~HatchFires(l, t, s) /\ ~FallsThrough(l, t, s)
  BY DEF HatchFires, FallsThrough
<1>2. Owners(l, t, s) = Owners(l, t, u)
  BY DEF Owners, Owns
<1>3. (HatchFires(l, t, u) <=> t \in l.hatch.reserved)
      /\ (FallsThrough(l, t, u) <=> t \in l.fallthrough)
  BY DEF HatchFires, FallsThrough
<1>4. CASE t \in l.hatch.reserved
  BY <1>3, <1>4 DEF Resolve
<1>5. CASE t \notin l.hatch.reserved
  <2>1. CASE Owners(l, t, s) = {}
    BY <1>1, <1>2, <1>3, <1>5, <2>1, WithoutHatch
  <2>2. CASE Owners(l, t, s) # {}
    <3>1. Resolve(l, t, s) # Unbound
      BY <1>1, <2>2, WithoutHatch DEF Claimed, Unbound
    <3> QED BY <1>1, <1>2, <1>3, <1>5, <2>2, <3>1, WithoutHatch
  <2> QED BY <2>1, <2>2
<1> QED BY <1>4, <1>5

-----------------------------------------------------------------------------
(* The invariants.                                                         *)

\* The label of an answer is a label of the table's.
LEMMA LabelsAreActions ==
  ASSUME NEW l \in Ladder, NEW t, NEW s
  PROVE  Describe(l, t, s) \subseteq Action
<1>1. CASE HatchFires(l, t, s)
  BY <1>1 DEF Describe, Resolve, VerdictAction, Escape, Ladder, Hatch
<1>2. CASE ~HatchFires(l, t, s) /\ Owners(l, t, s) # {}
  <2>1. PICK i \in DOMAIN l.rungs : i = Min(Owners(l, t, s))
    BY <1>2, FirstOwner DEF Owners
  <2>2. Resolve(l, t, s) = Claimed(l.rungs[i])
    BY <1>2, <2>1, WithoutHatch
  <2>3. l.rungs[i].action \in Action
    <3>1. l.rungs \in Seq(Rung)
      BY DEF Ladder
    <3>2. l.rungs[i] \in Rung
      BY <3>1
    <3> QED BY <3>2 DEF Rung
  <2> QED BY <2>2, <2>3 DEF Describe, VerdictAction, Claimed
<1>3. CASE ~HatchFires(l, t, s) /\ Owners(l, t, s) = {}
  BY <1>3, WithoutHatch DEF Describe, VerdictAction, Escape, Unbound, Ladder, Hatch
<1> QED BY <1>1, <1>2, <1>3

\* The host's count is the number of units that run: what EscapeExactlyWhile-
\* Working rests on, and with it the count never leaves the naturals.
CountInv == IsFiniteSet(units) /\ depth = Cardinality(units)

\* The count and the running units agree after any steps of the host.
THEOREM CountCorrect == Spec => []CountInv
<1>1. Init => CountInv
  BY FS_EmptySet DEF Init, CountInv
<1>2. ASSUME CountInv, [Next]_vars
      PROVE  CountInv'
  <2> USE <1>2 DEF CountInv
  <2>1. ASSUME NEW u \in Unit, Begin(u)
        PROVE  CountInv'
    BY <2>1, FS_AddElement DEF Begin
  <2>2. ASSUME NEW u \in Unit, End(u)
        PROVE  CountInv'
    BY <2>2, FS_RemoveElement DEF End
  <2>3. CASE UNCHANGED <<units, depth>>
    BY <2>3
  <2>4. (\E c \in Claimant : Claiming(c)) \/ (\E names \in ClaimSet : Collect(names))
          \/ (\E t \in Trigger : DrawHint(t)) \/ UNCHANGED vars
          => UNCHANGED <<units, depth>>
    BY DEF Claiming, Collect, DrawHint, vars
  <2> QED BY <2>1, <2>2, <2>3, <2>4 DEF Next
<1> QED BY <1>1, <1>2, PTL DEF Spec

\* A count is positive exactly when there is something to count.
LEMMA CountSays ==
  ASSUME CountInv
  PROVE  depth \in Nat /\ (depth > 0 <=> units # {})
BY FS_CardinalityType, FS_EmptySet DEF CountInv

\* The variables stay in their types.
THEOREM TypeCorrect == Spec => []TypeOK
<1>1. Init => TypeOK
  <2> SUFFICES ASSUME Init
               PROVE  TypeOK
    OBVIOUS
  <2>1. hint.kind = "NoHint"
    BY DEF Init, NoHint
  <2>2. ladder \in Ladder /\ claims \in ClaimSet
    BY TablesAssumption DEF Init, ClaimSet
  <2>3. units \subseteq Unit /\ depth \in Nat /\ current \in BOOLEAN
    BY DEF Init
  <2> QED BY <2>1, <2>2, <2>3 DEF TypeOK
<1>2. ASSUME TypeOK, CountInv, CountInv', [Next]_vars
      PROVE  TypeOK'
  <2> USE <1>2 DEF TypeOK
  <2>1. depth' \in Nat
    BY FS_CardinalityType DEF CountInv
  <2>2. ASSUME NEW c \in Claimant, Claiming(c)
        PROVE  TypeOK'
    BY <2>2 DEF Claiming, ClaimSet
  <2>3. ASSUME NEW names \in ClaimSet, Collect(names)
        PROVE  TypeOK'
    BY <2>3 DEF Collect
  <2>4. ASSUME NEW u \in Unit, Begin(u)
        PROVE  TypeOK'
    BY <2>1, <2>4 DEF Begin
  <2>5. ASSUME NEW u \in Unit, End(u)
        PROVE  TypeOK'
    BY <2>1, <2>5 DEF End
  <2>6. ASSUME NEW t \in Trigger, DrawHint(t)
        PROVE  TypeOK'
    <3>1. Describe(ladder, t, Now) \subseteq Action
      BY LabelsAreActions
    <3> QED BY <2>6, <3>1 DEF DrawHint, Hint
  <2>7. CASE UNCHANGED vars
    BY <2>7 DEF vars
  <2> QED BY <1>2, <2>2, <2>3, <2>4, <2>5, <2>6, <2>7 DEF Next
<1> QED BY <1>1, <1>2, CountCorrect, PTL DEF Spec

\* For every host: the escape is there exactly while a unit of work runs.
THEOREM EscapeHolds == Spec => []EscapeExactlyWhileWorking
<1>1. ASSUME TypeOK, CountInv
      PROVE  EscapeExactlyWhileWorking
  <2>1. Now.work_running <=> units # {}
    BY <1>1, CountSays DEF Now
  <2>2. ASSUME units # {}, NEW t \in ladder.hatch.reserved
        PROVE  Answer(t) = Escape(ladder)
    BY <2>1, <2>2 DEF Answer, Resolve, HatchFires
  <2>3. ASSUME units = {}, NEW t \in Trigger
        PROVE  Answer(t).kind # "Escape"
    BY <1>1, <2>1, <2>3, EscapeNeedsWork DEF Answer, TypeOK
  <2> QED BY <2>2, <2>3 DEF EscapeExactlyWhileWorking
<1> QED BY <1>1, TypeCorrect, CountCorrect, PTL

\* A hint of the hatch's own stays true, for every host: the inductive part is
\* that a hint drawn while work runs, for a reserved trigger, is the hatch's.
HintInv ==
  current /\ units # {} /\ hint.kind = "Hint" /\ hint.trigger \in ladder.hatch.reserved
    => hint.label = {ladder.hatch.action}

\* A hint of the hatch's own keeps its label as long as work runs.
THEOREM HintCorrect == Spec => []HintInv
<1>1. Init => HintInv
  BY DEF Init, HintInv
<1>2. ASSUME TypeOK, CountInv, CountInv', HintInv, [Next]_vars
      PROVE  HintInv'
  <2> USE <1>2 DEF HintInv
  <2>1. depth \in Nat /\ (depth > 0 <=> units # {})
    BY CountSays
  <2>2. ASSUME NEW c \in Claimant, Claiming(c)
        PROVE  HintInv'
    BY <2>2 DEF Claiming
  <2>3. ASSUME NEW names \in ClaimSet, Collect(names)
        PROVE  HintInv'
    BY <2>3 DEF Collect
  <2>4. ASSUME NEW u \in Unit, Begin(u)
        PROVE  HintInv'
    BY <2>1, <2>4 DEF Begin
  <2>5. ASSUME NEW u \in Unit, End(u)
        PROVE  HintInv'
    BY <2>1, <2>5 DEF End
  <2>6. ASSUME NEW t \in Trigger, DrawHint(t)
        PROVE  HintInv'
    <3>1. Now.work_running <=> units # {}
      BY <2>1 DEF Now
    <3>2. units # {} /\ t \in ladder.hatch.reserved
            => Describe(ladder, t, Now) = {ladder.hatch.action}
      BY <3>1 DEF Describe, Resolve, HatchFires, VerdictAction, Escape
    <3> QED BY <2>6, <3>2 DEF DrawHint, Hint
  <2>7. CASE UNCHANGED vars
    BY <2>7 DEF vars
  <2> QED BY <1>2, <2>2, <2>3, <2>4, <2>5, <2>6, <2>7 DEF Next
<1> QED BY <1>1, <1>2, TypeCorrect, CountCorrect, PTL DEF Spec

\* The hint on the screen for a reserved trigger is what pressing it would do.
THEOREM HintHolds == Spec => []ReservedHintKept
<1>1. ASSUME EscapeExactlyWhileWorking, HintInv
      PROVE  ReservedHintKept
  BY <1>1 DEF EscapeExactlyWhileWorking, HintInv, ReservedHintKept, VerdictAction, Escape
<1> QED BY <1>1, EscapeHolds, HintCorrect, PTL

-----------------------------------------------------------------------------
(* The action properties.                                                  *)

\* A claim that joins wins the trigger or leaves its answer alone.
THEOREM ClaimingHolds == Spec => ClaimingOnlyWins
<1> DEFINE Step == claims \subseteq claims' /\ (depth > 0) = (depth' > 0) =>
       \A t \in Trigger :
         \/ Answer(t)' = Answer(t)
         \/ Answer(t)'.kind = "Claimed" /\ Answer(t)'.claimant \in claims' \ claims
<1>1. ASSUME TypeOK, [Next]_vars, claims \subseteq claims', (depth > 0) = (depth' > 0),
             NEW t \in Trigger
      PROVE  \/ Answer(t)' = Answer(t)
             \/ Answer(t)'.kind = "Claimed" /\ Answer(t)'.claimant \in claims' \ claims
  <2>1. ladder \in Ladder /\ ladder' = ladder
    BY <1>1 DEF TypeOK, Next, Claiming, Collect, Begin, End, DrawHint, vars
  <2>2. /\ Now.work_running <=> Now'.work_running
        /\ Now.claiming = claims /\ Now'.claiming = claims'
    BY <1>1 DEF Now
  <2> QED BY <1>1, <2>1, <2>2, MoreClaims DEF Answer
<1>2. TypeOK /\ [Next]_vars => [Step]_vars
  BY <1>1
<1> QED BY <1>2, TypeCorrect, PTL DEF Spec, ClaimingOnlyWins

\* Work that begins adds escapes, where the table says so, and nothing else.
THEOREM WorkHolds == Spec => WorkOnlyAddsEscapes
<1> DEFINE Step == depth = 0 /\ depth' > 0 =>
       \A t \in Trigger :
         IF t \in ladder.hatch.reserved
              \/ (t \in ladder.fallthrough /\ Answer(t) = Unbound)
         THEN Answer(t)' = Escape(ladder)
         ELSE Answer(t)' = Answer(t)
<1>1. ASSUME TypeOK, [Next]_vars, depth = 0, depth' > 0, NEW t \in Trigger
      PROVE  IF t \in ladder.hatch.reserved
                  \/ (t \in ladder.fallthrough /\ Answer(t) = Unbound)
             THEN Answer(t)' = Escape(ladder)
             ELSE Answer(t)' = Answer(t)
  <2>1. ladder \in Ladder /\ ladder' = ladder
    BY <1>1 DEF TypeOK, Next, Claiming, Collect, Begin, End, DrawHint, vars
  <2>2. claims' = claims
    BY <1>1 DEF Next, Claiming, Collect, Begin, End, DrawHint, vars
  <2>3. ~Now.work_running /\ Now'.work_running /\ Now.claiming = Now'.claiming
    <3>1. /\ Now.work_running <=> depth > 0
          /\ Now'.work_running <=> depth' > 0
          /\ Now.claiming = claims /\ Now'.claiming = claims'
      BY DEF Now
    <3>2. ~(depth > 0) /\ depth' > 0
      BY <1>1
    <3> QED BY <2>2, <3>1, <3>2
  <2> QED BY <2>1, <2>3, WorkBegins DEF Answer
<1>2. TypeOK /\ [Next]_vars => [Step]_vars
  BY <1>1
<1> QED BY <1>2, TypeCorrect, PTL DEF Spec, WorkOnlyAddsEscapes
=============================================================================
