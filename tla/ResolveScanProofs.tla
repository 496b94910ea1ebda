-------------------------- MODULE ResolveScanProofs --------------------------
(***************************************************************************)
(* Ladder::resolve is right for every table, trigger and situation: the    *)
(* loop invariant is inductive, it yields the escape-hatch invariant and   *)
(* first match, and every step of the loop implements the contract.        *)
(***************************************************************************)
EXTENDS ResolveScan, TLAPS, SequenceTheorems, WellFoundedInduction

-----------------------------------------------------------------------------
(* What decides an answer.                                                 *)

\* The minimum is the element no other element is below.
LEMMA MinIs ==
  ASSUME NEW S, S \subseteq Nat, NEW m \in S, \A x \in S : m <= x
  PROVE  Min(S) = m
<1>1. \A x \in S : (\A y \in S : x <= y) => x = m
  OBVIOUS
<1> QED BY <1>1 DEF Min

\* Positions are well-ordered: a set of them that is not empty has a minimum.
LEMMA MinExists ==
  ASSUME NEW S, S \subseteq Nat, S # {}
  PROVE  Min(S) \in S /\ \A x \in S : Min(S) <= x
<1>1. PICK m \in S : \A x \in S : ~(<<x, m>> \in OpToRel(<, Nat))
  BY NatLessThanWellFounded, WFMin
<1>2. ASSUME NEW x \in S, x < m
      PROVE  <<x, m>> \in OpToRel(<, Nat)
  <2>1. <<x, m>> \in Nat \X Nat /\ <<x, m>>[1] < <<x, m>>[2]
    BY <1>2
  <2> QED BY <2>1, Zenon DEF OpToRel
<1>3. \A x \in S : ~(x < m)
  BY <1>1, <1>2, Zenon
<1>4. \A x \in S : m <= x
  BY <1>3
<1> QED BY <1>4, MinIs

\* A table has a sequence of rungs, and each rung has the fields of one.
LEMMA LadderShape ==
  ASSUME NEW l \in Ladder
  PROVE  /\ l.rungs \in Seq(Rung)
         /\ Len(l.rungs) \in Nat
         /\ DOMAIN l.rungs = 1 .. Len(l.rungs)
         /\ \A i \in 1 .. Len(l.rungs) : l.rungs[i] \in Rung
         /\ l.hatch.action \in Action
BY DEF Ladder, Hatch

\* The owners of a trigger are positions of the table.
LEMMA OwnersInNat ==
  ASSUME NEW l \in Ladder, NEW t, NEW s
  PROVE  Owners(l, t, s) \subseteq Nat
BY LadderShape DEF Owners

\* A position that owns the trigger below none that does decides the answer.
LEMMA FirstOwnerResolves ==
  ASSUME NEW l \in Ladder, NEW t, NEW s, NEW i \in 1 .. Len(l.rungs),
         ~HatchFires(l, t, s), Owns(l.rungs[i], t, s),
         \A j \in 1 .. i - 1 : ~Owns(l.rungs[j], t, s)
  PROVE  Resolve(l, t, s) = Claimed(l.rungs[i])
<1> DEFINE S == Owners(l, t, s)
<1>1. S \subseteq Nat /\ i \in S
  BY OwnersInNat, LadderShape DEF Owners
<1>2. \A x \in S : i <= x
  BY LadderShape DEF Owners
<1>3. Min(S) = i
  BY <1>1, <1>2, MinIs
<1> QED BY <1>1, <1>3 DEF Resolve

\* With no live owner the answer is fallthrough's, or nothing.
LEMMA NoOwnerResolves ==
  ASSUME NEW l \in Ladder, NEW t, NEW s,
         ~HatchFires(l, t, s),
         \A j \in 1 .. Len(l.rungs) : ~Owns(l.rungs[j], t, s)
  PROVE  Resolve(l, t, s) = IF FallsThrough(l, t, s) THEN Escape(l) ELSE Unbound
<1>1. Owners(l, t, s) = {}
  BY LadderShape DEF Owners
<1> QED BY <1>1 DEF Resolve

\* The first owner is an owner, and nothing above it is.
LEMMA FirstOwner ==
  ASSUME NEW l \in Ladder, NEW t, NEW s, Owners(l, t, s) # {}
  PROVE  \E i \in 1 .. Len(l.rungs) :
           /\ i = Min(Owners(l, t, s))
           /\ Owns(l.rungs[i], t, s)
           /\ \A j \in 1 .. i - 1 : ~Owns(l.rungs[j], t, s)
<1> DEFINE i == Min(Owners(l, t, s))
<1>1. i \in Owners(l, t, s) /\ \A x \in Owners(l, t, s) : i <= x
  BY OwnersInNat, MinExists
<1>2. i \in 1 .. Len(l.rungs) /\ Owns(l.rungs[i], t, s)
  BY <1>1, LadderShape DEF Owners
<1>3. ASSUME NEW j \in 1 .. i - 1, Owns(l.rungs[j], t, s)
      PROVE  FALSE
  <2>1. Len(l.rungs) \in Nat /\ DOMAIN l.rungs = 1 .. Len(l.rungs)
    BY LadderShape
  <2>2. j \in Owners(l, t, s)
    BY <1>2, <1>3, <2>1 DEF Owners
  <2> QED BY <1>1, <1>2, <1>3, <2>1, <2>2
<1> QED BY <1>2, <1>3

\* Cutting a table below a position keeps it a table, and keeps what is above.
LEMMA CutTable ==
  ASSUME NEW l \in Ladder, NEW i \in 1 .. Len(l.rungs)
  PROVE  LET c == WithRungs(l, SubSeq(l.rungs, 1, i))
         IN  /\ c \in Ladder
             /\ c.hatch = l.hatch
             /\ Len(c.rungs) = i
             /\ \A j \in 1 .. i : c.rungs[j] = l.rungs[j]
<1> DEFINE q == SubSeq(l.rungs, 1, i)
           c == WithRungs(l, q)
<1>1. q \in Seq(Rung) /\ Len(q) = i /\ \A j \in 1 .. i : q[j] = l.rungs[j]
  BY LadderShape, SubSeqProperties
<1>2. c = [hatch |-> l.hatch, rungs |-> q, fallthrough |-> l.fallthrough]
      /\ l.hatch \in Hatch /\ l.fallthrough \in SUBSET Trigger
  BY DEF Ladder, WithRungs, NewLadder
<1>3. c \in Ladder /\ c.hatch = l.hatch /\ c.rungs = q
  BY <1>1, <1>2 DEF Ladder
<1> QED BY <1>1, <1>3

-----------------------------------------------------------------------------
(* Edits of a table that leave an answer alone.                            *)

\* Inserting a rung shifts the rungs from its position on by one place.
LEMMA InsertedTable ==
  ASSUME NEW l \in Ladder, NEW k \in 1 .. Len(l.rungs) + 1, NEW r \in Rung
  PROVE  LET m == Inserted(l, k, r)
         IN  /\ m \in Ladder
             /\ m.hatch = l.hatch /\ m.fallthrough = l.fallthrough
             /\ Len(m.rungs) = Len(l.rungs) + 1
             /\ \A j \in 1 .. k - 1 : m.rungs[j] = l.rungs[j]
             /\ m.rungs[k] = r
             /\ \A j \in k + 1 .. Len(l.rungs) + 1 : m.rungs[j] = l.rungs[j - 1]
<1> DEFINE p == SubSeq(l.rungs, 1, k - 1)
           q == SubSeq(l.rungs, k, Len(l.rungs))
           m == Inserted(l, k, r)
<1>0. Len(l.rungs) \in Nat /\ \A i \in 1 .. Len(l.rungs) : l.rungs[i] \in Rung
  BY LadderShape
<1>1. /\ p \in Seq(Rung) /\ Len(p) = k - 1
      /\ \A j \in 1 .. k - 1 : p[j] = l.rungs[j]
  BY <1>0, SubSeqProperties
<1>2. /\ q \in Seq(Rung) /\ Len(q) = Len(l.rungs) - k + 1
      /\ \A j \in 1 .. Len(l.rungs) - k + 1 : q[j] = l.rungs[k + j - 1]
  BY <1>0, SubSeqProperties
<1> HIDE DEF p, q
<1> DEFINE pr == p \o <<r>>
<1>3. /\ pr \in Seq(Rung) /\ Len(pr) = k
      /\ \A j \in 1 .. k - 1 : pr[j] = p[j]
      /\ pr[k] = r
  <2>1. <<r>> \in Seq(Rung) /\ Len(<<r>>) = 1 /\ <<r>>[1] = r
    OBVIOUS
  <2> QED BY <1>0, <1>1, <2>1, ConcatProperties
<1> HIDE DEF pr
<1>4. /\ pr \o q \in Seq(Rung) /\ Len(pr \o q) = Len(l.rungs) + 1
      /\ \A j \in 1 .. k : (pr \o q)[j] = pr[j]
      /\ \A j \in k + 1 .. Len(l.rungs) + 1 : (pr \o q)[j] = q[j - k]
  BY <1>0, <1>2, <1>3, ConcatProperties
<1>5. m = [hatch |-> l.hatch, rungs |-> pr \o q, fallthrough |-> l.fallthrough]
      /\ l.hatch \in Hatch /\ l.fallthrough \in SUBSET Trigger
  BY DEF Ladder, Inserted, WithRungs, NewLadder, p, q, pr
<1>6. /\ m \in Ladder /\ m.hatch = l.hatch /\ m.fallthrough = l.fallthrough
      /\ m.rungs = pr \o q
  BY <1>4, <1>5 DEF Ladder
<1> HIDE DEF m
<1>7. \A j \in k + 1 .. Len(l.rungs) + 1 : m.rungs[j] = l.rungs[j - 1]
  <2> TAKE j \in k + 1 .. Len(l.rungs) + 1
  <2>1. j - k \in 1 .. Len(l.rungs) - k + 1 /\ k + (j - k) - 1 = j - 1
    BY <1>0
  <2> QED BY <1>2, <1>4, <1>6, <2>1
<1> QED BY <1>0, <1>1, <1>3, <1>4, <1>6, <1>7 DEF m

\* A rung that declines leaves every answer alone, wherever it is put.
LEMMA DecliningChangesNothing ==
  ASSUME NEW l \in Ladder, NEW k \in 1 .. Len(l.rungs) + 1, NEW r \in Rung,
         NEW t, NEW s, ~Owns(r, t, s)
  PROVE  Resolve(Inserted(l, k, r), t, s) = Resolve(l, t, s)
<1> DEFINE m == Inserted(l, k, r)
<1>1. /\ m \in Ladder
      /\ m.hatch = l.hatch /\ m.fallthrough = l.fallthrough
      /\ Len(m.rungs) = Len(l.rungs) + 1
      /\ \A j \in 1 .. k - 1 : m.rungs[j] = l.rungs[j]
      /\ m.rungs[k] = r
      /\ \A j \in k + 1 .. Len(l.rungs) + 1 : m.rungs[j] = l.rungs[j - 1]
  BY InsertedTable
<1>2. Len(l.rungs) \in Nat /\ DOMAIN l.rungs = 1 .. Len(l.rungs)
  BY LadderShape
<1> HIDE DEF m
<1>3. /\ HatchFires(m, t, s) = HatchFires(l, t, s)
      /\ FallsThrough(m, t, s) = FallsThrough(l, t, s)
      /\ Escape(m) = Escape(l)
  BY <1>1 DEF HatchFires, FallsThrough, Escape
<1>4. CASE HatchFires(l, t, s)
  BY <1>3, <1>4 DEF Resolve, m
<1>5. CASE ~HatchFires(l, t, s) /\ Owners(l, t, s) = {}
  <2>1. \A j \in 1 .. Len(l.rungs) : ~Owns(l.rungs[j], t, s)
    BY <1>2, <1>5 DEF Owners
  <2>2. \A j \in 1 .. Len(m.rungs) : ~Owns(m.rungs[j], t, s)
    <3> TAKE j \in 1 .. Len(m.rungs)
    <3>1. CASE j < k
      BY <1>1, <1>2, <2>1, <3>1
    <3>2. CASE j = k
      BY <1>1, <3>2
    <3>3. CASE j > k
      <4>1. j \in k + 1 .. Len(l.rungs) + 1 /\ j - 1 \in 1 .. Len(l.rungs)
        BY <1>1, <1>2, <3>3
      <4> QED BY <1>1, <2>1, <4>1
    <3> QED BY <1>1, <1>2, <3>1, <3>2, <3>3
  <2> QED BY <1>1, <1>3, <1>5, <2>1, <2>2, NoOwnerResolves DEF m
<1>6. CASE ~HatchFires(l, t, s) /\ Owners(l, t, s) # {}
  <2>1. PICK i \in 1 .. Len(l.rungs) :
               /\ Owns(l.rungs[i], t, s)
               /\ \A j \in 1 .. i - 1 : ~Owns(l.rungs[j], t, s)
    BY <1>6, FirstOwner
  <2>2. Resolve(l, t, s) = Claimed(l.rungs[i])
    BY <1>6, <2>1, FirstOwnerResolves
  <2> DEFINE i2 == IF i < k THEN i ELSE i + 1
  <2>3. i2 \in 1 .. Len(m.rungs) /\ m.rungs[i2] = l.rungs[i]
    BY <1>1, <1>2, <2>1
  <2>4. \A j \in 1 .. i2 - 1 : ~Owns(m.rungs[j], t, s)
    <3> TAKE j \in 1 .. i2 - 1
    <3>1. CASE j < k
      <4>1. j \in 1 .. k - 1 /\ j \in 1 .. i - 1
        BY <1>2, <2>1, <3>1
      <4> QED BY <1>1, <2>1, <4>1
    <3>2. CASE j = k
      BY <1>1, <3>2
    <3>3. CASE j > k
      <4>1. j \in k + 1 .. Len(l.rungs) + 1 /\ j - 1 \in 1 .. i - 1
        BY <1>2, <2>1, <3>3
      <4> QED BY <1>1, <2>1, <4>1
    <3> QED BY <1>2, <2>1, <3>1, <3>2, <3>3
  <2> HIDE DEF i2
  <2>5. Resolve(m, t, s) = Claimed(m.rungs[i2])
    BY <1>1, <1>3, <1>6, <2>1, <2>3, <2>4, FirstOwnerResolves
  <2> QED BY <2>2, <2>3, <2>5 DEF m
<1> QED BY <1>4, <1>5, <1>6

-----------------------------------------------------------------------------
(* The invariants.                                                         *)

\* The variables stay in their types.
THEOREM TypeCorrect == Spec => []TypeOK
<1>1. Init => TypeOK
  BY TablesAssumption, LadderShape DEF Init, TypeOK, Pending
<1>2. ASSUME TypeOK, [Next]_vars
      PROVE  TypeOK'
  <2> TypeOK
    BY <1>2
  <2> USE DEF TypeOK
  <2>1. /\ ladder.rungs \in Seq(Rung)
        /\ Len(ladder.rungs) \in Nat
        /\ DOMAIN ladder.rungs = 1 .. Len(ladder.rungs)
        /\ \A i \in 1 .. Len(ladder.rungs) : ladder.rungs[i] \in Rung
        /\ ladder.hatch.action \in Action
    BY LadderShape
  <2>2. Escape(ladder) \in Verdict /\ Unbound \in Verdict
    BY <2>1 DEF Escape, Unbound, Verdict
  <2>3. CASE EscapeByHatch
    BY <2>2, <2>3 DEF EscapeByHatch, Return, inputs
  <2>4. CASE EnterLoop
    BY <2>4 DEF EnterLoop, inputs
  <2>5. CASE RungClaims
    <3>1. Claimed(ladder.rungs[next]) \in Verdict
      BY <2>1, <2>5 DEF RungClaims, Claimed, Verdict, Rung
    <3> QED BY <2>5, <3>1 DEF RungClaims, Return, inputs
  <2>6. CASE RungDeclines
    BY <2>1, <2>6 DEF RungDeclines, inputs
  <2>7. CASE EscapeByFallthrough
    BY <2>2, <2>7 DEF EscapeByFallthrough, Return, inputs
  <2>8. CASE NothingBound
    BY <2>2, <2>8 DEF NothingBound, Return, inputs
  <2>9. CASE UNCHANGED vars
    BY <2>9 DEF vars
  <2> QED BY <1>2, <2>3, <2>4, <2>5, <2>6, <2>7, <2>8, <2>9 DEF Next
<1> QED BY <1>1, <1>2, PTL DEF Spec

\* The loop invariant: past the hatch test nothing owned the trigger so far,
\* and what has been returned is what the contract promises.
THEOREM ScanCorrect == Spec => []ScanInv
<1>1. Init => ScanInv
  BY DEF Init, ScanInv
<1>2. ASSUME TypeOK, ScanInv, [Next]_vars
      PROVE  ScanInv'
  <2>1. /\ ladder \in Ladder /\ Len(ladder.rungs) \in Nat
        /\ DOMAIN ladder.rungs = 1 .. Len(ladder.rungs)
        /\ next \in 1 .. Len(ladder.rungs) + 1
    BY <1>2, LadderShape DEF TypeOK
  <2> USE <1>2 DEF ScanInv
  <2>2. CASE EscapeByHatch
    BY <2>2 DEF EscapeByHatch, Return, inputs, Resolve
  <2>3. CASE EnterLoop
    BY <2>3 DEF EnterLoop, inputs
  <2>4. CASE RungClaims
    <3>1. Resolve(ladder, trigger, situation) = Claimed(ladder.rungs[next])
      BY <2>1, <2>4, FirstOwnerResolves DEF RungClaims
    <3> QED BY <2>4, <3>1 DEF RungClaims, Return, inputs
  <2>5. CASE RungDeclines
    <3>1. \A i \in 1 .. next' - 1 : ~Owns(ladder.rungs[i], trigger, situation)
      BY <2>1, <2>5 DEF RungDeclines
    <3> QED BY <2>5, <3>1 DEF RungDeclines, inputs
  <2>6. CASE EscapeByFallthrough
    <3>1. Resolve(ladder, trigger, situation) = Escape(ladder)
      BY <2>1, <2>6, NoOwnerResolves DEF EscapeByFallthrough, LoopEnded
    <3> QED BY <2>6, <3>1 DEF EscapeByFallthrough, LoopEnded, Return, inputs
  <2>7. CASE NothingBound
    <3>1. Resolve(ladder, trigger, situation) = Unbound
      BY <2>1, <2>7, NoOwnerResolves DEF NothingBound, LoopEnded
    <3> QED BY <2>7, <3>1 DEF NothingBound, LoopEnded, Return, inputs
  <2>8. CASE UNCHANGED vars
    BY <2>8 DEF vars
  <2> QED BY <2>2, <2>3, <2>4, <2>5, <2>6, <2>7, <2>8 DEF Next
<1> QED BY <1>1, <1>2, TypeCorrect, PTL DEF Spec

\* The escape-hatch invariant, for every table and situation.
THEOREM EscapeHatchHolds == Spec => []EscapeHatch
<1>1. ScanInv => EscapeHatch
  BY DEF ScanInv, EscapeHatch, Returned, HatchFires, Resolve
<1> QED BY <1>1, ScanCorrect, PTL

-----------------------------------------------------------------------------
(* Implementation of the contract.                                         *)

\* The contract's decision is the one the loop's invariant speaks of.
LEMMA SameDecision ==
  /\ Contract!Pending = Pending
  /\ Contract!Situation = Situation
  /\ \A l, t, s : Contract!Resolve(l, t, s) = Resolve(l, t, s)
<1>1. Contract!Pending = Pending /\ Contract!Situation = Situation
  BY DEF Pending, Contract!Pending, Situation, Contract!Situation,
         ClaimSet, Contract!ClaimSet
<1>2. ASSUME NEW l, NEW t, NEW s
      PROVE  Contract!Resolve(l, t, s) = Resolve(l, t, s)
  <2>1. Contract!Owners(l, t, s) = Owners(l, t, s)
    BY DEF Owners, Contract!Owners, Owns, Contract!Owns
  <2> QED BY <2>1 DEF Resolve, Contract!Resolve, HatchFires, Contract!HatchFires,
                      FallsThrough, Contract!FallsThrough, Claimed, Contract!Claimed,
                      Escape, Contract!Escape, Unbound, Contract!Unbound,
                      Min, Contract!Min
<1> QED BY <1>1, <1>2

\* Seen from the caller the loop takes one step, and it is the promised one.
THEOREM ContractImplemented == Spec => ImplementsContract
<1> USE SameDecision DEF Contract!vars
<1>1. Init => Contract!Init
  BY DEF Init, Contract!Init
<1>2. ASSUME ScanInv, ScanInv', [Next]_vars
      PROVE  [Contract!Next]_(Contract!vars)
  <2> USE DEF Contract!Next, Contract!Answer
  <2>1. ASSUME verdict = Pending, Resolve(ladder, trigger, situation) = verdict',
               UNCHANGED inputs
        PROVE  Contract!Answer
    BY <2>1 DEF inputs
  <2>2. CASE pc' = "returned" /\ pc # "returned" /\ UNCHANGED inputs
    <3>1. verdict = Pending
      BY <1>2, <2>2 DEF ScanInv
    <3>2. verdict' = Resolve(ladder, trigger, situation)
      BY <1>2, <2>2 DEF ScanInv, inputs
    <3> QED BY <2>1, <2>2, <3>1, <3>2
  <2>3. CASE EnterLoop \/ RungDeclines \/ UNCHANGED vars
    BY <2>3 DEF EnterLoop, RungDeclines, vars, inputs
  <2>4. CASE EscapeByHatch \/ RungClaims \/ EscapeByFallthrough \/ NothingBound
    BY <2>2, <2>4 DEF EscapeByHatch, RungClaims, EscapeByFallthrough,
                      NothingBound, LoopEnded, Return
  <2> QED BY <1>2, <2>3, <2>4 DEF Next
<1> QED BY <1>1, <1>2, ScanCorrect, PTL
      DEF Spec, ImplementsContract, Contract!Spec

-----------------------------------------------------------------------------
(* First match, and what editing the table can change.                     *)

\* First match wins, and the rungs below the winner have no say.
THEOREM FirstMatchHolds == Spec => []FirstMatch
<1>1. ASSUME TypeOK, ScanInv, Returned, verdict.kind = "Claimed"
      PROVE  \E i \in DOMAIN ladder.rungs :
               /\ verdict = Claimed(ladder.rungs[i])
               /\ Owns(ladder.rungs[i], trigger, situation)
               /\ \A j \in 1 .. i - 1 : ~Owns(ladder.rungs[j], trigger, situation)
               /\ verdict = Resolve(WithRungs(ladder, SubSeq(ladder.rungs, 1, i)),
                                    trigger, situation)
  <2>1. ladder \in Ladder /\ verdict = Resolve(ladder, trigger, situation)
    BY <1>1 DEF TypeOK, ScanInv, Returned
  <2>2. /\ ~HatchFires(ladder, trigger, situation)
        /\ Owners(ladder, trigger, situation) # {}
    BY <1>1, <2>1 DEF Resolve, Escape, Unbound
  <2>3. PICK i \in 1 .. Len(ladder.rungs) :
               /\ i = Min(Owners(ladder, trigger, situation))
               /\ Owns(ladder.rungs[i], trigger, situation)
               /\ \A j \in 1 .. i - 1 : ~Owns(ladder.rungs[j], trigger, situation)
    BY <2>1, <2>2, FirstOwner
  <2>4. verdict = Claimed(ladder.rungs[i])
    BY <2>1, <2>2, <2>3, FirstOwnerResolves
  <2> DEFINE c == WithRungs(ladder, SubSeq(ladder.rungs, 1, i))
  <2>5. /\ c \in Ladder /\ c.hatch = ladder.hatch /\ Len(c.rungs) = i
        /\ \A j \in 1 .. i : c.rungs[j] = ladder.rungs[j]
    BY <2>1, CutTable
  <2> HIDE DEF c
  <2>6. Resolve(c, trigger, situation) = Claimed(c.rungs[i])
    <3>1. ~HatchFires(c, trigger, situation)
      BY <2>2, <2>5 DEF HatchFires
    <3>2. i \in 1 .. Len(c.rungs) /\ Owns(c.rungs[i], trigger, situation)
      BY <2>3, <2>5
    <3>3. \A j \in 1 .. i - 1 : ~Owns(c.rungs[j], trigger, situation)
      BY <2>3, <2>5
    <3> QED BY <2>5, <3>1, <3>2, <3>3, FirstOwnerResolves
  <2>7. verdict = Resolve(c, trigger, situation)
    BY <2>3, <2>4, <2>5, <2>6
  <2>8. i \in DOMAIN ladder.rungs
    BY <2>1, LadderShape
  <2> QED BY <2>3, <2>4, <2>7, <2>8 DEF c
<1>2. TypeOK /\ ScanInv => FirstMatch
  BY <1>1 DEF FirstMatch
<1> QED BY <1>2, TypeCorrect, ScanCorrect, PTL

\* Declining is transparent, for every table, place and rung.
THEOREM TransparencyHolds == Spec => []DecliningRungIsTransparent
<1>1. TypeOK /\ ScanInv => DecliningRungIsTransparent
  BY DecliningChangesNothing
  DEF TypeOK, ScanInv, Returned, DecliningRungIsTransparent
<1> QED BY <1>1, TypeCorrect, ScanCorrect, PTL
=============================================================================
