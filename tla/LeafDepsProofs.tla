---------------------------- MODULE LeafDepsProofs ----------------------------
(***************************************************************************)
(* The leaf guard is exact for every dependency graph: the stack walk      *)
(* implements the contract, and what it has seen when its stack is empty   *)
(* is the closure of the core, no more and no less.                        *)
(***************************************************************************)
EXTENDS LeafDeps, SequenceTheorems, TLAPS

USE MetadatasAssumption

-----------------------------------------------------------------------------
(* Lemmas.                                                                 *)

\* The elements of two sequences put together.
LEMMA RangeOfConcat ==
  ASSUME NEW S, NEW s \in Seq(S), NEW t \in Seq(S)
  PROVE  s \o t \in Seq(S) /\ Range(s \o t) = Range(s) \cup Range(t)
<1>1. s \o t \in Seq(S) /\ Len(s \o t) = Len(s) + Len(t)
  OBVIOUS
<1>2. \A i \in DOMAIN s : i \in DOMAIN (s \o t) /\ (s \o t)[i] = s[i]
  OBVIOUS
<1>3. \A i \in DOMAIN t : Len(s) + i \in DOMAIN (s \o t) /\ (s \o t)[Len(s) + i] = t[i]
  OBVIOUS
<1>4. \A i \in DOMAIN (s \o t) :
        i \in DOMAIN s \/ (i - Len(s) \in DOMAIN t /\ (s \o t)[i] = t[i - Len(s)])
  OBVIOUS
<1>5. ASSUME NEW x \in Range(s \o t)
      PROVE  x \in Range(s) \cup Range(t)
  <2>1. PICK i \in DOMAIN (s \o t) : x = (s \o t)[i]
    BY <1>5 DEF Range
  <2>2. CASE i \in DOMAIN s
    BY <1>2, <2>1, <2>2 DEF Range
  <2>3. CASE i \notin DOMAIN s
    BY <1>4, <2>1, <2>3 DEF Range
  <2> QED BY <2>2, <2>3
<1>6. Range(s) \subseteq Range(s \o t)
  BY <1>2 DEF Range
<1>7. Range(t) \subseteq Range(s \o t)
  BY <1>3 DEF Range
<1> QED BY <1>1, <1>5, <1>6, <1>7

\* Taking the last element off a sequence leaves the others.
LEMMA TakingOff ==
  ASSUME NEW S, NEW s \in Seq(S), s # <<>>
  PROVE  /\ Last(s) \in S /\ Front(s) \in Seq(S)
         /\ Range(s) = Range(Front(s)) \cup {Last(s)}
<1>1. Len(s) \in Nat \ {0} /\ Last(s) = s[Len(s)] /\ Last(s) \in S
  BY DEF Last
<1>2. /\ Front(s) \in Seq(S) /\ Len(Front(s)) = Len(s) - 1
      /\ \A i \in 1 .. Len(s) - 1 : Front(s)[i] = s[i]
  <2>1. PICK n \in Nat : n = Len(s) - 1
    BY <1>1
  <2>2. 1 \in 1 .. Len(s) + 1 /\ n \in 1 - 1 .. Len(s)
    BY <1>1, <2>1
  <2>3. /\ SubSeq(s, 1, n) \in Seq(S)
        /\ Len(SubSeq(s, 1, n)) = IF 1 <= n THEN n - 1 + 1 ELSE 0
        /\ \A i \in 1 .. n - 1 + 1 : SubSeq(s, 1, n)[i] = s[1 + i - 1]
    BY <2>2, SubSeqProperties
  <2>4. Front(s) = SubSeq(s, 1, n)
    BY <2>1 DEF Front
  <2>5. \A i \in 1 .. n : i \in 1 .. n - 1 + 1 /\ 1 + i - 1 = i
    BY <2>1
  <2> QED BY <1>1, <2>1, <2>3, <2>4, <2>5
<1>3. \A i \in 1 .. Len(s) - 1 : Front(s)[i] = s[i]
  BY <1>2
<1>4. \A i \in DOMAIN s : i \in DOMAIN Front(s) \/ i = Len(s)
  BY <1>1, <1>2
<1>5. Range(s) \subseteq Range(Front(s)) \cup {Last(s)}
  BY <1>1, <1>2, <1>3, <1>4 DEF Range
<1>6. Range(Front(s)) \subseteq Range(s)
  BY <1>1, <1>2, <1>3 DEF Range
<1>7. Last(s) \in Range(s)
  BY <1>1 DEF Range
<1> QED BY <1>1, <1>2, <1>5, <1>6, <1>7

\* A package's dependencies are packages.
LEMMA DependenciesArePackages ==
  ASSUME NEW m \in Metadata, NEW p \in Package
  PROVE  /\ m.deps[p] \in Seq(Package)
         /\ Contract!DependsOn(m, p) = Range(m.deps[p])
         /\ Contract!DependsOn(m, p) \subseteq Package
         /\ m.named \subseteq Package
<1>1. m.deps[p] \in Seq(Package) /\ m.named \subseteq Package
  BY DEF Metadata, Contract!Metadata
<1>2. Contract!DependsOn(m, p) = Range(m.deps[p])
  BY DEF Contract!DependsOn, Contract!Range, Range
<1> QED BY <1>1, <1>2 DEF Range

\* The closure holds the core, is closed, and lies in every closed set of
\* packages that holds the core.
LEMMA ClosureIsLeast ==
  ASSUME NEW m \in Metadata
  PROVE  /\ m.named \subseteq Contract!Closure(m)
         /\ Contract!Closed(m, Contract!Closure(m))
         /\ Contract!Closure(m) \subseteq Package
         /\ \A S \in SUBSET Package :
              m.named \subseteq S /\ Contract!Closed(m, S) => Contract!Closure(m) \subseteq S
<1> DEFINE C == Contract!Closure(m)
<1>1. m.named \subseteq C
  <2>1. m.named \subseteq Package
    BY DEF Metadata, Contract!Metadata
  <2> QED BY <2>1 DEF Contract!Closure
<1>2. ASSUME NEW p \in C, NEW q \in Contract!DependsOn(m, p)
      PROVE  q \in C
  <2>1. p \in Package /\ q \in Package
    BY <1>2, DependenciesArePackages DEF Contract!Closure
  <2>2. ASSUME NEW S \in SUBSET Package, m.named \subseteq S, Contract!Closed(m, S)
        PROVE  q \in S
    <3>1. p \in S
      BY <1>2, <2>2 DEF Contract!Closure
    <3> QED BY <1>2, <2>2, <3>1 DEF Contract!Closed
  <2> QED BY <2>1, <2>2 DEF Contract!Closure
<1>3. Contract!Closed(m, C)
  BY <1>2 DEF Contract!Closed
<1>4. C \subseteq Package
  BY DEF Contract!Closure
<1>5. \A S \in SUBSET Package :
        m.named \subseteq S /\ Contract!Closed(m, S) => C \subseteq S
  BY DEF Contract!Closure
<1> QED BY <1>1, <1>3, <1>4, <1>5

-----------------------------------------------------------------------------
(* Type correctness.                                                       *)

\* The walk handles nothing but packages, on any metadata.
THEOREM TypeCorrect == Safety => []TypeOK
<1>1. Init => TypeOK
  BY DEF Init, TypeOK
<1>2. TypeOK /\ [Next]_vars => TypeOK'
  <2> SUFFICES ASSUME TypeOK, [Next]_vars PROVE TypeOK'
    OBVIOUS
  <2>1. CASE RefuseMetadata
    BY <2>1 DEF RefuseMetadata, Exit, TypeOK
  <2>2. CASE Start
    BY <2>2 DEF Start, TypeOK
  <2>3. CASE SkipSeen
    BY <2>3, TakingOff DEF SkipSeen, TypeOK
  <2>4. CASE Visit
    <3>1. Last(stack) \in Package /\ Front(stack) \in Seq(Package)
      BY <2>4, TakingOff DEF Visit, TypeOK
    <3>2. metadata.deps[Last(stack)] \in Seq(Package)
      BY <3>1, DependenciesArePackages DEF TypeOK
    <3> QED BY <2>4, <3>1, <3>2, RangeOfConcat DEF Visit, TypeOK
  <2>5. CASE Judge
    BY <2>5 DEF Judge, Exit, TypeOK
  <2>6. CASE UNCHANGED vars
    BY <2>6 DEF vars, TypeOK
  <2> QED BY <2>1, <2>2, <2>3, <2>4, <2>5, <2>6 DEF Next
<1> QED BY <1>1, <1>2, PTL DEF Safety

-----------------------------------------------------------------------------
(* The walk.                                                               *)

\* The packages the walk has come to.
Met == seen \cup Range(stack)

\* What one step does to them: nothing, or the dependencies of the package on
\* top of the stack are added.
LEMMA WalkEffect ==
  ASSUME TypeOK
  PROVE  /\ SkipSeen => Met' = Met
         /\ Visit => /\ Last(stack) \in Met
                     /\ Met' = Met \cup Contract!DependsOn(metadata, Last(stack))
<1>1. ASSUME SkipSeen PROVE Met' = Met
  <2>1. Range(stack) = Range(Front(stack)) \cup {Last(stack)}
    BY <1>1, TakingOff DEF SkipSeen, TypeOK
  <2> QED BY <1>1, <2>1 DEF SkipSeen, Met
<1>2. ASSUME Visit
      PROVE  /\ Last(stack) \in Met
             /\ Met' = Met \cup Contract!DependsOn(metadata, Last(stack))
  <2>1. /\ Last(stack) \in Package /\ Front(stack) \in Seq(Package)
        /\ Range(stack) = Range(Front(stack)) \cup {Last(stack)}
    BY <1>2, TakingOff DEF Visit, TypeOK
  <2>2. /\ metadata.deps[Last(stack)] \in Seq(Package)
        /\ Contract!DependsOn(metadata, Last(stack)) = Range(metadata.deps[Last(stack)])
    BY <2>1, DependenciesArePackages DEF TypeOK
  <2>3. Range(stack') = Range(Front(stack)) \cup Range(metadata.deps[Last(stack)])
    BY <1>2, <2>1, <2>2, RangeOfConcat DEF Visit
  <2> QED BY <1>2, <2>1, <2>2, <2>3 DEF Visit, Met
<1> QED BY <1>1, <1>2

\* The walk starts from the one package of the crate's name, and from nothing
\* else.
LEMMA StartEffect ==
  ASSUME TypeOK, WalkInv, Start
  PROVE  /\ Contract!Usable(metadata)
         /\ Met = {} /\ Met' = metadata.named /\ seen = {}
<1>1. PICK p \in Package : metadata.named = {p} /\ stack' = <<p>>
  BY DEF Start
<1>2. Range(<<p>>) = {p}
  BY DEF Range
<1>3. Met = {}
  BY DEF Start, WalkInv, Met
<1> QED BY <1>1, <1>2, <1>3 DEF Start, Met, Contract!Usable

\* The invariant of the walk: it stays in the closure, and what a visited
\* package depends on is visited or waits.
THEOREM WalkCorrect == Safety => []WalkInv
<1>1. Init => WalkInv
  <2>1. Range(<<>>) = {}
    BY DEF Range
  <2> QED BY <2>1 DEF Init, WalkInv
<1>2. ASSUME TypeOK, WalkInv, [Next]_vars
      PROVE  WalkInv'
  <2> USE DEF Met
  <2>0. /\ metadata \in Metadata /\ metadata' = metadata
        /\ metadata.named \subseteq Contract!Closure(metadata)
        /\ Contract!Closed(metadata, Contract!Closure(metadata))
        /\ Met \subseteq Contract!Closure(metadata)
    BY <1>2, ClosureIsLeast DEF TypeOK, WalkInv, Next, vars, RefuseMetadata, Start, SkipSeen,
                                Visit, Judge, Exit
  <2>1. CASE RefuseMetadata
    <3>1. ~Contract!Usable(metadata)
      BY <2>1 DEF RefuseMetadata, Contract!Usable
    <3> QED BY <1>2, <2>1, <3>1 DEF RefuseMetadata, Exit, WalkInv
  <2>2. CASE Start
    <3>1. /\ Contract!Usable(metadata)
          /\ Met' = metadata.named /\ seen' = {}
      BY <1>2, <2>2, StartEffect DEF Start
    <3> QED BY <1>2, <2>0, <2>2, <3>1 DEF Start, WalkInv
  <2>3. CASE SkipSeen
    <3>1. Met' = Met
      BY <1>2, <2>3, WalkEffect
    <3> QED BY <1>2, <2>3, <3>1 DEF SkipSeen, WalkInv
  <2>4. CASE Visit
    <3>1. /\ Last(stack) \in Met
          /\ Met' = Met \cup Contract!DependsOn(metadata, Last(stack))
      BY <1>2, <2>4, WalkEffect
    <3>2. Contract!DependsOn(metadata, Last(stack)) \subseteq Contract!Closure(metadata)
      BY <2>0, <3>1 DEF Contract!Closed
    <3> QED BY <1>2, <2>0, <2>4, <3>1, <3>2 DEF Visit, WalkInv
  <2>5. CASE Judge
    <3>1. Met = seen
      BY <2>5 DEF Judge, Range
    <3>2. Contract!Usable(metadata) /\ Contract!Closed(metadata, seen)
            /\ metadata.named \subseteq seen
      BY <1>2, <2>5, <3>1 DEF Judge, WalkInv, Contract!Closed
    <3>3. seen = Contract!Closure(metadata)
      BY <1>2, <2>0, <3>1, <3>2, ClosureIsLeast DEF TypeOK
    <3> QED BY <1>2, <2>5, <3>2, <3>3 DEF Judge, Exit, WalkInv
  <2>6. CASE UNCHANGED vars
    BY <1>2, <2>6 DEF vars, WalkInv
  <2> QED BY <1>2, <2>1, <2>2, <2>3, <2>4, <2>5, <2>6 DEF Next
<1> QED BY <1>1, <1>2, TypeCorrect, PTL DEF Safety

\* The guard's answer is the exact one, for every graph.
THEOREM GuardExact == Safety => []GuardIsExact
<1>1. ASSUME WalkInv PROVE GuardIsExact
  <2>1. \A S : Contract!Judged(metadata, S).kind \in {"Leaf", "NotLeaf"}
    BY DEF Contract!Judged, Contract!Leaf, Contract!NotLeaf
  <2>2. \A S : Contract!Judged(metadata, S) # Contract!Refused
    BY <2>1 DEF Contract!Refused
  <2> QED BY <1>1, <2>2 DEF WalkInv, GuardIsExact
<1> QED BY <1>1, WalkCorrect, PTL

\* The script implements its contract: what is known in the contract is what
\* is visited or waits.
THEOREM ContractImplemented == Safety => ImplementsContract
<1>1. Init => Contract!Init
  <2>1. Range(<<>>) = {}
    BY DEF Range
  <2> QED BY <2>1 DEF Init, Contract!Init
<1>2. ASSUME TypeOK, WalkInv, [Next]_vars
      PROVE  [Contract!Next]_(Contract!vars)
  <2> USE DEF Met
  <2>1. CASE RefuseMetadata
    <3>1. Contract!Refuse
      BY <1>2, <2>1 DEF RefuseMetadata, Exit, WalkInv, Contract!Refuse, Contract!Usable
    <3> QED BY <3>1 DEF Contract!Next
  <2>2. CASE Start
    <3>1. Contract!Usable(metadata) /\ Met = {} /\ Met' = metadata.named
      BY <1>2, <2>2, StartEffect
    <3>2. Met' = Met \cup metadata.named
      BY <3>1
    <3>3. Contract!Discover
      BY <1>2, <2>2, <3>1, <3>2 DEF Start, WalkInv, Contract!Discover
    <3> QED BY <3>3 DEF Contract!Next
  <2>3. CASE SkipSeen
    <3>1. Met' = Met
      BY <1>2, <2>3, WalkEffect
    <3> QED BY <2>3, <3>1 DEF SkipSeen, Contract!vars
  <2>4. CASE Visit
    <3>1. /\ Last(stack) \in Met
          /\ Met' = Met \cup Contract!DependsOn(metadata, Last(stack))
      BY <1>2, <2>4, WalkEffect
    <3>2. Contract!DependsOn(metadata, Last(stack))
            \subseteq UNION {Contract!DependsOn(metadata, p) : p \in Met}
      BY <3>1
    <3>3. Contract!Discover
      BY <1>2, <2>4, <3>1, <3>2 DEF Visit, WalkInv, Contract!Discover
    <3> QED BY <3>3 DEF Contract!Next
  <2>5. CASE Judge
    <3>1. Met = seen /\ Met' = seen
      BY <2>5 DEF Judge, Exit, Range
    <3>2. Contract!Conclude
      BY <1>2, <2>5, <3>1 DEF Judge, Exit, WalkInv, Contract!Conclude, Contract!Closed
    <3> QED BY <3>2 DEF Contract!Next
  <2>6. CASE UNCHANGED vars
    BY <2>6 DEF vars, Contract!vars
  <2> QED BY <1>2, <2>1, <2>2, <2>3, <2>4, <2>5, <2>6 DEF Next
<1> QED BY <1>1, <1>2, TypeCorrect, WalkCorrect, PTL DEF Safety, ImplementsContract, Contract!Spec
=============================================================================
