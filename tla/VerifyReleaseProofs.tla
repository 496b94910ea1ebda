-------------------------- MODULE VerifyReleaseProofs --------------------------
(***************************************************************************)
(* The version check is right for every tree and any versions: what it     *)
(* reports is, step by step, what is wrong with the tree, so a tree passes *)
(* only if it is consistent, and one disagreement hides no other.          *)
(***************************************************************************)
EXTENDS VerifyRelease, SequenceTheorems, TLAPS

USE VersionsAssumption, TreesAssumption

-----------------------------------------------------------------------------
(* The inductive invariant.                                                *)

\* What each comparison finds wrong with a tree whose manifests can be read.
PyProblems == If(tree.py.kind = "Declares" /\ tree.py.version # Rust, "py disagrees")

LockProblems ==
  If(~LockReadable, "lock unusable")
    \cup If(LockReadable /\ tree.lock.version[1] # Rust, "lock stale")

PythonProblems ==
  If(~Maps(Rust), "version unsupported")
    \cup If(/\ tree.pyproject.kind = "Declares"
            /\ Maps(Rust) /\ tree.pyproject.version # RustToPep440(Rust),
            "pyproject disagrees")

TagProblems == If(\E t \in tag : t # TagOf(Rust), "tag disagrees")

\* The problems are those of the comparisons made so far, or the read errors, and
\* none when an error got through.
Findings ==
  /\ tree \in Trees /\ tag \subseteq Tags /\ requireAll \in BOOLEAN
  /\ pc \in {"read", "manifests", "lock", "python", "tag", "returned", "raised"}
  /\ pc \in {"read", "manifests", "raised"} => problems = {}
  /\ pc \in {"manifests", "lock", "python", "tag"} => ReadErrors = {}
  /\ pc = "lock" => problems = PyProblems
  /\ pc = "python" => problems = PyProblems \cup LockProblems
  /\ pc = "tag" => problems = PyProblems \cup LockProblems \cup PythonProblems
  /\ pc = "returned" =>
       problems = IF ReadErrors # {} THEN ReadErrors
                  ELSE PyProblems \cup LockProblems \cup PythonProblems \cup TagProblems

-----------------------------------------------------------------------------
(* Lemmas.                                                                 *)

\* A conditional problem is there when its condition holds.
LEMMA IfIs ==
  ASSUME NEW c \in BOOLEAN, NEW p
  PROVE  /\ c => If(c, p) = {p}
         /\ ~c => If(c, p) = {}
BY DEF If

\* A manifest declares a version or is one of the three that do not.
LEMMA ManifestIs ==
  ASSUME NEW S, NEW m \in Manifest(S)
  PROVE  /\ \/ m = Missing \/ m = NotText \/ m = Unreadable
            \/ m.kind = "Declares" /\ m.version \in S /\ m = Declares(m.version)
         /\ Missing.kind # "Declares" /\ NotText.kind # "Declares"
         /\ Unreadable.kind # "Declares" /\ Missing # Unreadable
         /\ \A v : Declares(v).kind = "Declares" /\ Declares(v).version = v
<1>1. /\ Missing.kind = "Missing" /\ NotText.kind = "NotText"
      /\ Unreadable.kind = "Unreadable"
      /\ \A v : Declares(v).kind = "Declares" /\ Declares(v).version = v
  BY DEF Missing, NotText, Unreadable, Declares
<1>2. ASSUME m \in [kind : {"Declares"}, version : S]
      PROVE  m.kind = "Declares" /\ m.version \in S /\ m = Declares(m.version)
  BY <1>2 DEF Declares
<1>3. m = Missing \/ m = NotText \/ m = Unreadable \/ m \in [kind : {"Declares"}, version : S]
  BY DEF Manifest
<1>4. Missing # Unreadable
  BY <1>1
<1> QED BY <1>1, <1>2, <1>3, <1>4

\* The manifests of a tree, by name and by field.
LEMMA TreeIs ==
  ASSUME NEW t \in Trees
  PROVE  /\ t["cargo"] = t.cargo /\ t["py"] = t.py /\ t["pyproject"] = t.pyproject
         /\ t.cargo \in Manifest(Versions) /\ t.py \in Manifest(Versions)
         /\ t.pyproject \in Manifest(Peps) /\ t.named \in BOOLEAN
         /\ t.lock \in Manifest(Seq(Versions))
BY DEF Tree

\* When all that must be read can be, the root manifest declares a version, and
\* the other two do unless they are missing, which only the default allows.
LEMMA ReadableTree ==
  ASSUME tree \in Trees, ReadErrors = {}
  PROVE  /\ tree.cargo = Declares(Rust) /\ tree.cargo.kind = "Declares" /\ Rust \in Versions
         /\ tree.py = Missing \/ (tree.py.kind = "Declares" /\ tree.py = Declares(tree.py.version))
         /\ tree.pyproject = Missing
              \/ (tree.pyproject.kind = "Declares" /\ tree.pyproject = Declares(tree.pyproject.version))
         /\ requireAll => Missing \notin {tree.py, tree.pyproject}
<1>1. \A m \in {"cargo", "py", "pyproject"} :
        tree[m].kind = "Declares" \/ (tree[m] = Missing /\ m # "cargo" /\ ~requireAll)
  BY DEF ReadErrors, Manifests, Skipped
<1>2. /\ tree.cargo.kind = "Declares"
      /\ tree.py.kind = "Declares" \/ (tree.py = Missing /\ ~requireAll)
      /\ tree.pyproject.kind = "Declares" \/ (tree.pyproject = Missing /\ ~requireAll)
  BY <1>1, TreeIs
<1>3. Missing.kind # "Declares" /\ NotText.kind # "Declares" /\ Unreadable.kind # "Declares"
  BY DEF Missing, NotText, Unreadable
<1>4. tree.cargo = Declares(Rust) /\ Rust \in Versions
  BY <1>2, <1>3, TreeIs, ManifestIs DEF Rust
<1>5. tree.py.kind = "Declares" => tree.py = Declares(tree.py.version)
  BY <1>3, TreeIs, ManifestIs
<1>6. tree.pyproject.kind = "Declares" => tree.pyproject = Declares(tree.pyproject.version)
  BY <1>3, TreeIs, ManifestIs
<1> QED BY <1>2, <1>3, <1>4, <1>5, <1>6

\* The lockfile passes exactly when it records the crate once, at its version.
LEMMA LockIs ==
  ASSUME tree \in Trees
  PROVE  LockReadable /\ tree.lock.version[1] = Rust <=> tree.named /\ tree.lock = Declares(<<Rust>>)
<1>1. ASSUME LockReadable, tree.lock.version[1] = Rust
      PROVE  tree.named /\ tree.lock = Declares(<<Rust>>)
  <2>1. tree.named /\ tree.lock.kind = "Declares" /\ Len(tree.lock.version) = 1
    BY <1>1 DEF LockReadable
  <2>2. tree.lock = Declares(tree.lock.version) /\ tree.lock.version \in Seq(Versions)
    BY <2>1, TreeIs, ManifestIs DEF Missing, NotText, Unreadable
  <2>3. tree.lock.version = <<Rust>>
    BY <1>1, <2>1, <2>2
  <2> QED BY <2>1, <2>2, <2>3
<1>2. ASSUME tree.named, tree.lock = Declares(<<Rust>>)
      PROVE  LockReadable /\ tree.lock.version[1] = Rust
  BY <1>2 DEF LockReadable, Declares
<1> QED BY <1>1, <1>2

\* What two identifiers of the supported form are made of.
LEMMA IdentifierIs ==
  ASSUME NEW x \in Identifier
  PROVE  /\ "word" \in DOMAIN x => x = [word |-> x.word]
         /\ "numeral" \in DOMAIN x => x = [numeral |-> x.numeral] /\ x.numeral \in Numeral
<1>1. CASE x \in [word : Words]
  <2>1. x = [word |-> x.word] /\ DOMAIN x = {"word"}
    BY <1>1
  <2> QED BY <2>1
<1>2. CASE x \in NumberPart
  <2>1. x = [numeral |-> x.numeral] /\ DOMAIN x = {"numeral"} /\ x.numeral \in Numeral
    BY <1>2 DEF NumberPart
  <2> QED BY <2>1
<1> QED BY <1>1, <1>2 DEF Identifier

-----------------------------------------------------------------------------
(* The theorems.                                                           *)

\* Every comparison adds what is wrong with its part of the tree, and takes
\* nothing back.
LEMMA StepFindings == Findings /\ [Next]_vars => Findings'
<1> SUFFICES ASSUME Findings, [Next]_vars
             PROVE  Findings'
  OBVIOUS
<1>1. CASE UNCHANGED vars
  <2>1. /\ ReadErrors' = ReadErrors /\ PyProblems' = PyProblems /\ LockProblems' = LockProblems
        /\ PythonProblems' = PythonProblems /\ TagProblems' = TagProblems
    BY <1>1 DEF vars, ReadErrors, Skipped, PyProblems, LockProblems, LockReadable,
                PythonProblems, TagProblems, Rust
  <2> QED BY <1>1, <2>1 DEF vars, Findings
<1>2. CASE Next
  <2>1. UNCHANGED <<tree, tag, requireAll>>
    BY <1>2 DEF Next, Raise, FailRead, ReadAll, CompareManifests, CompareLock, ComparePython,
                CompareTag, Found
  <2>2. /\ ReadErrors' = ReadErrors /\ PyProblems' = PyProblems /\ LockProblems' = LockProblems
        /\ PythonProblems' = PythonProblems /\ TagProblems' = TagProblems
    BY <2>1 DEF ReadErrors, Skipped, PyProblems, LockProblems, LockReadable, PythonProblems,
                TagProblems, Rust
  <2>3. CASE Raise \/ FailRead \/ ReadAll
    BY <2>1, <2>2, <2>3 DEF Raise, FailRead, ReadAll, Found, Findings
  <2>4. CASE CompareManifests
    <3>1. Found("manifests", "lock", PyProblems)
      BY <2>4 DEF CompareManifests, PyProblems
    <3> QED BY <2>1, <2>2, <3>1 DEF Found, Findings
  <2>5. CASE CompareLock
    <3>1. Found("lock", "python", LockProblems)
      BY <2>5 DEF CompareLock, LockProblems
    <3> QED BY <2>1, <2>2, <3>1 DEF Found, Findings
  <2>6. CASE ComparePython
    <3>1. Found("python", "tag", PythonProblems)
      BY <2>6 DEF ComparePython, PythonProblems
    <3> QED BY <2>1, <2>2, <3>1 DEF Found, Findings
  <2>7. CASE CompareTag
    <3>1. Found("tag", "returned", TagProblems)
      BY <2>7 DEF CompareTag, TagProblems
    <3> QED BY <2>1, <2>2, <3>1 DEF Found, Findings
  <2> QED BY <1>2, <2>3, <2>4, <2>5, <2>6, <2>7 DEF Next
<1> QED BY <1>1, <1>2

\* In every state the problems are exactly those of the comparisons made so far.
THEOREM FindingsCorrect == Spec => []Findings
<1>1. Init => Findings
  BY DEF Init, Findings
<1> QED BY <1>1, StepFindings, PTL DEF Spec

\* The check reports problems it knows, of a tree and a tag it was given.
THEOREM TypeCorrect == Spec => []TypeOK
<1>1. ASSUME Findings
      PROVE  TypeOK
  <2>1. /\ ReadErrors \subseteq Problem /\ PyProblems \subseteq Problem
        /\ LockProblems \subseteq Problem /\ PythonProblems \subseteq Problem
        /\ TagProblems \subseteq Problem
    BY DEF ReadErrors, PyProblems, LockProblems, PythonProblems, TagProblems, If, Problem, Manifests
  <2>2. pc \in {"manifests", "lock", "python", "tag"} => tree.cargo.kind = "Declares"
    BY <1>1, ReadableTree DEF Findings
  <2> QED BY <1>1, <2>1, <2>2 DEF Findings, TypeOK
<1> QED BY <1>1, FindingsCorrect, PTL

\* What each problem says, and that no two are confused.
LEMMA ProblemsSay ==
  ASSUME Findings, pc = "returned", ReadErrors = {}
  PROVE  /\ "py disagrees" \in problems <=> tree.py.kind = "Declares" /\ tree.py.version # Rust
         /\ {"lock stale", "lock unusable"} \cap problems = {}
              <=> LockReadable /\ tree.lock.version[1] = Rust
         /\ "tag disagrees" \in problems <=> \E t \in tag : t # TagOf(Rust)
         /\ {"version unsupported", "pyproject disagrees"} \cap problems = {}
              <=> /\ Maps(Rust)
                  /\ tree.pyproject.kind = "Declares" => tree.pyproject.version = RustToPep440(Rust)
<1>1. problems = PyProblems \cup LockProblems \cup PythonProblems \cup TagProblems
  BY DEF Findings
<1>2. /\ PyProblems \subseteq {"py disagrees"}
      /\ LockProblems \subseteq {"lock unusable", "lock stale"}
      /\ PythonProblems \subseteq {"version unsupported", "pyproject disagrees"}
      /\ TagProblems \subseteq {"tag disagrees"}
  BY DEF PyProblems, LockProblems, PythonProblems, TagProblems, If
<1>3. "py disagrees" \in PyProblems <=> tree.py.kind = "Declares" /\ tree.py.version # Rust
  BY DEF PyProblems, If
<1>4. {"lock stale", "lock unusable"} \cap LockProblems = {}
        <=> LockReadable /\ tree.lock.version[1] = Rust
  BY DEF LockProblems, If
<1>5. {"version unsupported", "pyproject disagrees"} \cap PythonProblems = {}
        <=> /\ Maps(Rust)
            /\ tree.pyproject.kind = "Declares" => tree.pyproject.version = RustToPep440(Rust)
  BY DEF PythonProblems, If
<1>6. "tag disagrees" \in TagProblems <=> \E t \in tag : t # TagOf(Rust)
  BY DEF TagProblems, If
<1>7. /\ "py disagrees" \in problems <=> "py disagrees" \in PyProblems
      /\ {"lock stale", "lock unusable"} \cap problems
           = {"lock stale", "lock unusable"} \cap LockProblems
      /\ {"version unsupported", "pyproject disagrees"} \cap problems
           = {"version unsupported", "pyproject disagrees"} \cap PythonProblems
      /\ "tag disagrees" \in problems <=> "tag disagrees" \in TagProblems
  BY <1>1, <1>2
<1> QED BY <1>3, <1>4, <1>5, <1>6, <1>7

\* Nothing consistent is refused, and one disagreement hides no other: as far as
\* the declarations can be read at all, each one is reported.
THEOREM DisagreementsReported == Spec => []EveryDisagreementReported
<1>1. ASSUME Findings, pc = "returned", ReadErrors = {}
      PROVE  /\ "py disagrees" \in problems <=> tree.py \notin {Missing, Declares(Rust)}
             /\ {"lock stale", "lock unusable"} \cap problems = {}
                  <=> tree.named /\ tree.lock = Declares(<<Rust>>)
             /\ "tag disagrees" \in problems <=> ~(tag \subseteq {TagOf(Rust)})
             /\ {"version unsupported", "pyproject disagrees"} \cap problems = {}
                  <=> Maps(Rust) /\ tree.pyproject \in {Missing, Declares(RustToPep440(Rust))}
  <2>1. tree \in Trees
    BY <1>1 DEF Findings
  <2>2. \A v, w : /\ Declares(v).kind = "Declares" /\ Missing # Declares(v)
                 /\ Missing.kind # "Declares" /\ (Declares(v) = Declares(w) <=> v = w)
    BY DEF Declares, Missing
  <2>3. tree.py.kind = "Declares" /\ tree.py.version # Rust
          <=> tree.py \notin {Missing, Declares(Rust)}
    BY <1>1, <2>1, <2>2, ReadableTree
  <2>4. (tree.pyproject.kind = "Declares" => tree.pyproject.version = RustToPep440(Rust))
          <=> tree.pyproject \in {Missing, Declares(RustToPep440(Rust))}
    BY <1>1, <2>1, <2>2, ReadableTree
  <2> QED BY <1>1, <2>1, <2>3, <2>4, ProblemsSay, LockIs
<1> QED BY <1>1, FindingsCorrect, PTL DEF EveryDisagreementReported

\* A spelling is put together of its parts.
LEMMA SpellingIs ==
  ASSUME NEW c \in Seq(NumberPart), NEW l \in {"none", "a", "b", "rc"}, NEW n \in Numeral,
         NEW p, p = [core |-> c, letter |-> l, num |-> n]
  PROVE  p \in Pep440 /\ p.letter = l /\ p.num = n
BY DEF Pep440

\* The letters of the prerelease words differ, and none is the empty one.
LEMMA LettersApart ==
  /\ DOMAIN PrereleaseLetter = {"alpha", "beta", "rc"}
  /\ PrereleaseLetter["alpha"] = "a" /\ PrereleaseLetter["beta"] = "b"
  /\ PrereleaseLetter["rc"] = "rc"
BY DEF PrereleaseLetter

\* A sequence is one of whatever its elements are.
LEMMA ElementsDecide ==
  ASSUME NEW S, NEW T, NEW c \in Seq(S), \A i \in 1 .. Len(c) : c[i] \in T
  PROVE  c \in Seq(T)
OBVIOUS

\* A version that maps has three numbers, and its spelling is a PEP 440 one whose
\* prerelease letter and number are the version's.
LEMMA MappedVersion ==
  ASSUME NEW v \in Versions, Maps(v)
  PROVE  /\ ~v.build /\ Len(v.core) = 3 /\ RustToPep440(v) \in Pep440
         /\ Canonical(RustToPep440(v).num)
         /\ v.hyphen \in BOOLEAN
         /\ ~v.hyphen => v.pre = <<>> /\ RustToPep440(v).letter = "none"
         /\ v.hyphen =>
              /\ v.pre \in Seq(Identifier) /\ Len(v.pre) = 2
              /\ v.pre[1] = [word |-> v.pre[1].word] /\ v.pre[1].word \in {"alpha", "beta", "rc"}
              /\ RustToPep440(v).letter = PrereleaseLetter[v.pre[1].word]
              /\ v.pre[2] = [numeral |-> RustToPep440(v).num]
<1>0. /\ v.core \in Seq(Identifier) /\ v.hyphen \in BOOLEAN /\ v.pre \in Seq(Identifier)
      /\ v.build \in BOOLEAN /\ (~v.hyphen => v.pre = <<>>)
  BY DEF Version
<1>2. /\ ~v.build /\ Len(v.core) = 3
      /\ \A i \in DOMAIN v.core : "numeral" \in DOMAIN v.core[i]
  BY DEF Maps, CoreMatches
<1>1. /\ v.core \in Seq(NumberPart) /\ v.hyphen \in BOOLEAN
      /\ v.pre \in Seq(Identifier) /\ v.build \in BOOLEAN /\ (~v.hyphen => v.pre = <<>>)
  <2> DEFINE c == v.core
  <2>1. c \in Seq(Identifier) /\ \A i \in DOMAIN c : "numeral" \in DOMAIN c[i]
    BY <1>0, <1>2
  <2> HIDE DEF c
  <2>2. ASSUME NEW i \in 1 .. Len(c)
        PROVE  c[i] \in NumberPart
    <3>1. c[i] = [numeral |-> c[i].numeral] /\ c[i].numeral \in Numeral
      BY <2>1, IdentifierIs
    <3> QED BY <3>1 DEF NumberPart
  <2>3. c \in Seq(NumberPart)
    BY <2>1, <2>2, ElementsDecide
  <2> QED BY <1>0, <2>3 DEF c
<1>3. CASE ~v.hyphen
  <2>1. RustToPep440(v) = [core |-> v.core, letter |-> "none", num |-> NoNumber]
    BY <1>3 DEF RustToPep440
  <2>2. NoNumber \in Numeral /\ Canonical(NoNumber)
    BY DEF NoNumber, Numeral, Canonical
  <2>3. RustToPep440(v) \in Pep440 /\ RustToPep440(v).letter = "none" /\ RustToPep440(v).num = NoNumber
    BY <1>1, <2>1, <2>2, SpellingIs
  <2> QED BY <1>1, <1>2, <1>3, <2>2, <2>3
<1>4. CASE v.hyphen
  <2>1. /\ Len(v.pre) = 2 /\ "word" \in DOMAIN v.pre[1]
        /\ v.pre[1].word \in DOMAIN PrereleaseLetter
        /\ "numeral" \in DOMAIN v.pre[2] /\ Canonical(v.pre[2].numeral)
    BY <1>4 DEF Maps, PreMatches
  <2>2. v.pre[1] \in Identifier /\ v.pre[2] \in Identifier
    BY <1>1, <2>1
  <2>3. /\ v.pre[1] = [word |-> v.pre[1].word]
        /\ v.pre[2] = [numeral |-> v.pre[2].numeral] /\ v.pre[2].numeral \in Numeral
    BY <2>1, <2>2, IdentifierIs
  <2>4. /\ v.pre[1].word \in {"alpha", "beta", "rc"}
        /\ PrereleaseLetter[v.pre[1].word] \in {"a", "b", "rc"}
    BY <2>1, LettersApart
  <2>5. RustToPep440(v) = [core |-> v.core, letter |-> PrereleaseLetter[v.pre[1].word],
                           num |-> v.pre[2].numeral]
    BY <1>4 DEF RustToPep440
  <2>6. /\ RustToPep440(v) \in Pep440 /\ RustToPep440(v).num = v.pre[2].numeral
        /\ RustToPep440(v).letter = PrereleaseLetter[v.pre[1].word]
    BY <1>1, <2>3, <2>4, <2>5, SpellingIs
  <2> QED BY <1>1, <1>2, <1>4, <2>1, <2>3, <2>4, <2>6
<1> QED BY <1>1, <1>3, <1>4

\* What passed is readable, and every comparison was in its favour.
LEMMA PassedTree ==
  ASSUME Findings, Passed
  PROVE  /\ tree \in Trees /\ ReadErrors = {} /\ pc = "returned" /\ problems = {}
         /\ Rust \in Versions /\ Maps(Rust)
<1>1. pc = "returned" /\ problems = {}
  BY DEF Passed
<1>2. ReadErrors = {} /\ tree \in Trees
  BY <1>1 DEF Findings
<1>3. Maps(Rust)
  BY <1>1, <1>2, ProblemsSay
<1> QED BY <1>1, <1>2, <1>3, ReadableTree

\* What the gate lets through can be published: one version throughout, the
\* lockfile's and the tag's included, with a PEP 440 spelling.
THEOREM PassedTreesAreConsistent == Spec => []PassedIsConsistent
<1>1. ASSUME Findings, Passed
      PROVE  /\ tree.cargo.kind = "Declares" /\ tree.lock = Declares(<<Rust>>)
             /\ tree.py \in {Missing, Declares(Rust)}
             /\ tree.pyproject \in {Missing, Declares(RustToPep440(Rust))}
             /\ tag \subseteq {TagOf(Rust)}
             /\ requireAll => Missing \notin {tree.py, tree.pyproject}
             /\ ~Rust.build /\ Len(Rust.core) = 3
             /\ RustToPep440(Rust) \in Pep440 /\ Canonical(RustToPep440(Rust).num)
  <2>1. /\ tree \in Trees /\ ReadErrors = {} /\ pc = "returned" /\ problems = {}
        /\ Rust \in Versions /\ Maps(Rust)
    BY <1>1, PassedTree
  <2>2. tree.py = Missing \/ tree.py = Declares(Rust)
    BY <1>1, <2>1, ProblemsSay, ReadableTree
  <2>3. tree.pyproject = Missing \/ tree.pyproject = Declares(RustToPep440(Rust))
    BY <1>1, <2>1, ProblemsSay, ReadableTree
  <2>4. tree.lock = Declares(<<Rust>>) /\ tag \subseteq {TagOf(Rust)}
    BY <1>1, <2>1, ProblemsSay, LockIs
  <2>5. tree.cargo.kind = "Declares" /\ (requireAll => Missing \notin {tree.py, tree.pyproject})
    BY <2>1, ReadableTree
  <2> QED BY <2>1, <2>2, <2>3, <2>4, <2>5, MappedVersion
<1> QED BY <1>1, FindingsCorrect, PTL DEF PassedIsConsistent

\* No two versions that map are one Python release but for the zeros of their
\* cores: their prereleases are the same, spelling included.
LEMMA SpellingsStayApart ==
  ASSUME NEW v \in Versions, NEW w \in Versions, Maps(v), Maps(w),
         SameRelease(RustToPep440(v), RustToPep440(w))
  PROVE  v.pre = w.pre /\ v.hyphen = w.hyphen
<1> DEFINE p == RustToPep440(v)
           q == RustToPep440(w)
<1>1. p.letter = q.letter /\ p.num.value = q.num.value
  BY DEF SameRelease
<1>2. p.num \in Numeral /\ q.num \in Numeral
  <2>1. p \in Pep440 /\ q \in Pep440
    BY MappedVersion
  <2> HIDE DEF p, q
  <2> QED BY <2>1 DEF Pep440
<1>3. p.num.zeros = 0 /\ q.num.zeros = 0
  BY MappedVersion DEF Canonical
<1>4. p.num = q.num
  <2> HIDE DEF p, q
  <2>1. p.num = [value |-> p.num.value, zeros |-> p.num.zeros]
    BY <1>2 DEF Numeral
  <2>2. q.num = [value |-> q.num.value, zeros |-> q.num.zeros]
    BY <1>2 DEF Numeral
  <2> QED BY <1>1, <1>3, <2>1, <2>2
<1>5. \A x \in {"alpha", "beta", "rc"} :
        /\ PrereleaseLetter[x] # "none"
        /\ \A y \in {"alpha", "beta", "rc"} :
             PrereleaseLetter[x] = PrereleaseLetter[y] => x = y
  BY LettersApart
<1>6. v.hyphen = w.hyphen
  BY <1>1, <1>5, MappedVersion
<1>7. CASE ~v.hyphen
  BY <1>6, <1>7, MappedVersion
<1>8. CASE v.hyphen
  <2>1. /\ v.pre \in Seq(Identifier) /\ Len(v.pre) = 2 /\ w.pre \in Seq(Identifier) /\ Len(w.pre) = 2
        /\ v.pre[1] = [word |-> v.pre[1].word] /\ w.pre[1] = [word |-> w.pre[1].word]
        /\ v.pre[2] = [numeral |-> p.num] /\ w.pre[2] = [numeral |-> q.num]
        /\ v.pre[1].word \in {"alpha", "beta", "rc"} /\ w.pre[1].word \in {"alpha", "beta", "rc"}
        /\ p.letter = PrereleaseLetter[v.pre[1].word] /\ q.letter = PrereleaseLetter[w.pre[1].word]
    BY <1>6, <1>8, MappedVersion
  <2>2. v.pre[1].word = w.pre[1].word
    BY <1>1, <1>5, <2>1
  <2>3. v.pre[1] = w.pre[1] /\ v.pre[2] = w.pre[2]
    BY <1>4, <2>1, <2>2
  <2>4. v.pre = w.pre
    BY <2>1, <2>3
  <2> QED BY <1>6, <2>4
<1> QED BY <1>7, <1>8

\* The version that passed shares its Python release with no other prerelease.
THEOREM PassedVersionsApart == Spec => []PassedVersionsStayApart
<1>1. ASSUME Findings, Passed, NEW v \in Versions, Maps(v),
             SameRelease(RustToPep440(v), RustToPep440(Rust))
      PROVE  v.pre = Rust.pre /\ v.hyphen = Rust.hyphen
  BY <1>1, PassedTree, SpellingsStayApart
<1>2. Findings => PassedVersionsStayApart
  BY <1>1 DEF PassedVersionsStayApart
<1> QED BY <1>2, FindingsCorrect, PTL
=============================================================================
