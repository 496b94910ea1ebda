----------------------------- MODULE VerifyRelease -----------------------------
(***************************************************************************)
(* The version check of a release (src/scripts/verify_release.py): verify  *)
(* reads the version declarations of the tree, and if all can be read it   *)
(* compares the manifests, the lockfile, the Python version and the tag,   *)
(* collecting every problem.  The release gate passes when there is none.  *)
(*                                                                         *)
(* A version is what its regular expressions see: the parts of the core    *)
(* and of a prerelease, each a numeral (a value and how many zeros lead    *)
(* it) or a word, and build metadata.                                      *)
(***************************************************************************)
EXTENDS Naturals, Sequences, FiniteSets

CONSTANTS
  Words,      \* what a part can be, beside a numeral
  Versions,   \* the version strings under consideration
  Peps,       \* the Python versions under consideration
  Trees,      \* the trees under consideration
  Tags        \* the tags under consideration: a version, after a "v" or bare

Numeral == [value : Nat, zeros : Nat]

\* Alpha, beta and rc are the words with a PEP 440 letter.
PrereleaseLetter == [alpha |-> "a", beta |-> "b", rc |-> "rc"]

NumberPart == [numeral : Numeral]

Identifier == [word : Words] \cup NumberPart

\* The parts between the dots, before and after the first hyphen; no hyphen is
\* no prerelease at all.
Version ==
  {v \in [core : Seq(Identifier), hyphen : BOOLEAN, pre : Seq(Identifier), build : BOOLEAN] :
     ~v.hyphen => v.pre = <<>>}

Pep440 ==
  [core : Seq(NumberPart), letter : {"none", "a", "b", "rc"}, num : Numeral]

NoNumber == [value |-> 0, zeros |-> 0]

\* A tag: "v" and a version, or something else.
Tag == [prefix : {"v", ""}, version : Version]

TagOf(v) == [prefix |-> "v", version |-> v]

\* A manifest: not there, there but not text (no UTF-8), there but without a
\* version that can be read (broken TOML, no such key, not a string), or with one.
Missing == [kind |-> "Missing"]
NotText == [kind |-> "NotText"]
Unreadable == [kind |-> "Unreadable"]
Declares(v) == [kind |-> "Declares", version |-> v]

\* A tree: its two Rust manifests and its Python one, whether the crate's name
\* can be read, and the versions the lockfile records under that name.
Manifest(S) == {Missing, NotText, Unreadable} \cup [kind : {"Declares"}, version : S]

Tree ==
  [cargo : Manifest(Versions), py : Manifest(Versions), pyproject : Manifest(Peps),
   named : BOOLEAN, lock : Manifest(Seq(Versions))]

ASSUME VersionsAssumption == Versions \subseteq Version /\ Tags \subseteq Tag
ASSUME WordsAssumption == {"alpha", "beta", "rc"} \subseteq Words
ASSUME TreesAssumption == \A t \in Trees : t \in Tree

VARIABLES
  tree,         \* the repository root
  tag,          \* the tag to check, {} for none
  requireAll,   \* the flag --require-all
  pc,           \* "read", "manifests", "lock", "python", "tag", "returned", or
                \* "raised" when an error got through
  problems      \* what has been found wrong

vars == <<tree, tag, requireAll, pc, problems>>

-----------------------------------------------------------------------------
(* The mapping.                                                            *)

CoreMatches(v) ==
  Len(v.core) = 3 /\ \A i \in DOMAIN v.core : "numeral" \in DOMAIN v.core[i]

\* word.numeral, the word one with a letter.
PreMatches(v) ==
  /\ Len(v.pre) = 2
  /\ "word" \in DOMAIN v.pre[1] /\ v.pre[1].word \in DOMAIN PrereleaseLetter
  /\ "numeral" \in DOMAIN v.pre[2]

Canonical(n) == n.zeros = 0

\* A slip, no part of the model: the zeros before the prerelease number pass.
MapsAnyNumber(v) ==
  ~v.build /\ CoreMatches(v) /\ (v.hyphen => PreMatches(v))

\* rust_to_pep440 raises for every other version.
Maps(v) ==
  /\ ~v.build
  /\ CoreMatches(v)
  /\ v.hyphen => PreMatches(v) /\ Canonical(v.pre[2].numeral)

\* int() drops the zeros; the numeral is printed as it was matched.
RustToPep440(v) ==
  IF v.hyphen
  THEN [core |-> v.core, letter |-> PrereleaseLetter[v.pre[1].word],
        num |-> v.pre[2].numeral]
  ELSE [core |-> v.core, letter |-> "none", num |-> NoNumber]

\* Two PEP 440 spellings name one release when they differ in zeros only.
SameRelease(p, q) ==
  /\ p.letter = q.letter /\ p.num.value = q.num.value
  /\ Len(p.core) = Len(q.core)
  /\ \A i \in DOMAIN p.core : p.core[i].numeral.value = q.core[i].numeral.value

-----------------------------------------------------------------------------
(* The check.                                                              *)

Init ==
  /\ tree \in Trees
  /\ tag \in {{}} \cup {{t} : t \in Tags}
  /\ requireAll \in BOOLEAN
  /\ pc = "read"
  /\ problems = {}

Manifests == {"cargo", "py", "pyproject"}

\* A slip, no part of the specification: none is required, unless all are.
SkippedIfMissing(m) == tree[m] = Missing /\ ~requireAll

\* Only the root manifest is required, unless all are.
Skipped(m) == tree[m] = Missing /\ m # "cargo" /\ ~requireAll

\* What cannot be read, for an error that verify collects or for another.
ReadErrors == {m \in Manifests : ~Skipped(m) /\ tree[m].kind # "Declares"}

Found(step, next, wrong) ==
  /\ pc = step
  /\ problems' = problems \cup wrong
  /\ pc' = next
  /\ UNCHANGED <<tree, tag, requireAll>>

If(condition, problem) == IF condition THEN {problem} ELSE {}

\* Decoding raises an error that verify does not catch: what it has found so far
\* is not returned, and the script exits in error.
Raise ==
  /\ \/ pc = "read" /\ \E m \in Manifests : tree[m] = NotText
     \/ pc = "lock" /\ tree.named /\ tree.lock = NotText
  /\ pc' = "raised" /\ problems' = {}
  /\ UNCHANGED <<tree, tag, requireAll>>

FailRead ==
  /\ ReadErrors # {} /\ \A m \in Manifests : tree[m] # NotText
  /\ Found("read", "returned", ReadErrors)

ReadAll == ReadErrors = {} /\ Found("read", "manifests", {})

Rust == tree.cargo.version

\* A slip, no part of the specification: it returns when the manifests were
\* compared, as if nothing could follow a disagreement.
CompareManifestsAndReturn ==
  LET disagrees == tree.py.kind = "Declares" /\ tree.py.version # Rust
  IN  Found("manifests", IF disagrees THEN "returned" ELSE "lock",
            If(disagrees, "py disagrees"))

CompareManifests ==
  Found("manifests", "lock",
        If(tree.py.kind = "Declares" /\ tree.py.version # Rust, "py disagrees"))

\* A slip, no part of the specification: any entry of the name may agree.
CompareSomeLockEntry ==
  Found("lock", "python",
        If(~(/\ tree.named /\ tree.lock.kind = "Declares"
             /\ \E i \in DOMAIN tree.lock.version : tree.lock.version[i] = Rust),
           "lock unusable"))

\* The lockfile must name this crate, and once.
LockReadable == tree.named /\ tree.lock.kind = "Declares" /\ Len(tree.lock.version) = 1

CompareLock ==
  /\ tree.named => tree.lock # NotText
  /\ Found("lock", "python",
           If(~LockReadable, "lock unusable")
             \cup If(LockReadable /\ tree.lock.version[1] # Rust, "lock stale"))

\* The mapping is checked even when there is no Python version.
ComparePython ==
  Found("python", "tag",
        If(~Maps(Rust), "version unsupported")
          \cup If(/\ tree.pyproject.kind = "Declares"
                  /\ Maps(Rust) /\ tree.pyproject.version # RustToPep440(Rust),
                  "pyproject disagrees"))

CompareTag ==
  Found("tag", "returned", If(\E t \in tag : t # TagOf(Rust), "tag disagrees"))

Next ==
  \/ Raise \/ FailRead \/ ReadAll
  \/ CompareManifests \/ CompareLock \/ ComparePython \/ CompareTag

Spec == Init /\ [][Next]_vars

-----------------------------------------------------------------------------
(* Properties.                                                             *)

Problem ==
  Manifests \cup {"py disagrees", "lock unusable", "lock stale", "version unsupported",
                  "pyproject disagrees", "tag disagrees"}

\* Past the reads there is a root version to compare with (a lookup that would
\* raise otherwise), and what is reported is a problem.
TypeOK ==
  /\ tree \in Trees /\ tag \subseteq Tags /\ requireAll \in BOOLEAN
  /\ pc \in {"read", "manifests", "lock", "python", "tag", "returned", "raised"}
  /\ pc \in {"manifests", "lock", "python", "tag"} => tree.cargo.kind = "Declares"
  /\ problems \subseteq Problem

Passed == pc = "returned" /\ problems = {}

\* What the gate lets through has one version throughout, the lockfile's
\* included, so `cargo publish --locked` cannot fail at the last step because they
\* differ; and the Python release and the tag are that version's.  A version
\* that has no PEP 440 spelling is refused, though the Python package that needs
\* one may come later.  Zeros in the core are not tested, here or in the script.
PassedIsConsistent ==
  Passed =>
    /\ tree.cargo.kind = "Declares" /\ tree.lock = Declares(<<Rust>>)
    /\ tree.py \in {Missing, Declares(Rust)}
    /\ tree.pyproject \in {Missing, Declares(RustToPep440(Rust))}
    /\ tag \subseteq {TagOf(Rust)}
    /\ requireAll => Missing \notin {tree.py, tree.pyproject}
    /\ ~Rust.build /\ Len(Rust.core) = 3
    /\ RustToPep440(Rust) \in Pep440 /\ Canonical(RustToPep440(Rust).num)

\* No two versions that pass are one Python release but for the zeros of their
\* cores: the prerelease number cannot be spelled in two ways.
PassedVersionsStayApart ==
  Passed =>
    \A v \in Versions :
      Maps(v) /\ SameRelease(RustToPep440(v), RustToPep440(Rust)) =>
        v.pre = Rust.pre /\ v.hyphen = Rust.hyphen

\* Nothing consistent is refused, and one disagreement hides no other: as far as
\* the declarations can be read at all, each one is reported.
EveryDisagreementReported ==
  pc = "returned" /\ ReadErrors = {} =>
    /\ "py disagrees" \in problems <=> tree.py \notin {Missing, Declares(Rust)}
    /\ {"lock stale", "lock unusable"} \cap problems = {}
         <=> tree.named /\ tree.lock = Declares(<<Rust>>)
    /\ "tag disagrees" \in problems <=> ~(tag \subseteq {TagOf(Rust)})
    /\ {"version unsupported", "pyproject disagrees"} \cap problems = {}
         <=> Maps(Rust) /\ tree.pyproject \in {Missing, Declares(RustToPep440(Rust))}
=============================================================================
