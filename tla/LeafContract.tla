----------------------------- MODULE LeafContract -----------------------------
(***************************************************************************)
(* What src/scripts/check-leaf-deps.sh promises: that it finds, in what    *)
(* `cargo metadata` says, the packages the crate's own package depends on, *)
(* directly or not, and names those that do not come from the registry.    *)
(* In which order it comes to know them is left open.                      *)
(***************************************************************************)
EXTENDS Sequences, Functions

CONSTANTS
  Package,    \* the package ids in the metadata
  Metadatas   \* the metadata under consideration

\* Whether there is a resolve graph, the packages with the crate's name, each
\* package's dependencies in the order of its node, and the packages whose
\* source is the registry.
Metadata ==
  [resolved : BOOLEAN, named : SUBSET Package,
   deps : [Package -> Seq(Package)], registry : SUBSET Package]

VARIABLES
  metadata,   \* the graph
  known,      \* the packages found so far
  outcome     \* the answer, Pending until there is one

vars == <<metadata, known, outcome>>

Pending == [kind |-> "Pending"]
Refused == [kind |-> "Refused"]
Leaf == [kind |-> "Leaf"]
NotLeaf(offenders) == [kind |-> "NotLeaf", offenders |-> offenders]

\* A graph to walk, and exactly one package to start from.
Usable(m) == m.resolved /\ \E p \in Package : m.named = {p}

DependsOn(m, p) == Range(m.deps[p])

Closed(m, S) == \A p \in S : DependsOn(m, p) \subseteq S

\* The forward closure: what is in every closed set the core package is in.
\* Packages that depend on the core are not, unless it depends on them.
Closure(m) ==
  {p \in Package : \A S \in SUBSET Package : m.named \subseteq S /\ Closed(m, S) => p \in S}

\* The core itself is a local path, and no edge.
Offenders(m, S) == {p \in S : p \notin m.named /\ p \notin m.registry}

Judged(m, S) == IF Offenders(m, S) = {} THEN Leaf ELSE NotLeaf(Offenders(m, S))

Init ==
  /\ metadata \in Metadatas
  /\ known = {}
  /\ outcome = Pending

Refuse ==
  /\ outcome = Pending /\ ~Usable(metadata)
  /\ outcome' = Refused
  /\ UNCHANGED <<metadata, known>>

\* Find the core, or packages that known ones depend on.
Discover ==
  /\ outcome = Pending /\ Usable(metadata)
  /\ \E S \in SUBSET (metadata.named \cup UNION {DependsOn(metadata, p) : p \in known}) :
       known' = known \cup S
  /\ UNCHANGED <<metadata, outcome>>

Conclude ==
  /\ outcome = Pending /\ Usable(metadata)
  /\ metadata.named \subseteq known /\ Closed(metadata, known)
  /\ outcome' = Judged(metadata, known)
  /\ UNCHANGED <<metadata, known>>

Next == Refuse \/ Discover \/ Conclude

Spec == Init /\ [][Next]_vars
=============================================================================
