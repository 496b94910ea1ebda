------------------------------- MODULE LeafDeps -------------------------------
(***************************************************************************)
(* The leaf guard as it runs (src/scripts/check-leaf-deps.sh): it refuses  *)
(* metadata it cannot use, then walks the dependency graph with a stack    *)
(* from the crate's own package, and judges what it has seen.  A package   *)
(* can be on the stack several times, since it is looked up in `seen` when *)
(* it is taken off and not when it is put on.                              *)
(*                                                                         *)
(* The metadata comes from `cargo metadata --all-features`, whose resolve  *)
(* graph has a node for every package.                                     *)
(***************************************************************************)
EXTENDS SequencesExt

CONSTANTS
  Package,    \* the package ids in the metadata
  Metadatas   \* the metadata under consideration

VARIABLES
  metadata,   \* what `cargo metadata` printed
  pc,         \* "load", "walk" or "exited"
  seen,       \* the packages visited
  stack,      \* the packages to look at, the last one next
  outcome     \* how the script exits

vars == <<metadata, pc, seen, stack, outcome>>

\* What is known is what was visited or is waiting.
Contract == INSTANCE LeafContract WITH known <- seen \cup Range(stack)

Metadata == Contract!Metadata

ASSUME MetadatasAssumption == Metadatas \subseteq Metadata

Init ==
  /\ metadata \in Metadatas
  /\ pc = "load"
  /\ seen = {} /\ stack = <<>>
  /\ outcome = Contract!Pending

Exit(o) ==
  /\ outcome' = o
  /\ pc' = "exited"
  /\ UNCHANGED <<metadata, seen, stack>>

-----------------------------------------------------------------------------
(* Slips a change of the script could make, no part of the specification:  *)
(* a package of the name taken though there are two, a walk that stops at  *)
(* the first package it has seen, one that does not take it off, and one   *)
(* that leaves out the first dependency of each package.                   *)

StartFromAny ==
  /\ pc = "load" /\ metadata.resolved /\ metadata.named # {}
  /\ stack' = <<CHOOSE p \in metadata.named : TRUE>>
  /\ pc' = "walk"
  /\ UNCHANGED <<metadata, seen, outcome>>

BreakAtSeen ==
  /\ pc = "walk" /\ stack # <<>> /\ Last(stack) \in seen
  /\ stack' = <<>>
  /\ UNCHANGED <<metadata, pc, seen, outcome>>

LeaveSeen ==
  /\ pc = "walk" /\ stack # <<>> /\ Last(stack) \in seen
  /\ UNCHANGED vars

VisitAllButFirst ==
  /\ pc = "walk" /\ stack # <<>> /\ Last(stack) \notin seen
  /\ seen' = seen \cup {Last(stack)}
  /\ LET deps == metadata.deps[Last(stack)]
     IN  stack' = Front(stack) \o SubSeq(deps, 2, Len(deps))
  /\ UNCHANGED <<metadata, pc, outcome>>

-----------------------------------------------------------------------------
(* The script.                                                             *)

\* No resolve graph, or not exactly one package of the name.
RefuseMetadata ==
  /\ pc = "load"
  /\ ~metadata.resolved \/ ~(\E p \in Package : metadata.named = {p})
  /\ Exit(Contract!Refused)

Start ==
  /\ pc = "load" /\ metadata.resolved
  /\ \E p \in Package : metadata.named = {p} /\ stack' = <<p>>
  /\ pc' = "walk"
  /\ UNCHANGED <<metadata, seen, outcome>>

SkipSeen ==
  /\ pc = "walk" /\ stack # <<>> /\ Last(stack) \in seen
  /\ stack' = Front(stack)
  /\ UNCHANGED <<metadata, pc, seen, outcome>>

Visit ==
  /\ pc = "walk" /\ stack # <<>> /\ Last(stack) \notin seen
  /\ seen' = seen \cup {Last(stack)}
  /\ stack' = Front(stack) \o metadata.deps[Last(stack)]
  /\ UNCHANGED <<metadata, pc, outcome>>

Judge ==
  /\ pc = "walk" /\ stack = <<>>
  /\ Exit(Contract!Judged(metadata, seen))

Next == RefuseMetadata \/ Start \/ SkipSeen \/ Visit \/ Judge

Safety == Init /\ [][Next]_vars

\* The script runs to its end, or is killed and has no say.
Spec == Safety /\ WF_vars(Next)

-----------------------------------------------------------------------------
(* Properties.                                                             *)

TypeOK ==
  /\ metadata \in Metadata
  /\ pc \in {"load", "walk", "exited"}
  /\ seen \subseteq Package /\ stack \in Seq(Package)

\* Why the walk is right: what it has come to is in the closure, and what a
\* visited package depends on is visited or on the stack.
WalkInv ==
  LET met == seen \cup Range(stack) IN
  /\ met \subseteq Contract!Closure(metadata)
  /\ pc = "load" => met = {}
  /\ pc = "walk" =>
       /\ Contract!Usable(metadata)
       /\ metadata.named \subseteq met
       /\ \A p \in seen : Contract!DependsOn(metadata, p) \subseteq met
  /\ pc # "exited" => outcome = Contract!Pending
  /\ pc = "exited" =>
       IF Contract!Usable(metadata)
       THEN outcome = Contract!Judged(metadata, Contract!Closure(metadata))
       ELSE outcome = Contract!Refused

\* The guard is exact over graphs with shared nodes and cycles: it passes when
\* all that the core reaches is from the registry, names every package that is
\* not and no other (a package that depends on the core is none of its
\* business), and never passes metadata that it cannot use.
GuardIsExact ==
  pc = "exited" =>
    /\ outcome = Contract!Refused <=> ~Contract!Usable(metadata)
    /\ Contract!Usable(metadata) =>
         outcome = Contract!Judged(metadata, Contract!Closure(metadata))

\* The walk is one way to do what the script promises: visits are discoveries
\* of what a visited package depends on, or invisible.
ImplementsContract == Contract!Spec

\* The walk ends, also on a cyclic graph, where a package is met again and again.
WalkEnds == <>(pc = "exited")
=============================================================================
