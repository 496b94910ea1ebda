------------------------------- MODULE GuardScan -------------------------------
(***************************************************************************)
(* The line scanner of the structural guard (production_lines of           *)
(* src/tests/guard.rs): it counts braces, arms at a line with              *)
(* `#[cfg(test)]` and skips from the next line that opens a brace until    *)
(* the brace is closed.  The lines it keeps are searched for what the      *)
(* crate must not use.                                                     *)
(*                                                                         *)
(* Of a line only what the scanner sees is kept (whether it has the        *)
(* attribute, and the braces it opens and closes) and, for the property,   *)
(* whether it belongs to an item outside tests.                            *)
(***************************************************************************)
EXTENDS Integers, Sequences

CONSTANT Sources   \* the source files under consideration, sequences of lines

VARIABLES
  source,   \* the lines of a file, strings and comments blanked
  at,       \* the line the loop is at
  depth,    \* braces open
  armed,    \* whether an item to skip is awaited
  skip,     \* the depth at which skipping ends, as a set of at most one
  out       \* the lines kept

vars == <<source, at, depth, armed, skip, out>>

Init ==
  /\ source \in Sources
  /\ at = 1 /\ depth = 0
  /\ armed = FALSE /\ skip = {} /\ out = {}

\* The end of each iteration, when skipping to one of `levels`.
Advance(levels) ==
  /\ depth' = depth + source[at].opens - source[at].closes
  /\ skip' = {level \in levels : depth' > level}
  /\ at' = at + 1
  /\ UNCHANGED source

Reading == at \in DOMAIN source

Arm ==
  /\ Reading /\ skip = {} /\ source[at].attr
  /\ armed' = TRUE
  /\ out' = out /\ Advance({})

BeginSkip ==
  /\ Reading /\ skip = {} /\ ~source[at].attr
  /\ armed /\ source[at].opens > 0
  /\ armed' = FALSE
  /\ out' = out /\ Advance({depth})

Keep ==
  /\ Reading /\ skip = {} /\ ~source[at].attr
  /\ ~(armed /\ source[at].opens > 0)
  /\ out' = out \cup {at}
  /\ armed' = armed /\ Advance({})

SkipLine ==
  /\ Reading /\ skip # {}
  /\ UNCHANGED <<armed, out>> /\ Advance(skip)

Next == Arm \/ BeginSkip \/ Keep \/ SkipLine

Spec == Init /\ [][Next]_vars

-----------------------------------------------------------------------------
(* What the comment on the scanner says of it.                             *)

\* src/tests/guard.rs:295 has the scanner return the production lines, every
\* `#[cfg(test)]` item skipped by brace depth: no line of an item outside tests
\* is left out of what is searched.
ProductionLinesAreScanned ==
  ~Reading => \A i \in DOMAIN source : source[i].production => i \in out
=============================================================================
