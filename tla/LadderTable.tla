----------------------------- MODULE LadderTable -----------------------------
(***************************************************************************)
(* Ladder::from_toml (src/src/table.rs): a source is decoded into the wire *)
(* document, the document's schema is checked, then its reserved list is   *)
(* taken apart into a first trigger and the rest, and the ladder is built. *)
(*                                                                         *)
(* What the toml and serde crates do with the text is external: of a       *)
(* source only what decides their answer is kept (is it TOML, has it an    *)
(* unknown key, which keys are there).  An optional value is a set of at   *)
(* most one element.                                                       *)
(***************************************************************************)
EXTENDS PrecedenceLadder

CONSTANTS
  Sources,      \* the sources under consideration
  SchemaLimit   \* one more than the largest schema number, 2^32 in the code

SCHEMA == 1

\* A source: `reserved` is a list in the text, and may repeat a trigger.
Source ==
  [is_toml : BOOLEAN, unknown_key : BOOLEAN,
   schema : SUBSET Int,
   fallthrough : SUBSET (SUBSET Trigger),
   hatch : SUBSET [action : Action, reserved : Seq(Trigger)],
   rung : SUBSET Seq(Rung)]

AtMostOne(S) == \A x, y \in S : x = y

ASSUME SchemaLimitAssumption == SchemaLimit \in Nat /\ SchemaLimit > SCHEMA
ASSUME SourcesAssumption ==
  \A s \in Sources :
    /\ s \in Source
    /\ AtMostOne(s.schema) /\ AtMostOne(s.fallthrough)
    /\ AtMostOne(s.hatch) /\ AtMostOne(s.rung)

VARIABLES
  source,   \* the argument
  pc,       \* "decode", "schema", "reserved", "build" or "returned"
  doc,      \* the decoded document, {} before there is one
  first,    \* the first reserved trigger, {} before it is taken
  result    \* the value returned

vars == <<source, pc, doc, first, result>>

NoResult == [kind |-> "None"]
ParseError == [kind |-> "Parse"]
SchemaError(n) == [kind |-> "Schema", found |-> n, expected |-> SCHEMA]
EmptyReserved == [kind |-> "EmptyReserved"]
Ok(l) == [kind |-> "Ok", ladder |-> l]

The(S) == CHOOSE x \in S : TRUE

OrElse(o, default) == IF o = {} THEN default ELSE The(o)

\* A slip (see below): any integer passes for a schema number.
HasShapeOfAnyInteger(src) ==
  src.is_toml /\ ~src.unknown_key /\ src.schema # {} /\ src.hatch # {}

\* The shape serde demands: known keys only, a schema that fits its integer
\* type, and a hatch.  The fallthrough set and the rungs have defaults.
HasShape(src) ==
  /\ src.is_toml /\ ~src.unknown_key
  /\ \E n \in src.schema : n \in 0 .. SchemaLimit - 1
  /\ src.hatch # {}

Decoded(src) ==
  [schema      |-> The(src.schema),
   fallthrough |-> OrElse(src.fallthrough, {}),
   hatch       |-> The(src.hatch),
   rung        |-> OrElse(src.rung, <<>>)]

Init ==
  /\ source \in Sources
  /\ pc = "decode"
  /\ doc = {} /\ first = {}
  /\ result = NoResult

Return(r) ==
  /\ result' = r
  /\ pc' = "returned"
  /\ UNCHANGED <<source, doc, first>>

-----------------------------------------------------------------------------
(* Slips a change of the loader could make (with HasShapeOfAnyInteger, a   *)
(* schema read without its width): the hatch judged before the schema, the *)
(* rest of the reserved list or its first element dropped.  No part of the *)
(* specification.                                                          *)

FailEmptyReservedFirst ==
  /\ pc \in {"schema", "reserved"} /\ The(doc).hatch.reserved = <<>>
  /\ Return(EmptyReserved)

TakeFirstAlone ==
  /\ pc = "reserved" /\ The(doc).hatch.reserved # <<>>
  /\ first' = {Head(The(doc).hatch.reserved)}
  /\ doc' = {[The(doc) EXCEPT !.hatch.reserved = <<>>]}
  /\ pc' = "build"
  /\ UNCHANGED <<source, result>>

BuildFromTheRest ==
  /\ pc = "build"
  /\ LET d == The(doc)
         h == [reserved |-> {d.hatch.reserved[i] : i \in DOMAIN d.hatch.reserved},
               action |-> d.hatch.action]
     IN  Return(Ok(NewLadder(h, d.rung, d.fallthrough)))

-----------------------------------------------------------------------------
(* The stages.                                                             *)

FailParse == pc = "decode" /\ ~HasShape(source) /\ Return(ParseError)

Decode ==
  /\ pc = "decode" /\ HasShape(source)
  /\ doc' = {Decoded(source)}
  /\ pc' = "schema"
  /\ UNCHANGED <<source, first, result>>

FailSchema ==
  /\ pc = "schema" /\ The(doc).schema # SCHEMA
  /\ Return(SchemaError(The(doc).schema))

AcceptSchema ==
  /\ pc = "schema" /\ The(doc).schema = SCHEMA
  /\ pc' = "reserved"
  /\ UNCHANGED <<source, doc, first, result>>

FailEmptyReserved ==
  /\ pc = "reserved" /\ The(doc).hatch.reserved = <<>>
  /\ Return(EmptyReserved)

\* The iterator yields its first element and is left with the rest.
TakeFirst ==
  /\ pc = "reserved" /\ The(doc).hatch.reserved # <<>>
  /\ first' = {Head(The(doc).hatch.reserved)}
  /\ doc' = {[The(doc) EXCEPT !.hatch.reserved = Tail(@)]}
  /\ pc' = "build"
  /\ UNCHANGED <<source, result>>

Build ==
  /\ pc = "build"
  /\ LET d == The(doc)
         h == NewHatch(d.hatch.action, The(first), d.hatch.reserved)
     IN  Return(Ok(NewLadder(h, d.rung, d.fallthrough)))

Next ==
  \/ FailParse \/ Decode
  \/ FailSchema \/ AcceptSchema
  \/ FailEmptyReserved \/ TakeFirst
  \/ Build

Spec == Init /\ [][Next]_vars

-----------------------------------------------------------------------------
(* Properties.                                                             *)

TypeOK ==
  /\ source \in Source
  /\ pc \in {"decode", "schema", "reserved", "build", "returned"}
  /\ AtMostOne(doc) /\ AtMostOne(first)
  /\ result \in {NoResult, ParseError, EmptyReserved}
       \/ (result.kind = "Schema" /\ result.found \in 0 .. SchemaLimit - 1)
       \/ (result.kind = "Ok" /\ result.ladder \in Ladder)

Loaded == result.kind = "Ok"

\* No door admits a vacuous hatch: whatever table is loaded, there is a trigger
\* the source itself reserves that escapes while work runs, whoever is live.
LoadedTableCanBeEscaped ==
  Loaded =>
    \E i \in DOMAIN The(source.hatch).reserved :
      \A c \in ClaimSet :
        Resolve(result.ladder, The(source.hatch).reserved[i],
                [claiming |-> c, work_running |-> TRUE]) = Escape(result.ladder)

\* Nothing the author wrote is lost or reordered on the way: every reserved
\* trigger is, the rungs keep their order, and absent keys mean empty.
LoadedTableIsTheSources ==
  Loaded =>
    /\ result.ladder.hatch.action = The(source.hatch).action
    /\ \A t \in Trigger :
         t \in result.ladder.hatch.reserved
           <=> \E i \in DOMAIN The(source.hatch).reserved :
                 The(source.hatch).reserved[i] = t
    /\ result.ladder.rungs = OrElse(source.rung, <<>>)
    /\ result.ladder.fallthrough = OrElse(source.fallthrough, {})

\* Which error wins when several apply: the shape before the schema, and the
\* schema before the empty hatch, so a table of a future schema is reported as
\* such and never judged by this version's rules; and only schema 1 loads.
ErrorPrecedence ==
  pc = "returned" =>
    /\ result = ParseError <=> ~HasShape(source)
    /\ result.kind = "Schema" <=> HasShape(source) /\ source.schema # {SCHEMA}
    /\ result.kind = "Schema" => source.schema = {result.found}
    /\ result = EmptyReserved <=>
         /\ HasShape(source) /\ source.schema = {SCHEMA}
         /\ The(source.hatch).reserved = <<>>
=============================================================================
