--------------------------- MODULE LadderTableProofs ---------------------------
(***************************************************************************)
(* The loader is right for every source over any triggers, claimants and   *)
(* actions, of any length: it returns one function of the source, and that *)
(* function's errors come in their order and its tables can be escaped.    *)
(***************************************************************************)
EXTENDS LadderTable, SequenceTheorems, TLAPS

USE SchemaLimitAssumption, SourcesAssumption

-----------------------------------------------------------------------------
(* The inductive invariant.                                                *)

WireHatch == [action : Action, reserved : Seq(Trigger)]

\* The table a source that is accepted stands for.
TableOf(src) ==
  LET h == The(src.hatch)
  IN  NewLadder(NewHatch(h.action, Head(h.reserved), Tail(h.reserved)),
                OrElse(src.rung, <<>>), OrElse(src.fallthrough, {}))

\* The four answers, each with what the source must be for it.
Answered(src, r) ==
  \/ ~HasShape(src) /\ r = ParseError
  \/ /\ HasShape(src) /\ The(src.schema) # SCHEMA
     /\ r = SchemaError(The(src.schema))
  \/ /\ HasShape(src) /\ The(src.schema) = SCHEMA /\ The(src.hatch).reserved = <<>>
     /\ r = EmptyReserved
  \/ /\ HasShape(src) /\ The(src.schema) = SCHEMA /\ The(src.hatch).reserved # <<>>
     /\ r = Ok(TableOf(src))

\* The document when its first reserved trigger has been taken.
WithoutFirst(src) == [Decoded(src) EXCEPT !.hatch.reserved = Tail(@)]

\* What the document and the first trigger are of the source, stage by stage.
Stages ==
  /\ source \in Sources
  /\ pc \in {"decode", "schema", "reserved", "build", "returned"}
  /\ pc # "returned" => result = NoResult
  /\ pc = "decode" => doc = {} /\ first = {}
  /\ pc \in {"schema", "reserved"} =>
       HasShape(source) /\ doc = {Decoded(source)} /\ first = {}
  /\ pc = "reserved" => The(source.schema) = SCHEMA
  /\ pc = "build" =>
       /\ HasShape(source) /\ The(source.schema) = SCHEMA
       /\ The(source.hatch).reserved # <<>>
       /\ first = {Head(The(source.hatch).reserved)}
       /\ doc = {WithoutFirst(source)}
  /\ pc = "returned" => AtMostOne(doc) /\ AtMostOne(first) /\ Answered(source, result)

-----------------------------------------------------------------------------
(* Lemmas.                                                                 *)

\* The element of a set of one.
LEMMA TheOnly ==
  ASSUME NEW x
  PROVE  The({x}) = x /\ AtMostOne({x}) /\ AtMostOne({})
BY DEF The, AtMostOne

\* An optional value that is there is the one in its set.
LEMMA TheOneThere ==
  ASSUME NEW S, AtMostOne(S), S # {}
  PROVE  The(S) \in S /\ S = {The(S)}
<1>1. PICK x : x \in S
  OBVIOUS
<1>2. The(S) \in S
  BY <1>1 DEF The
<1> QED BY <1>2 DEF AtMostOne

\* What the decoded document of a source of the right shape is made of.
LEMMA DecodedIs ==
  ASSUME NEW s \in Sources, HasShape(s)
  PROVE  /\ s.schema = {The(s.schema)} /\ The(s.schema) \in 0 .. SchemaLimit - 1
         /\ The(s.hatch) \in WireHatch
         /\ OrElse(s.rung, <<>>) \in Seq(Rung)
         /\ OrElse(s.fallthrough, {}) \in SUBSET Trigger
<1>1. /\ s \in Source /\ AtMostOne(s.schema) /\ AtMostOne(s.fallthrough)
      /\ AtMostOne(s.hatch) /\ AtMostOne(s.rung)
  OBVIOUS
<1>2. /\ s.fallthrough \subseteq SUBSET Trigger /\ s.hatch \subseteq WireHatch
      /\ s.rung \subseteq Seq(Rung)
  BY <1>1 DEF Source, WireHatch
<1>3. s.schema = {The(s.schema)} /\ The(s.schema) \in 0 .. SchemaLimit - 1
  <2>1. PICK n \in s.schema : n \in 0 .. SchemaLimit - 1
    BY DEF HasShape
  <2>2. s.schema = {The(s.schema)}
    BY <1>1, <2>1, TheOneThere
  <2> QED BY <2>1, <2>2
<1>4. The(s.hatch) \in WireHatch
  <2>1. s.hatch # {}
    BY DEF HasShape
  <2> QED BY <1>1, <1>2, <2>1, TheOneThere
<1>5. OrElse(s.rung, <<>>) \in Seq(Rung)
  <2>1. CASE s.rung = {}
    <3>1. <<>> \in Seq(Rung)
      OBVIOUS
    <3> QED BY <2>1, <3>1 DEF OrElse
  <2>2. CASE s.rung # {}
    BY <1>1, <1>2, <2>2, TheOneThere DEF OrElse
  <2> QED BY <2>1, <2>2
<1>6. OrElse(s.fallthrough, {}) \in SUBSET Trigger
  <2>1. CASE s.fallthrough = {}
    BY <2>1 DEF OrElse
  <2>2. CASE s.fallthrough # {}
    BY <1>1, <1>2, <2>2, TheOneThere DEF OrElse
  <2> QED BY <2>1, <2>2
<1> QED BY <1>3, <1>4, <1>5, <1>6

\* Splitting a list into its first element and the rest loses none.
LEMMA HeadAndTail ==
  ASSUME NEW s \in Seq(Trigger), s # <<>>
  PROVE  /\ Head(s) \in Trigger /\ Tail(s) \in Seq(Trigger)
         /\ {Head(s)} \cup {Tail(s)[i] : i \in DOMAIN Tail(s)} = {s[i] : i \in DOMAIN s}
<1>1. /\ Head(s) = s[1] /\ 1 \in DOMAIN s
      /\ Head(s) \in Trigger /\ Tail(s) \in Seq(Trigger) /\ Len(Tail(s)) = Len(s) - 1
      /\ \A i \in 1 .. Len(s) - 1 : Tail(s)[i] = s[i + 1]
  BY HeadTailProperties
<1>2. \A i \in DOMAIN Tail(s) : i + 1 \in DOMAIN s /\ Tail(s)[i] = s[i + 1]
  BY <1>1
<1>3. \A i \in DOMAIN s : i = 1 \/ (i - 1 \in DOMAIN Tail(s) /\ Tail(s)[i - 1] = s[i])
  BY <1>1
<1>4. ASSUME NEW i \in DOMAIN s
      PROVE  s[i] \in {Head(s)} \cup {Tail(s)[k] : k \in DOMAIN Tail(s)}
  <2>1. CASE i = 1
    BY <1>1, <2>1
  <2>2. CASE i # 1
    BY <1>3, <2>2
  <2> QED BY <2>1, <2>2
<1>5. ASSUME NEW i \in DOMAIN Tail(s)
      PROVE  Tail(s)[i] \in {s[k] : k \in DOMAIN s}
  BY <1>2
<1> QED BY <1>1, <1>4, <1>5

\* The table of an accepted source is a ladder, and it is the source's.
LEMMA TableOfIs ==
  ASSUME NEW s \in Sources, HasShape(s), The(s.hatch).reserved # <<>>
  PROVE  /\ TableOf(s) \in Ladder
         /\ TableOf(s).hatch.action = The(s.hatch).action
         /\ TableOf(s).hatch.reserved =
              {The(s.hatch).reserved[i] : i \in DOMAIN The(s.hatch).reserved}
         /\ TableOf(s).rungs = OrElse(s.rung, <<>>)
         /\ TableOf(s).fallthrough = OrElse(s.fallthrough, {})
<1> DEFINE h == The(s.hatch)
           res == {h.reserved[i] : i \in DOMAIN h.reserved}
           hatch == NewHatch(h.action, Head(h.reserved), Tail(h.reserved))
<1>1. h \in WireHatch /\ h.action \in Action /\ h.reserved \in Seq(Trigger)
  <2>1. h \in WireHatch
    BY DecodedIs
  <2> QED BY <2>1 DEF WireHatch
<1>2. hatch = [reserved |-> res, action |-> h.action]
  BY <1>1, HeadAndTail DEF NewHatch
<1>3. res \subseteq Trigger /\ res # {}
  <2>1. 1 \in DOMAIN h.reserved /\ \A i \in DOMAIN h.reserved : h.reserved[i] \in Trigger
    BY <1>1
  <2> HIDE DEF h
  <2> QED BY <2>1
<1> HIDE DEF res
<1>4. hatch \in Hatch /\ hatch.action = h.action /\ hatch.reserved = res
  BY <1>1, <1>2, <1>3 DEF Hatch
<1> HIDE DEF hatch
<1>5. TableOf(s) = [hatch |-> hatch, rungs |-> OrElse(s.rung, <<>>),
                    fallthrough |-> OrElse(s.fallthrough, {})]
  BY DEF TableOf, NewLadder, hatch
<1>6. OrElse(s.rung, <<>>) \in Seq(Rung) /\ OrElse(s.fallthrough, {}) \in SUBSET Trigger
  BY DecodedIs
<1> QED BY <1>4, <1>5, <1>6 DEF Ladder, res

-----------------------------------------------------------------------------
(* The theorems.                                                           *)

\* Until the first trigger is taken the document is the source, decoded.
LEMMA DocIs ==
  ASSUME Stages, pc \in {"schema", "reserved"}
  PROVE  /\ HasShape(source) /\ The(doc) = Decoded(source)
         /\ The(doc).schema = The(source.schema) /\ The(doc).hatch = The(source.hatch)
<1>1. HasShape(source) /\ doc = {Decoded(source)}
  BY DEF Stages
<1>2. The(doc) = Decoded(source)
  BY <1>1, TheOnly
<1> QED BY <1>1, <1>2 DEF Decoded

\* Each stage leaves the document, the first trigger and at last the answer as
\* the source determines them.
LEMMA StepStages == Stages /\ [Next]_vars => Stages'
<1> SUFFICES ASSUME Stages, [Next]_vars
             PROVE  Stages'
  OBVIOUS
<1> USE DEF Stages
<1>1. CASE FailParse
  BY <1>1, TheOnly DEF FailParse, Return, Answered
<1>2. CASE Decode
  BY <1>2 DEF Decode
<1>3. CASE FailSchema
  <2>1. HasShape(source) /\ The(doc).schema = The(source.schema)
    BY <1>3, DocIs DEF FailSchema
  <2>2. Answered(source, SchemaError(The(source.schema)))
    BY <1>3, <2>1 DEF FailSchema, Answered
  <2> QED BY <1>3, <2>1, <2>2, TheOnly DEF FailSchema, Return
<1>4. CASE AcceptSchema
  <2>1. The(doc).schema = The(source.schema)
    BY <1>4, DocIs DEF AcceptSchema
  <2> QED BY <1>4, <2>1 DEF AcceptSchema
<1>5. CASE FailEmptyReserved
  <2>1. The(doc).hatch.reserved = The(source.hatch).reserved
    BY <1>5, DocIs DEF FailEmptyReserved
  <2>2. Answered(source, EmptyReserved)
    BY <1>5, <2>1 DEF FailEmptyReserved, Answered
  <2> QED BY <1>5, <2>2, TheOnly DEF FailEmptyReserved, Return
<1>6. CASE TakeFirst
  <2>1. /\ HasShape(source) /\ The(doc) = Decoded(source)
        /\ The(doc).hatch.reserved = The(source.hatch).reserved
    BY <1>6, DocIs DEF TakeFirst
  <2>2. /\ The(source.hatch).reserved # <<>> /\ pc = "reserved" /\ pc' = "build"
        /\ first' = {Head(The(source.hatch).reserved)}
        /\ doc' = {WithoutFirst(source)} /\ UNCHANGED <<source, result>>
    BY <1>6, <2>1 DEF TakeFirst, WithoutFirst
  <2>3. The(source.schema) = SCHEMA
    BY <2>2
  <2> QED BY <2>1, <2>2, <2>3
<1>7. CASE Build
  <2> DEFINE d == Decoded(source)
             h == The(source.hatch)
             rest == WithoutFirst(source)
  <2>1. /\ HasShape(source) /\ The(source.schema) = SCHEMA /\ h.reserved # <<>>
        /\ The(doc) = rest /\ The(first) = Head(h.reserved) /\ h \in WireHatch
    BY <1>7, TheOnly, DecodedIs DEF Build
  <2>2. /\ rest.hatch.action = h.action /\ rest.hatch.reserved = Tail(h.reserved)
        /\ rest.rung = OrElse(source.rung, <<>>)
        /\ rest.fallthrough = OrElse(source.fallthrough, {})
    <3>1. d.hatch = h /\ h = [action |-> h.action, reserved |-> h.reserved]
      BY <2>1 DEF Decoded, WireHatch
    <3> QED BY <3>1 DEF Decoded, WithoutFirst
  <2> HIDE DEF rest
  <2>3. Return(Ok(TableOf(source)))
    BY <1>7, <2>1, <2>2 DEF Build, TableOf
  <2>4. Answered(source, Ok(TableOf(source)))
    BY <2>1 DEF Answered
  <2>5. /\ pc' = "returned" /\ result' = Ok(TableOf(source)) /\ UNCHANGED <<source, doc, first>>
        /\ pc = "build"
    BY <1>7, <2>3 DEF Build, Return
  <2>6. AtMostOne(doc) /\ AtMostOne(first)
    BY <2>5, TheOnly
  <2> QED BY <2>4, <2>5, <2>6
<1>8. CASE UNCHANGED vars
  BY <1>8 DEF vars
<1> QED BY <1>1, <1>2, <1>3, <1>4, <1>5, <1>6, <1>7, <1>8 DEF Next

\* Stage by stage the loader's state is a function of the source, and so is its
\* answer: nothing of one stage's failure leaks into another's.
THEOREM StagesCorrect == Spec => []Stages
<1>1. Init => Stages
  BY DEF Init, Stages
<1> QED BY <1>1, StepStages, PTL DEF Spec

\* The kinds of answer are apart, so that an answer tells its case.
LEMMA AnswersApart ==
  /\ NoResult.kind = "None" /\ ParseError.kind = "Parse" /\ EmptyReserved.kind = "EmptyReserved"
  /\ \A n : SchemaError(n).kind = "Schema" /\ SchemaError(n).found = n
  /\ \A l : Ok(l).kind = "Ok" /\ Ok(l).ladder = l
BY DEF NoResult, ParseError, EmptyReserved, SchemaError, Ok

\* What is loaded is the table the source stands for.
LEMMA LoadedIs ==
  ASSUME Stages, Loaded
  PROVE  /\ source \in Sources /\ HasShape(source) /\ The(source.hatch).reserved # <<>>
         /\ result = Ok(TableOf(source)) /\ result.ladder = TableOf(source)
<1>1. pc = "returned" /\ Answered(source, result)
  BY AnswersApart DEF Stages, Loaded
<1>2. result = Ok(TableOf(source)) /\ HasShape(source) /\ The(source.hatch).reserved # <<>>
  BY <1>1, AnswersApart DEF Answered, Loaded
<1> QED BY <1>2, AnswersApart DEF Stages

\* The document and the first trigger are optional, and the answer is one of the
\* three errors, with a schema number of the code's width, or a ladder.
THEOREM TypeCorrect == Spec => []TypeOK
<1>1. ASSUME Stages
      PROVE  TypeOK
  <2>1. source \in Source
    BY <1>1 DEF Stages
  <2>2. AtMostOne(doc) /\ AtMostOne(first)
    BY <1>1, TheOnly DEF Stages
  <2>3. \/ result \in {NoResult, ParseError, EmptyReserved}
        \/ (result.kind = "Schema" /\ result.found \in 0 .. SchemaLimit - 1)
        \/ (result.kind = "Ok" /\ result.ladder \in Ladder)
    <3>1. CASE pc # "returned"
      BY <1>1, <3>1 DEF Stages
    <3>2. CASE pc = "returned"
      BY <1>1, <3>2, DecodedIs, TableOfIs, AnswersApart DEF Stages, Answered
    <3> QED BY <3>1, <3>2
  <2> QED BY <1>1, <2>1, <2>2, <2>3 DEF Stages, TypeOK
<1> QED BY <1>1, StagesCorrect, PTL

\* No door admits a vacuous hatch: a loaded table has a trigger its own source
\* reserves that escapes while work runs, whichever claimants are live.
THEOREM TablesCanBeEscaped == Spec => []LoadedTableCanBeEscaped
<1>1. ASSUME Stages, Loaded
      PROVE  \E i \in DOMAIN The(source.hatch).reserved :
               \A c \in ClaimSet :
                 Resolve(result.ladder, The(source.hatch).reserved[i],
                         [claiming |-> c, work_running |-> TRUE]) = Escape(result.ladder)
  <2> DEFINE res == The(source.hatch).reserved
  <2>1. source \in Sources /\ HasShape(source) /\ res # <<>> /\ result.ladder = TableOf(source)
    BY <1>1, LoadedIs
  <2>2. res \in Seq(Trigger)
    BY <2>1, DecodedIs DEF WireHatch
  <2>3. 1 \in DOMAIN res
    BY <2>1, <2>2
  <2>4. res[1] \in result.ladder.hatch.reserved
    BY <2>1, <2>3, TableOfIs
  <2> QED BY <2>3, <2>4 DEF Resolve, HatchFires
<1> QED BY <1>1, StagesCorrect, PTL DEF LoadedTableCanBeEscaped

\* Nothing the author wrote is lost or reordered on the way into the ladder.
THEOREM TablesAreTheSources == Spec => []LoadedTableIsTheSources
<1>1. ASSUME Stages, Loaded
      PROVE  /\ result.ladder.hatch.action = The(source.hatch).action
             /\ \A t \in Trigger :
                  t \in result.ladder.hatch.reserved
                    <=> \E i \in DOMAIN The(source.hatch).reserved :
                          The(source.hatch).reserved[i] = t
             /\ result.ladder.rungs = OrElse(source.rung, <<>>)
             /\ result.ladder.fallthrough = OrElse(source.fallthrough, {})
  <2>1. /\ result.ladder.hatch.action = The(source.hatch).action
        /\ result.ladder.hatch.reserved =
             {The(source.hatch).reserved[i] : i \in DOMAIN The(source.hatch).reserved}
        /\ result.ladder.rungs = OrElse(source.rung, <<>>)
        /\ result.ladder.fallthrough = OrElse(source.fallthrough, {})
    BY <1>1, LoadedIs, TableOfIs
  <2> QED BY <2>1
<1> QED BY <1>1, StagesCorrect, PTL DEF LoadedTableIsTheSources

\* Which error wins when several apply, and that only schema 1 loads.
THEOREM ErrorsInOrder == Spec => []ErrorPrecedence
<1>1. ASSUME Stages, pc = "returned"
      PROVE  /\ result = ParseError <=> ~HasShape(source)
             /\ result.kind = "Schema" <=> HasShape(source) /\ source.schema # {SCHEMA}
             /\ result.kind = "Schema" => source.schema = {result.found}
             /\ result = EmptyReserved <=>
                  /\ HasShape(source) /\ source.schema = {SCHEMA}
                  /\ The(source.hatch).reserved = <<>>
  <2>1. source \in Sources /\ Answered(source, result)
    BY <1>1 DEF Stages
  <2>2. HasShape(source) => source.schema = {The(source.schema)}
    BY <2>1, DecodedIs
  <2>3. HasShape(source) => (source.schema = {SCHEMA} <=> The(source.schema) = SCHEMA)
    BY <2>2, TheOnly
  <2>4. CASE ~HasShape(source)
    BY <2>1, <2>4, AnswersApart DEF Answered
  <2>5. CASE HasShape(source) /\ The(source.schema) # SCHEMA
    BY <2>1, <2>2, <2>3, <2>5, AnswersApart DEF Answered
  <2>6. CASE /\ HasShape(source) /\ The(source.schema) = SCHEMA
             /\ The(source.hatch).reserved = <<>>
    BY <2>1, <2>3, <2>6, AnswersApart DEF Answered
  <2>7. CASE /\ HasShape(source) /\ The(source.schema) = SCHEMA
             /\ The(source.hatch).reserved # <<>>
    BY <2>1, <2>3, <2>7, AnswersApart DEF Answered
  <2> QED BY <2>4, <2>5, <2>6, <2>7
<1> QED BY <1>1, StagesCorrect, PTL DEF ErrorPrecedence
=============================================================================
