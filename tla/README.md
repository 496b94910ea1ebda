# precedence-ladder in TLA+

A specification of `precedence-ladder`, the crate that decides who answers a
trigger, and of the program code around it: the lint and the loader of its
tables, the generator of its golden vectors and the check that keeps them
current, its guards, its release workflow. TLC checks the specifications on small
instances and TLAPS proves every safety property of the passing runs, whatever the
tables, triggers, situations, dependency graphs, sources of a table, trees of
versions and histories of edits and releases.

`PROJECT.json` lists components, runs, mutants (one deliberate slip per checked
property), the source lines of every definition, findings, hazards and theorems.

## 1. The system

| Component | Source | State | Operations | Module |
|---|---|---|---|---|
| Ladder, resolve | `src/lib.rs` | a table: hatch, ordered rungs, fallthrough set (immutable) | `Hatch::new`, `Ladder::new`, `resolve`, `describe`, `claimants` | `PrecedenceLadder`, `ResolveScan`, `LadderContract` |
| ClaimSet, Situation | `src/lib.rs` | the names that claim; whether work runs | `claiming`, `FromIterator`, `is_live`; the host's depth counter | `Session` |
| Authoring lint | `src/collide.rs` | `seen`, `found`, two loops | `collisions` | `Collisions` |
| TOML loader | `src/table.rs` | the decoded document | `from_toml` | `LadderTable` |
| Golden-vector generator | `examples/gen_vectors.rs` | two grids of cases | `main`, `grid`, `walk`, `lean` | `Vectors`, `GenVectors` |
| Vector drift check | `scripts/check-vectors.sh`, jobs of `ci.yml` and `formal.yml` | a working tree, what was pushed last | regenerate, compare two files; the filtered Lean build | `VectorGate` |
| Leaf-dependency guard | `scripts/check-leaf-deps.sh` | `stack`, `seen` | closure of the dependency graph | `LeafContract`, `LeafDeps` |
| Structural guard | `tests/guard.rs` | the scanner's depth, armed and skip flags | `production_lines` | `GuardScan` (partly) |
| Release workflow | `.github/workflows/release.yml`, `RELEASING.md` | runs, jobs, tag, crates.io, GitHub Release | the jobs; the operator's pushes and re-runs | `ReleasePipeline` |
| Version check | `scripts/verify_release.py` | the list of problems | `verify`, `rust_to_pep440` | `VerifyRelease` |
| Content id | `src/cid.rs` | none | one call into `content-addressable` | `ContentId` in `Vectors` |
| Lean layer | `formal/` | none | a second model, the theorems generated for it | in `Vectors` (partly) |
| Lean grep gate, release notes, push hook, justfile | `scripts/check-lean-proofs.sh`, `scripts/release-notes.sh`, `.githooks/pre-push`, `justfile` | none, or one flag | a grep, a section scan, fixed command lists | not modelled |

How they interact. A host loads a table with `from_toml` and may ask the lint
about it; at each keystroke it calls `resolve` with its `ClaimSet` and the flag
`work_running`, and draws hints with `describe`, which is `resolve` again. The
library keeps no state, calls nobody back and has no threads: what is hard in it
is the order of three branches and the order of the rungs, and in a host the
sequence of claims and nested units of work between one call and the next. The
generator runs the loader, the lint and `resolve` over a whole input space, and
the vectors it writes are the one tie between the Lean proofs and the Rust. That
tie has three parts that run at different times: the generator, which writes two
files one after the other; the drift check of every push to main, which compares
them with a fresh run; and the Lean build, which runs only for pushes that touch
`formal/` and checks the vectors against the Lean model of `resolve`.

The release workflow is the one concurrent and fallible part: jobs that run
side by side, die and are run again, a human approval, an upload that can be
taken but not acknowledged, a tag somebody may push again, a Release somebody
may have drafted. `verify_release.py` is what one of its jobs runs.

What makes each one correct, in short:

* resolve: while work runs a reserved trigger escapes, whatever the rungs are;
  the first live owner in table order wins; a declining rung is transparent.
* a host: the escape is there exactly as long as any unit of work runs; a hint
  for a reserved trigger stays true; a new claim only wins for the newcomer.
* lint: no false alarm, no missed pair, every collision once, and deleting what
  it reports changes nothing (or nothing while work runs).
* loader: nothing loads without an escape, nothing written is lost, errors have
  an order.
* generator: the cases it records decide the function, and the hostile grid
  makes the order of the branches observable.
* drift check: green means that both files are what the code at hand prints, and
  with the last Lean build green, that the model in Lean and the code agree.
* leaf guard: it names exactly the offenders in the crate's closure.
* release: nothing ungated reaches crates.io, the Release never describes a
  crate that is not there, and a published crate gets its Release.
* version check: what passes is one version throughout, with a Python spelling.

## 2. The modules

`PrecedenceLadder` is data only, and the modules of the library, of a host and of the
vectors extend it: the values of `lib.rs` as sets of records, the constructors, and
`Resolve` as the documentation of `Ladder::resolve` promises it. Strings matter only
by equality and, for triggers, by the byte order in which a `BTreeSet` iterates, so
triggers are natural numbers (ranks in that order). Positions of rungs count from 1;
the code's `shadowed_by` counts from 0. `CollisionCount` says what the lint is to
count, for the generator's assertions.

`LadderContract` is the abstract specification: a call is answered once, with
the defined verdict. `ResolveScan` is `resolve` as it runs, one branch or loop
iteration per action (`EscapeByHatch`, `EnterLoop`, `RungClaims`,
`RungDeclines`, `EscapeByFallthrough`, `NothingBound`), and implements the
contract under the identity mapping: `Contract == INSTANCE LadderContract`, and
the iterations are stuttering steps.

`Collisions` is `Ladder::collisions`: `NextRung` and `VisitPair` are the nested
loop, `VisitFallthrough` the second one; `todo` is what the current `BTreeSet`
iterator has left and `seen` is the code's map, 0 where it has no entry.

`LadderTable` is `from_toml`. The toml and serde crates are external; of a
source it keeps what decides their answer (is it TOML, is a key unknown, which
keys are there), and optional values are sets of at most one element. The code's
`SchemaLimit` is 2^32.

`Session` is a host, which is not in the repository: it does what `lib.rs` asks
of one (`claiming`, a set collected anew, `depth > 0`, hints) in any order. `Begin`
and `End` are the host's own counting, which the comment on `Situation::work_running`
asks for, and so external. The variable `current` remembers whether work neither began nor ended since the
hint was drawn.

`Vectors` is the data of the golden vectors: the hostile table, the recorded
cases, the document, what `lean()` renders of it, and what `lake build` is asked
to decide, with the Lean model's own `firstClaim` and `resolve`. A file is the
value it holds; how it is spelled is left out. A content id is the value it
identifies, since the canonical form keeps every field and the order of the rungs.
`LeanVerdict` is the match of `lean_verdict`, the arm that panics included, and that
it loses no verdict is a step of `LeanProvesTablesWithAConflict`. `LakeBuild` decides
the generated theorems only: those of `Basic.lean` would fail too when its model is
changed, so the build of the model is green at least when the real one is.

`GenVectors` is the generator with a panic wherever an assertion can fail, from the
loaded table on (a table that does not load is `LadderTable`'s matter). The
assertion that the walk covered the input has no failing step; instead
`GridsDecideTheTable` says it holds whenever it is reached.

`VectorGate` composes that data with the world around it: a tree whose code,
table, Lean model and artifacts are edited in any order, a generator that writes
the JSON and then the Lean file and may die before or inside either write, pushes to
main (`ci.yml` hears of those, and of pull requests against it), the drift check and the Lean build. It does not walk the grid again: `GridUnder`
is the grid of a table under a given `resolve`, as a set of cases, and `Accepted`
are the tables the generator prints vectors of. That both are what the walk of
`GenVectors` does is a theorem, `RunsAreAsTaken`. Edits make
`resolve` what it is, or one with the hatch branch below the rungs, or a
generator that prints no grid: the change the vectors are there to expose, and the
one the count of lines is there for.

`LeafContract` says what the leaf guard promises: it comes to know packages that
known ones depend on, in any order, and judges when nothing is missing. `LeafDeps`
is the script, a stack and a visited set, and implements it:
`Contract == INSTANCE LeafContract WITH known <- seen \cup Range(stack)`. Taking
a package off that was seen is a stutter; a visit is a discovery. The closure is
defined without a walk, as what is in every closed set the core is in.

`GuardScan` is the line scanner of `tests/guard.rs`, one line per action: `Arm`,
`BeginSkip`, `Keep`, `SkipLine`. A line is its braces, whether it has the
attribute and, for the property alone, whether it belongs to an item outside
tests.

`ReleasePipeline` gives each job a status per run; a job with inner steps has
one status for each (`approved`; `create` or `edit`, `written`), and may be lost
at any of them. Git, GitHub Actions, crates.io and the operator are external.
`ViewFails` is a `gh release view` that fails for another reason than that there is no
Release: the script takes every failure for that, and `gh release create` then refuses.
A pending run that GitHub cancels for a newer one is a run that does nothing until it
is run again, which is what a run that waits for the slot does. No safety property
rests on the slot: crates.io takes a version once, and a Release job needs the publish
that took it. `PublishedCrateGetsItsRelease` does rest on how the slot passes from run
to run, since a Release job that is run again must win it back.
The workflow's three checks beside provenance differ in the model by nothing but
the commits they accept, so `Checks` is a constant. The switches `AllowRetag`,
`AllowRerunAny` and `AllowLostReply` say what the world may do.

`VerifyRelease` runs `verify` on a tree. A version is what its regular
expressions see: parts of the core and of a prerelease, each a word or a numeral with a
count of leading zeros, and build metadata; a tag is a version after a `v`, or bare. A
file may be missing, no text, without a readable version, or declare one. For a file
that is not UTF-8, `read_text` raises what `verify` does not catch (`Raise`): the
script ends in error and what it had found is not reported.

Each `MC...` module defines the constants of its runs. The operators the comments
call *slips* are no part of a specification: each is a plausible mistake in the
definition that follows it, and the property it is listed with in `PROJECT.json`
must fail when it replaces that definition.

## 3. The runs

| Run | Configuration | Distinct states | Shows |
|---|---|---|---|
| `resolve` | `MCResolveScan.cfg` | 431,616 | escape hatch, first match, transparency, refinement |
| `collisions` | `MCCollisions.cfg` | 68,208 | soundness, completeness, one report per collision, harmless pruning |
| `table` | `MCLadderTable.cfg` | 29,100 | the loaded table is the source's and can be escaped; error precedence |
| `session` | `MCSession.cfg` | 128,000 | escapes, hints and claims over any sequence of the host's steps |
| `vectors` | `MCGenVectors.cfg` | 18,100 | the grids decide the table, the hostile grid exposes the order, what is refused, which theorems Lean can prove |
| `drift` | `MCVectorGate.cfg` | 17,472 | the drift check is exact; with a green Lean build it ties the proofs to the code |
| `leaf_deps` | `MCLeafDeps.cfg` | 145,418 | walk invariant, exactness, refinement, the walk ends |
| `release_safety` | `MCReleasePipeline.cfg` | 126,846 | gate, Release behind the crate, honest green |
| `release_recovery` | `MCReleaseRecovery.cfg` | 101,420 | a published crate gets its Release |
| `verify` | `MCVerifyRelease.cfg` | 673,280 | consistency, Python spelling, no collision of spellings, every disagreement reported |

Two runs expect a violation, each of a sentence of the repository:

* `release_lost_reply`: `RELEASING.md:201` calls "crate published, Release
  missing" the only partial state, and one a re-run fixes. When the publish job
  dies after crates.io took the upload, the failed job is the publish: re-running
  it is red each time, and the Release job, which needs it, is skipped each time.
* `guard_armed`: `tests/guard.rs:295` has every `#[cfg(test)]` item skipped by
  brace depth and the production lines kept. After a test item without a brace (a
  `use`) the scanner stays armed and skips the next production item that opens
  one. The crate's own sources have no such item today.

What `vectors` says of Lean is conditional. The generator states for every table
that reversing its rungs is observable (`order_is_load_bearing`), and that is a
theorem only of tables in which two rungs list a common trigger
(`LeanProvesTablesWithAConflict`); for another table generator and drift check
are content and the Lean build is red, which `drift` takes into account.

The hostile grid exposes the order of the branches whatever the demo table
reserves, with one difference. The rogue rung takes the first trigger the hatch
reserves (`gen_vectors.rs:161`), and `zz` beside it to show that it is live. If that
first trigger is `zz` itself, the table is accepted, and the rogue rung wins `zz`
only at rest. `RogueGridExposesTheOrder` says so.

Other sentences the code does not bear out, met while modelling and not run:
`collide.rs:12` calls a collision a row that can never fire, and a reserved row
does fire while no work runs (lines 16-19 have it right); `collide.rs:53` promises
every row that can never fire, and a rung with no trigger is not reported;
`RELEASING.md:100` has leading zeros fail closed, and `verify_release.py` tests
only the prerelease number for them, so `00.1.0` passes.

**Bounds.** Two triggers and two claimants are enough for a reserved and an unreserved
trigger, one shared by two claimants, and a claimant that is not live; three rungs
(two in `session`, whose claims vary as well) for a pair repeated twice with somebody
else's row between. A rung's label is its position, so two rungs of one claimant are
told apart. The proofs lift all four bounds for `ResolveScan`, `Collisions`,
`Session`, `GenVectors` and `VectorGate`, and those named below for `LadderTable`,
`LeafDeps`, `ReleasePipeline`, `VerifyRelease` and the drift check. `SchemaLimit` is
3, with schema numbers from below 0 to past it; reserved lists have up to three
elements. `MaxClaimants` is 3, so that a table can be at the limit before the rogue is
added. `Unit` has two elements, so that one unit ends while the other runs. `vectors`
has tables that use the names the generator brings along (`rogue`, `zz`, `ctrl-x`) and
hatches that reserve `zz`, something else, or both. `drift` has three tables, one
whose rungs conflict, one whose rungs do not, one the generator refuses; an artifact
is the output of any of two codes on any of two accepted tables, an output without
grids, or a torn file, and edits and pushes are not bounded. `leaf_deps` has all 4,096
graphs over the core and three packages, enough for cycles with and without the core
and for a package reached twice. `guard_armed` has files of up to three items.
`MaxRuns` is 2 (two runs of one tag, or a dry run beside a release) and `MaxFaults` is
1 (a lost job, a lost reply, a failed view or a draft by hand); one of the two commits fails the
check called `formal`, and either may be missing from main. Re-runs are not bounded.

**Deadlock** is checked for `session`, `release_safety` and `drift`, where
something can always happen. The other passing runs are of programs that stop when
they are done, and of the release under the runbook, which is over when the
Release is out.

**Fairness.** The crate's functions are loops over finite sets with no wait in them,
so that they end needs no model. `check-leaf-deps.sh` has one loop whose end is not
plain, the worklist over a graph that may be cyclic: weak fairness of its one process
is that it runs on until it exits (`WalkEnds`). Of the release, Actions runs every job
that it can, one queued run of the tag after the other, and a job that waits in a
queue may be enabled and disabled by the other run, hence strong fairness of the steps
of each run; it covers the reviewer, who approves in the end. The runbook has the
operator re-run a failed publish or Release job, hence strong fairness of that. No
fairness is assumed of pushes, merges, faults or re-runs of validating jobs.
`release_recovery` leaves out the lost reply, which `release_lost_reply` shows to
break it, and re-runs of jobs that did not fail, which `RELEASING.md:203` warns of.

## 4. The proofs

TLAPS proves the results listed in `PROJECT.json`, for all constants satisfying
the named assumptions:

* `TriggerAssumption`, `TablesAssumption`: triggers are natural numbers, the tables
  are ladders; `UnitAssumption`: the units of work are finite;
* `NamedAssumption`: a table names finitely many triggers; `RogueAssumption`,
  `ProbeAssumption`: the names the generator brings along are names, and `zz` is not
  `ctrl-x`; `MaxClaimantsAssumption`: its limit is a number;
* `SchemaLimitAssumption`, `SourcesAssumption`: the schema's type can hold the number
  in use, the sources have the shape TOML gives them;
* `MetadatasAssumption`: the metadata has the shape `cargo metadata` gives it;
* `CommitAssumption`, `PassingAssumption`, `ChecksAssumption`, `BoundsAssumption`: each
  validating job accepts some set of commits, no commit is `None`, the checks beside
  provenance are not named like one of the four other jobs, the bounds are numbers;
* `VersionsAssumption`, `TreesAssumption`: versions and trees have the shape the
  regular expressions and the files give them. A version without a hyphen has no
  prerelease identifiers: the proof that passed versions stay apart found that the
  set `Version` once lacked this.

* `ResolveScanProofs`: type correctness; `ScanInv`, which is inductive with
  `TypeOK`; and from it `EscapeHatch`, `FirstMatch`, `DecliningRungIsTransparent`
  and the refinement of `LadderContract`. `ScanInv` is needed because none of
  the four speaks of the middle of the loop: it says that past the hatch test
  the hatch did not fire and that every rung passed has declined, so that the
  first rung to claim is the least owner. Transparency rests on lemmas about
  tables with a rung inserted.
* `CollisionsProofs`: type correctness; `LintInv`, inductive with it; and from
  it `DeadRungsAreDead` and `UnreportedPairsCanFire`. Its four parts say where
  the walks are, that `seen` holds the first walked row of each pair, and that
  the reports are true and complete of what was walked. That a pair can win is
  shown with the situation in which its claimant alone is live.
  True and complete does not say how often, so `EveryCollisionReportedOnce` has two
  invariants of its own beside `LintInv`: `RepeatInv`, for one pair, and `CountInv`,
  for all of them together. Each loop iteration adds one walked row, or none, and
  that many reports: the steps are counts of a finite set with one more element.
  `PruningIsHarmless` needs no further invariant. A ladder with fewer triggers in
  its rungs answers alike when the rung that wins keeps its trigger (`SameAnswer`);
  the row a dead report names as the first one is, by `LintInv`, a live owner above
  the dead row, so the first live owner is never reported.
* `SessionProofs`: type correctness; that `depth` counts the units (a nonempty
  set of units has a positive count, by the library's facts on finite sets),
  hence `EscapeExactlyWhileWorking`; `ReservedHintKept` by an invariant that
  keeps the hint's label an escape; and the action properties `ClaimingOnlyWins`
  and `WorkOnlyAddsEscapes`, from lemmas on what more claims or begun work do to
  `Resolve`.
* `LeafDepsProofs`: type correctness; `WalkInv`, inductive with it; and from it
  `GuardIsExact` and the refinement `ImplementsContract`, for graphs of any size.
  Exactness alone says nothing of the middle of the walk; the invariant says that
  what was visited or waits is inside the closure and that nothing a visited
  package depends on is missing. When the stack is empty what was seen is closed
  and holds the core, so the closure, the least such set, is inside it.
* `LadderTableProofs`: `Stages`, which says of each stage of `from_toml` what the
  source is known to be and what is left of the document; it is needed because the
  properties compare the result with the source, and the stage that fails or builds
  sees only the document. From it type correctness, `LoadedTableCanBeEscaped`,
  `LoadedTableIsTheSources` and `ErrorPrecedence`, for reserved lists and tables of
  any length.
* `ReleasePipelineProofs`: `IInv`, which ties the statuses of a run's jobs to each
  other and to the world: past waiting a job's needs are green (a re-run resets
  every dependent, so this survives re-runs), only the run that holds the tag's slot
  publishes, what a green validating job accepted is accepted still, a green publish
  has its commit on crates.io, and a Release once written has its run's notes. From
  it type correctness, `ReleaseDescribesTheCrate` and the action properties
  `PublishIsGated` and `GreenMeansPublished`, for any number of runs, faults and
  commits, with the switches on or off: a moved tag, a re-run of any job and a
  lost reply break none of them.
* `VerifyReleaseProofs`: `Findings`, which says that after each comparison the
  problems are exactly those of the comparisons made. From it type correctness,
  `EveryDisagreementReported`, `PassedIsConsistent` and `PassedVersionsStayApart`, for
  versions of any numerals and words.

* `VectorProofs`: `GenVectors` and `VectorGate` together, because both rest on the same
  facts about tables and their grids (hence the prefix of `GenInit`, `GenNext` and
  `GenSpec`: the module extends both).
  - Of the generator, `GenInv` says what each phase, and each place of a panic, has
    found out, that a walk in progress has recorded every input it has been at once and
    nothing else, and that a grid that is done holds every input of its table once. The
    properties speak of finished grids only, and the assertion on the length of the
    walk is a count of it, hence the invariant of the middle. From it type correctness,
    `GridsDecideTheTable`, `CleanTablesAreAccepted`, `RogueGridExposesTheOrder` and
    `LeanProvesTablesWithAConflict`.
  - Under it lie four groups of lemmas. A finite set listed by rank is listed once
    each (`AscendingLists`); the numbers below 2^n are the subsets of n claimants,
    each once, by halving the number (`LiveIsBijective`); a grid decides every input,
    since a trigger no table names is answered like the probe and a claimant without a
    rung like a dead one (`GridIsEnough`); in a table without repeated rows, reversing
    the rungs changes an answer exactly when two rungs list a common trigger
    (`ReversalIsNoChange`, `ReversalIsAChange`). The lint's counts of the demo table
    and of the hostile one are in `CountsOfCollisions` and `RogueCollision`.
  - Of the drift check, `GateInv` says that the generator at work was given a table it
    accepts, that what was pushed last is the part of the tree the Lean build looks
    at, and that its green is of a model and a file Lean can prove; `CheckIsExact` and
    `GreenTiesTheProofsToTheCode` compare a check of now with a build of some time
    before, and need it. The second also needs that codes that print the same grid
    answer alike everywhere (`GridsTellCodesApart`) and that a proved file answers
    like the code at every input, those without a case included
    (`VectorsAgreeEverywhere`).
  - `RunsAreAsTaken` ties the two: when the walk has written, its table is in
    `Accepted` and its two grids are, as sets, those `GridUnder` gives; when it has
    panicked, the table is not in `Accepted`, or names more claimants than its limit.

Only model-checked are the two liveness properties, `PublishedCrateGetsItsRelease` and
`WalkEnds`: liveness under fairness is out of the prover's reach. The two runs that
expect a violation have nothing to prove. `GuardScan` has only such a run.

## 5. Not modelled

The wording of errors, the spelling of the JSON and of the Lean text, the
panics of the generator should its encoders or the demo table's loader fail, the
encoding and the hash behind a content id (another crate), the self-test and the
argument parsing of `verify_release.py`. Of `tests/guard.rs`, the blanking of
strings and comments, the search of a line and the reading of `Cargo.toml`: text
matching without state. Of the Lean layer, the theorems of `Basic.lean`, which are
proofs already. The other jobs of CI, the push hook and the justfile are lists of
commands that stop at the first failure; `check-lean-proofs.sh` is a grep, and
`release-notes.sh` a scan with one flag. `cargo metadata` is external to
`LeafDeps`: its resolve graph has a node for every package.

## 6. Plan

Done, in this order: `PrecedenceLadder`, `ResolveScan` with `LadderContract`,
`Collisions`, their proofs, `Session` and its proofs, `LadderTable`,
`ReleasePipeline`, `GenVectors`, `VerifyRelease`; then `LeafDeps` with
`LeafContract` and their proofs, `Vectors` taken out of `GenVectors` and extended
by the Lean rendering, `VectorGate`, `GuardScan`.

Proofs followed in the same order: `ResolveScan`, `Collisions`, `Session` and
`LeafDeps`; then `LadderTable`, `ReleasePipeline`, `VerifyRelease` and the counts and
the pruning of `Collisions`; last `VectorGate` and `GenVectors`. For the last two the
lists of `claimants_of` and `triggers_of` are defined by rank, where the code
sorts and deduplicates, because what a fold computes cannot be proved here.

Next: a module of the lemmas that several proof modules have (least elements of
a set of numbers, rungs of a ladder, counts of one more element). Liveness stays with
TLC.
