--------------------------- MODULE ReleasePipeline ---------------------------
(***************************************************************************)
(* The release workflow (src/.github/workflows/release.yml) for the tag of *)
(* one version: what the four validating jobs, the gate, the publish to    *)
(* crates.io and the GitHub Release do, when any job may die between two   *)
(* of its steps, the operator may re-run jobs, push the tag again or leave *)
(* a draft Release, and main moves on meanwhile.                           *)
(*                                                                         *)
(* Git, GitHub Actions and crates.io are external: they are modelled by    *)
(* what the workflow relies on.  A run keeps the commit it was started     *)
(* for; crates.io accepts a version once.                                  *)
(***************************************************************************)
EXTENDS Naturals, Sequences

CONSTANTS
  Commit,          \* the commits there are
  None,            \* no commit
  Checks,          \* the validating jobs beside provenance: in the workflow
                   \* "rust-gate", "msrv" and "formal", which differ in nothing
                   \* but the commits they accept
  Passing,         \* for each validating job, the commits its checks accept
  MaxRuns,         \* bound: workflow runs started
  MaxFaults,       \* bound: jobs lost or rejected, failed reads, and drafts
                   \* made by hand
  AllowRetag,      \* whether the tag may be pushed again, to another commit
  AllowRerunAny,   \* whether jobs that did not fail are re-run as well
  AllowLostReply   \* whether a job can die after crates.io took the upload

Validating == {"provenance"} \cup Checks

Job == Validating \cup {"release-gate", "publish-crate", "github-release"}

ASSUME CommitAssumption == None \notin Commit
ASSUME ChecksAssumption ==
  Checks \cap {"provenance", "release-gate", "publish-crate", "github-release"} = {}
ASSUME PassingAssumption == Passing \in [Validating -> SUBSET Commit]
ASSUME BoundsAssumption == MaxRuns \in Nat /\ MaxFaults \in Nat
ASSUME SwitchesAssumption == {AllowRetag, AllowRerunAny, AllowLostReply} \subseteq BOOLEAN

VARIABLES
  main,      \* the commits contained in the protected branch
  tag,       \* the commit the tag v<version> points at, or None
  runs,      \* the workflow runs: event, commit and the status of each job
  slot,      \* the run that holds the tag's concurrency group, 0 for none
  crate,     \* the commit published on crates.io under the version, or None
  release,   \* the GitHub Release of the tag: its state and its notes' commit
  faults     \* how many faults there were so far

vars == <<main, tag, runs, slot, crate, release, faults>>

\* Two slips in the needs of a job, no part of the specification: the publish
\* without the gate, and the Release beside the publish instead of after it.
NeedsUngated(j) ==
  IF j = "release-gate" THEN Validating
  ELSE IF j = "github-release" THEN {"release-gate", "publish-crate"} ELSE {}

NeedsInParallel(j) ==
  IF j \in Validating THEN {}
  ELSE IF j = "release-gate" THEN Validating ELSE {"release-gate"}

Needs(j) ==
  IF j \in Validating THEN {}
  ELSE IF j = "release-gate" THEN Validating
  ELSE IF j = "publish-crate" THEN {"release-gate"}
  ELSE {"release-gate", "publish-crate"}

\* The jobs whose outcome hangs on j's.
Dependents(j) == {k \in Job : j \in Needs(k) \/ \E m \in Needs(k) : j \in Needs(m)}

Publishing == {"publish-crate", "github-release"}

Finished == {"green", "red", "skipped"}

NewRun(e, c) == [event |-> e, sha |-> c, job |-> [j \in Job |-> "waiting"]]

Complete(r) == \A j \in Job : runs[r].job[j] \in Finished

NoRelease == [state |-> "none", notes |-> None]

Init ==
  /\ main = {}
  /\ tag = None
  /\ runs = <<>>
  /\ slot = 0
  /\ crate = None
  /\ release = NoRelease
  /\ faults = 0

-----------------------------------------------------------------------------
(* The repository and the operator.                                        *)

Merge(c) ==
  /\ c \notin main
  /\ main' = main \cup {c}
  /\ UNCHANGED <<tag, runs, slot, crate, release, faults>>

\* Pushing the tag starts a run for the commit it points at.
PushTag(c) ==
  /\ tag = None \/ (AllowRetag /\ tag # c)
  /\ Len(runs) < MaxRuns
  /\ tag' = c
  /\ runs' = Append(runs, NewRun("push", c))
  /\ UNCHANGED <<main, slot, crate, release, faults>>

\* The manual dry run of the gate, on a branch.
Dispatch(c) ==
  /\ Len(runs) < MaxRuns
  /\ runs' = Append(runs, NewRun("workflow_dispatch", c))
  /\ UNCHANGED <<main, tag, slot, crate, release, faults>>

\* Re-running a job re-runs what depends on it.  The runbook re-runs what
\* failed; nothing in the workflow stops the operator from re-running more.
Rerun(r, j) ==
  /\ Complete(r)
  /\ runs[r].job[j] = "red" \/ AllowRerunAny
  /\ runs' = [runs EXCEPT ![r].job = [k \in Job |->
                IF k \in {j} \cup Dependents(j) THEN "waiting" ELSE @[k]]]
  /\ UNCHANGED <<main, tag, slot, crate, release, faults>>

\* A Release drafted, or taken back to a draft, by another route.
DraftByHand ==
  /\ tag # None /\ release.state # "draft" /\ faults < MaxFaults
  /\ release' = [release EXCEPT !.state = "draft"]
  /\ faults' = faults + 1
  /\ UNCHANGED <<main, tag, runs, slot, crate>>

-----------------------------------------------------------------------------
(* The jobs.                                                               *)

\* One run of the tag at a time; a run in progress is never cancelled.  A
\* pending one is, when a third run queues up behind it; it then does nothing
\* more until the operator re-runs it, as if it were pending all the while.
TakeSlot(r) ==
  /\ runs[r].event = "push" /\ ~Complete(r)
  /\ slot # 0 => Complete(slot)
  /\ slot # r
  /\ slot' = r
  /\ UNCHANGED <<main, tag, runs, crate, release, faults>>

InProgress(r) == runs[r].event = "push" => slot = r

Ready(r, j) ==
  /\ InProgress(r)
  /\ runs[r].job[j] = "waiting"
  /\ \A k \in Needs(j) : runs[r].job[k] = "green"
  /\ j \in Publishing => runs[r].event = "push"

SetJob(r, j, status) == runs' = [runs EXCEPT ![r].job[j] = status]

\* Provenance of a pushed tag: it is the checked-out commit, and on main.
HasProvenance(r) ==
  runs[r].event = "push" => tag = runs[r].sha /\ runs[r].sha \in main

Accepts(r, j) ==
  /\ runs[r].sha \in Passing[j]
  /\ j = "provenance" => HasProvenance(r)

Validate(r, j) ==
  /\ j \in Validating /\ Ready(r, j)
  /\ SetJob(r, j, IF Accepts(r, j) THEN "green" ELSE "red")
  /\ UNCHANGED <<main, tag, slot, crate, release, faults>>

PassGate(r) ==
  /\ Ready(r, "release-gate")
  /\ SetJob(r, "release-gate", "green")
  /\ UNCHANGED <<main, tag, slot, crate, release, faults>>

\* A job is skipped when a need did not succeed, or when its `if` is false.
Skip(r, j) ==
  /\ InProgress(r) /\ runs[r].job[j] = "waiting"
  /\ \/ \E k \in Needs(j) : runs[r].job[k] \in {"red", "skipped"}
     \/ j \in Publishing /\ runs[r].event # "push"
  /\ SetJob(r, j, "skipped")
  /\ UNCHANGED <<main, tag, slot, crate, release, faults>>

\* The reviewer of the crates-io environment lets the job start.
Approve(r) ==
  /\ Ready(r, "publish-crate")
  /\ SetJob(r, "publish-crate", "approved")
  /\ UNCHANGED <<main, tag, slot, crate, release, faults>>

\* cargo publish: refused when the version is there already.
Publish(r) ==
  /\ runs[r].job["publish-crate"] = "approved"
  /\ IF crate = None
     THEN crate' = runs[r].sha /\ SetJob(r, "publish-crate", "green")
     ELSE crate' = crate /\ SetJob(r, "publish-crate", "red")
  /\ UNCHANGED <<main, tag, slot, release, faults>>

\* The upload is accepted, and the job dies before it learns so.
LosePublishReply(r) ==
  /\ AllowLostReply /\ faults < MaxFaults
  /\ runs[r].job["publish-crate"] = "approved" /\ crate = None
  /\ crate' = runs[r].sha
  /\ SetJob(r, "publish-crate", "red")
  /\ faults' = faults + 1
  /\ UNCHANGED <<main, tag, slot, release>>

\* gh release view, whose answer decides between edit and create.
ViewRelease(r) ==
  /\ Ready(r, "github-release")
  /\ SetJob(r, "github-release", IF release.state = "none" THEN "create" ELSE "edit")
  /\ UNCHANGED <<main, tag, slot, crate, release, faults>>

\* Any failure of gh release view counts as "there is none".
ViewFails(r) ==
  /\ Ready(r, "github-release") /\ faults < MaxFaults
  /\ SetJob(r, "github-release", "create")
  /\ faults' = faults + 1
  /\ UNCHANGED <<main, tag, slot, crate, release>>

\* gh release create refuses a Release that is there by now.
CreateRelease(r) ==
  /\ runs[r].job["github-release"] = "create"
  /\ IF release.state = "none"
     THEN /\ release' = [state |-> "published", notes |-> runs[r].sha]
          /\ SetJob(r, "github-release", "written")
     ELSE release' = release /\ SetJob(r, "github-release", "red")
  /\ UNCHANGED <<main, tag, slot, crate, faults>>

\* A slip, no part of the specification: gh release edit without --draft=false.
EditReleaseAsItIs(r) ==
  /\ runs[r].job["github-release"] = "edit"
  /\ release' = [release EXCEPT !.notes = runs[r].sha]
  /\ SetJob(r, "github-release", "written")
  /\ UNCHANGED <<main, tag, slot, crate, faults>>

\* gh release edit --draft=false.
EditRelease(r) ==
  /\ runs[r].job["github-release"] = "edit"
  /\ release' = [state |-> "published", notes |-> runs[r].sha]
  /\ SetJob(r, "github-release", "written")
  /\ UNCHANGED <<main, tag, slot, crate, faults>>

\* Slips, no part of the specification: the state is printed and not checked,
\* or taken for the status of the job.
AssertNothing(r) ==
  /\ runs[r].job["github-release"] = "written"
  /\ SetJob(r, "github-release", "green")
  /\ UNCHANGED <<main, tag, slot, crate, release, faults>>

AssertUnknown(r) ==
  /\ runs[r].job["github-release"] = "written"
  /\ SetJob(r, "github-release", release.state)
  /\ UNCHANGED <<main, tag, slot, crate, release, faults>>

\* The positive read assertion that ends the job.
AssertPublished(r) ==
  /\ runs[r].job["github-release"] = "written"
  /\ SetJob(r, "github-release", IF release.state = "draft" THEN "red" ELSE "green")
  /\ UNCHANGED <<main, tag, slot, crate, release, faults>>

\* The runner is lost, a check is flaky, the approval is refused or times out.
\* The gate itself only echoes a line.
LoseJob(r, j) ==
  /\ faults < MaxFaults
  /\ Ready(r, j) \/ runs[r].job[j] \in {"approved", "create", "edit", "written"}
  /\ SetJob(r, j, "red")
  /\ faults' = faults + 1
  /\ UNCHANGED <<main, tag, slot, crate, release>>

-----------------------------------------------------------------------------

Runs == DOMAIN runs

Operator ==
  \/ \E c \in Commit : Merge(c) \/ PushTag(c) \/ Dispatch(c)
  \/ DraftByHand
  \/ \E r \in Runs, j \in Job : Rerun(r, j)

JobStep(r) ==
  \/ TakeSlot(r)
  \/ \E j \in Job : Validate(r, j) \/ Skip(r, j)
  \/ PassGate(r) \/ Approve(r) \/ Publish(r)
  \/ ViewRelease(r) \/ CreateRelease(r) \/ EditRelease(r) \/ AssertPublished(r)

Fault(r) == LosePublishReply(r) \/ ViewFails(r) \/ \E j \in Job : LoseJob(r, j)

Next == Operator \/ \E r \in Runs : JobStep(r) \/ Fault(r)

Safety == Init /\ [][Next]_vars

\* Actions runs the jobs it can, one queued run of the tag after the other,
\* and the reviewer approves in the end; the operator re-runs the failed publish
\* or Release job, as the runbook says.
Fairness ==
  \A r \in 1 .. MaxRuns :
    /\ SF_vars(r \in Runs /\ JobStep(r))
    /\ \A j \in Publishing : SF_vars(r \in Runs /\ runs[r].job[j] = "red" /\ Rerun(r, j))

Spec == Safety /\ Fairness

-----------------------------------------------------------------------------
(* Properties.                                                             *)

TypeOK ==
  /\ main \subseteq Commit /\ {tag, crate, release.notes} \subseteq Commit \cup {None}
  /\ Len(runs) <= MaxRuns /\ slot \in 0 .. Len(runs) /\ faults \in 0 .. MaxFaults
  /\ release.state \in {"none", "draft", "published"}
  /\ \A r \in Runs :
       /\ runs[r].event \in {"push", "workflow_dispatch"} /\ runs[r].sha \in Commit
       /\ \A j \in Job : runs[r].job[j] \in Finished \cup
            {"waiting", "approved", "create", "edit", "written"}

\* The release gate: what reaches crates.io is a commit of main that one pushed
\* run has seen pass every validating job, and whose provenance was the tag's.
\* A re-run, a lost job or a second tag never lets an unvalidated one through.
PublishIsGated ==
  [][crate' # crate =>
       /\ crate' \in main
       /\ \A j \in Validating : crate' \in Passing[j]
       /\ \E r \in Runs :
            /\ runs[r].event = "push" /\ runs[r].sha = crate'
            /\ \A j \in Validating \cup {"release-gate"} : runs[r].job[j] = "green"]_vars

\* RELEASING.md: the Release never describes a crate that is not there.  A
\* published Release has the crate behind it, and its notes are of that commit.
ReleaseDescribesTheCrate ==
  release.state = "published" => crate # None /\ release.notes = crate

\* The job reports success only when, at that moment, the Release it is about
\* is published and carries its notes, whoever drafted one in the meantime.
GreenMeansPublished ==
  [][\A r \in Runs :
       runs[r].job["github-release"] # "green"
         /\ runs'[r].job["github-release"] = "green"
       => release'.state = "published" /\ release'.notes = runs[r].sha]_vars

\* RELEASING.md: "crate published, Release missing" is the partial state a
\* re-run fixes, so for a published crate a Release job succeeds in the end,
\* whatever was lost on the way (and then the Release is out, by
\* GreenMeansPublished).
PublishedCrateGetsItsRelease ==
  crate # None ~> \E r \in Runs : /\ runs[r].sha = crate
                                  /\ runs[r].job["github-release"] = "green"
=============================================================================
