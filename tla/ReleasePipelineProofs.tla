------------------------- MODULE ReleasePipelineProofs -------------------------
(***************************************************************************)
(* The release workflow is safe for any set of commits, any validating     *)
(* jobs and whatever they accept, any number of runs and of faults, with   *)
(* re-runs of any job, a tag that moves and replies that are lost.         *)
(***************************************************************************)
EXTENDS ReleasePipeline, TLAPS

USE CommitAssumption, ChecksAssumption, PassingAssumption, BoundsAssumption

-----------------------------------------------------------------------------
(* The inductive invariant.                                                *)

\* The statuses of a job that is past its needs and has not ended.
Active == {"approved", "create", "edit", "written"}

Status == Finished \cup {"waiting"} \cup Active

RunRecord == [event : {"push", "workflow_dispatch"}, sha : Commit, job : [Job -> Status]]

ReleaseRecord ==
  [state : {"none", "draft", "published"}, notes : Commit \cup {None}]

\* TypeOK with the shapes of the records.
Typed ==
  /\ main \subseteq Commit
  /\ tag \in Commit \cup {None} /\ crate \in Commit \cup {None}
  /\ runs \in Seq(RunRecord) /\ Len(runs) <= MaxRuns
  /\ slot \in 0 .. Len(runs) /\ faults \in 0 .. MaxFaults
  /\ release \in ReleaseRecord

\* A job gets past waiting on green needs, and they stay green under it.
NeedsHold(r) ==
  \A k \in Job : runs[r].job[k] \in Active \cup {"green"} =>
    \A n \in Needs(k) : runs[r].job[n] = "green"

\* Only the run that holds the tag's group, and a pushed one, is publishing.
ActiveHasSlot(r) ==
  \A k \in Job : runs[r].job[k] \in Active => runs[r].event = "push" /\ slot = r

\* What a green validating job has seen is still so.
GreenIsAccepted(r) ==
  \A j \in Validating : runs[r].job[j] = "green" =>
    /\ runs[r].sha \in Passing[j]
    /\ j = "provenance" /\ runs[r].event = "push" => runs[r].sha \in main

\* A green publish has its commit on crates.io, and a Release that was written
\* has the notes of the run that wrote it.
PublishedIsThere(r) == runs[r].job["publish-crate"] = "green" => crate = runs[r].sha

WrittenIsThere(r) ==
  runs[r].job["github-release"] = "written" =>
    release.state # "none" /\ release.notes = runs[r].sha

RunOK(r) ==
  /\ NeedsHold(r) /\ ActiveHasSlot(r) /\ GreenIsAccepted(r)
  /\ PublishedIsThere(r) /\ WrittenIsThere(r)

IInv == Typed /\ ReleaseDescribesTheCrate /\ \A r \in Runs : RunOK(r)

-----------------------------------------------------------------------------
(* Lemmas.                                                                 *)

\* What a job needs, and what hangs on it, by name.
LEMMA NeedsByName ==
  /\ \A j \in Validating : Needs(j) = {}
  /\ Needs("release-gate") = Validating /\ Needs("publish-crate") = {"release-gate"}
  /\ Needs("github-release") = {"release-gate", "publish-crate"}
  /\ "publish-crate" \notin Validating /\ "github-release" \notin Validating
  /\ "release-gate" \notin Validating
  /\ \A k \in Job : Needs(k) \subseteq Job
BY DEF Needs, Validating, Job

\* Re-running a job re-runs every job one of whose needs is re-run.
LEMMA DependentsAreClosed ==
  ASSUME NEW j \in Job, NEW k \in Job, NEW n \in Needs(k), n \in {j} \cup Dependents(j)
  PROVE  k \in Dependents(j)
<1>1. CASE n = j
  BY <1>1 DEF Dependents
<1>2. CASE n \in Dependents(j)
  <2>1. CASE j \in Needs(n)
    BY <2>1 DEF Dependents
  <2>2. CASE \E m \in Needs(n) : j \in Needs(m)
    <3>1. PICK m \in Needs(n) : j \in Needs(m)
      BY <2>2
    <3>2. m = "release-gate" /\ n = "publish-crate" /\ k = "github-release"
      BY <3>1, NeedsByName DEF Job
    <3>3. j \in Needs("release-gate") /\ "release-gate" \in Needs(k)
      BY <3>1, <3>2, NeedsByName
    <3> QED BY <3>3 DEF Dependents
  <2> QED BY <1>2, <2>1, <2>2 DEF Dependents
<1> QED BY <1>1, <1>2

\* Setting the status of a job changes that and nothing else about the runs.
LEMMA SettingAJob ==
  ASSUME Typed, NEW r \in Runs, NEW j \in Job, NEW status \in Status,
         SetJob(r, j, status)
  PROVE  /\ runs' \in Seq(RunRecord) /\ Len(runs') = Len(runs) /\ Runs' = Runs
         /\ \A q \in Runs : q # r => runs'[q] = runs[q]
         /\ runs'[r].event = runs[r].event /\ runs'[r].sha = runs[r].sha
         /\ \A k \in Job :
              runs'[r].job[k] = IF k = j THEN status ELSE runs[r].job[k]
<1> DEFINE new == [runs[r] EXCEPT !.job = [@ EXCEPT ![j] = status]]
<1>1. runs \in Seq(RunRecord) /\ runs[r] \in RunRecord
  BY DEF Typed, Runs
<1>2. runs' = [runs EXCEPT ![r] = new]
  BY DEF SetJob
<1>3. new \in RunRecord
  BY <1>1 DEF RunRecord
<1>4. /\ new.event = runs[r].event /\ new.sha = runs[r].sha
      /\ \A k \in Job : new.job[k] = IF k = j THEN status ELSE runs[r].job[k]
  BY <1>1 DEF RunRecord
<1>5. runs' \in Seq(RunRecord) /\ Len(runs') = Len(runs)
  <2> HIDE DEF new
  <2> QED BY <1>1, <1>2, <1>3 DEF Runs
<1>6. \A q \in Runs : runs'[q] = IF q = r THEN new ELSE runs[q]
  <2> HIDE DEF new
  <2> QED BY <1>1, <1>2 DEF Runs
<1> HIDE DEF new
<1> QED BY <1>1, <1>4, <1>5, <1>6 DEF Runs

\* Moving one job of one run on keeps what every run relies on, provided that
\* the job could move and that what its new status claims is so afterwards.
LEMMA MovingAJob ==
  ASSUME IInv, NEW r \in Runs, NEW j \in Job, NEW status \in Status \ {"waiting"},
         SetJob(r, j, status),
         runs[r].job[j] \in Active \cup {"waiting"},
         status \in Active \cup {"green"} => \A n \in Needs(j) : runs[r].job[n] = "green",
         status \in Active => runs[r].event = "push" /\ slot = r,
         j \in Validating /\ status = "green" => Accepts(r, j),
         j = "publish-crate" /\ status = "green" => crate' = runs[r].sha,
         j = "github-release" /\ status = "written" =>
           release'.state # "none" /\ release'.notes = runs[r].sha,
         release' # release => j = "github-release" /\ runs[r].job[j] \in Active,
         crate # None => crate' = crate,
         UNCHANGED <<main, slot>>
  PROVE  \A q \in Runs' : RunOK(q)'
<1>0. Typed /\ (\A q \in Runs : RunOK(q)) /\ status \in Status
  BY DEF IInv
<1>1. /\ Runs' = Runs
      /\ \A q \in Runs : q # r => runs'[q] = runs[q]
      /\ runs'[r].event = runs[r].event /\ runs'[r].sha = runs[r].sha
      /\ \A k \in Job : runs'[r].job[k] = IF k = j THEN status ELSE runs[r].job[k]
  BY <1>0, SettingAJob
<1>2. runs \in Seq(RunRecord) /\ \A q \in Runs : runs[q] \in RunRecord
  BY <1>0 DEF Typed, Runs
<1>3. ASSUME NEW q \in Runs, q # r
      PROVE  RunOK(q)'
  <2>1. runs'[q] = runs[q] /\ RunOK(q)
    BY <1>0, <1>1, <1>3
  <2>2. NeedsHold(q)' /\ ActiveHasSlot(q)' /\ GreenIsAccepted(q)'
    BY <2>1 DEF RunOK, NeedsHold, ActiveHasSlot, GreenIsAccepted
  <2>3. PublishedIsThere(q)'
    <3>1. runs[q].sha # None
      BY <1>2 DEF RunRecord
    <3> QED BY <2>1, <3>1 DEF RunOK, PublishedIsThere
  <2>4. WrittenIsThere(q)'
    <3>1. CASE release' = release
      BY <2>1, <3>1 DEF RunOK, WrittenIsThere
    <3>2. CASE release' # release
      \* r holds the group, so q has written nothing it still relies on.
      <4>1. slot = r
        BY <1>0, <3>2 DEF RunOK, ActiveHasSlot
      <4>2. runs[q].job["github-release"] \notin Active
        BY <1>3, <2>1, <4>1 DEF RunOK, ActiveHasSlot, Job
      <4> QED BY <2>1, <4>2 DEF WrittenIsThere, Active
    <3> QED BY <3>1, <3>2
  <2> QED BY <2>2, <2>3, <2>4 DEF RunOK
<1>4. RunOK(r)'
  <2>1. RunOK(r)
    BY <1>0
  <2>2. NeedsHold(r)'
    <3> SUFFICES ASSUME NEW k \in Job, runs'[r].job[k] \in Active \cup {"green"},
                        NEW n \in Needs(k)
                 PROVE  runs'[r].job[n] = "green"
      BY DEF NeedsHold
    <3>1. n \in Job
      BY NeedsByName
    <3>2. runs[r].job[n] = "green"
      BY <1>1, <2>1 DEF RunOK, NeedsHold
    <3>3. n # j
      BY <3>2 DEF Active
    <3> QED BY <1>1, <3>1, <3>2, <3>3
  <2>3. ActiveHasSlot(r)'
    BY <1>1, <2>1 DEF RunOK, ActiveHasSlot
  <2>4. GreenIsAccepted(r)'
    <3> SUFFICES ASSUME NEW k \in Validating, runs'[r].job[k] = "green"
                 PROVE  /\ runs'[r].sha \in Passing[k]
                        /\ k = "provenance" /\ runs'[r].event = "push" =>
                             runs'[r].sha \in main'
      BY DEF GreenIsAccepted
    <3>1. k \in Job
      BY DEF Job
    <3>2. CASE k = j
      BY <1>1, <3>1, <3>2 DEF Accepts, HasProvenance
    <3>3. CASE k # j
      BY <1>1, <2>1, <3>1, <3>3 DEF RunOK, GreenIsAccepted
    <3> QED BY <3>2, <3>3
  <2>5. PublishedIsThere(r)'
    <3>1. runs[r].sha # None /\ "publish-crate" \in Job
      BY <1>2 DEF RunRecord, Job
    <3> QED BY <1>1, <2>1, <3>1 DEF RunOK, PublishedIsThere
  <2>6. WrittenIsThere(r)'
    <3>1. "github-release" \in Job
      BY DEF Job
    <3> QED BY <1>1, <2>1, <3>1 DEF RunOK, WrittenIsThere
  <2> QED BY <2>2, <2>3, <2>4, <2>5, <2>6 DEF RunOK
<1> QED BY <1>1, <1>3, <1>4

\* A new run has done nothing yet, and starting it disturbs no other.
LEMMA StartingARun ==
  ASSUME IInv, NEW e \in {"push", "workflow_dispatch"}, NEW c \in Commit,
         Len(runs) < MaxRuns, runs' = Append(runs, NewRun(e, c)),
         UNCHANGED <<main, slot, crate, release>>
  PROVE  /\ runs' \in Seq(RunRecord) /\ Len(runs') = Len(runs) + 1 /\ Len(runs') <= MaxRuns
         /\ \A q \in Runs' : RunOK(q)'
<1> DEFINE new == NewRun(e, c)
<1>1. /\ new \in RunRecord
      /\ \A k \in Job : new.job[k] = "waiting"
  BY DEF NewRun, RunRecord, Status
<1>2. runs \in Seq(RunRecord) /\ Len(runs) <= MaxRuns
  BY DEF IInv, Typed
<1> HIDE DEF new
<1>3. /\ runs' \in Seq(RunRecord) /\ Len(runs') = Len(runs) + 1
      /\ \A q \in Runs' : (q \in Runs /\ runs'[q] = runs[q]) \/ runs'[q] = new
  BY <1>1, <1>2 DEF Runs, new
<1>4. ASSUME NEW q \in Runs'
      PROVE  RunOK(q)'
  <2>1. CASE q \in Runs /\ runs'[q] = runs[q]
    <3>1. RunOK(q)
      BY <2>1 DEF IInv
    <3> QED BY <2>1, <3>1 DEF RunOK, NeedsHold, ActiveHasSlot, GreenIsAccepted,
                              PublishedIsThere, WrittenIsThere
  <2>2. CASE runs'[q] = new
    <3>1. \A k \in Job : runs'[q].job[k] = "waiting"
      BY <1>1, <2>2
    <3>2. Validating \subseteq Job /\ {"publish-crate", "github-release"} \subseteq Job
      BY DEF Job
    <3> QED BY <3>1, <3>2 DEF RunOK, NeedsHold, ActiveHasSlot, GreenIsAccepted,
                              PublishedIsThere, WrittenIsThere, Active
  <2> QED BY <1>3, <2>1, <2>2
<1> QED BY <1>2, <1>3, <1>4, BoundsAssumption DEF Typed

\* Re-running a job takes everything that hangs on it along, so what stays
\* green is still on green needs.
LEMMA RerunningAJob ==
  ASSUME IInv, NEW r \in Runs, NEW j \in Job, Rerun(r, j)
  PROVE  /\ runs' \in Seq(RunRecord) /\ Len(runs') = Len(runs) /\ Runs' = Runs
         /\ \A q \in Runs : \A k \in Job :
              runs'[q].job[k] \in {runs[q].job[k], "waiting"}
         /\ \A q \in Runs' : RunOK(q)'
<1> DEFINE again == {j} \cup Dependents(j)
           new == [runs[r] EXCEPT !.job = [k \in Job |-> IF k \in again THEN "waiting" ELSE @[k]]]
<1>1. runs \in Seq(RunRecord) /\ runs[r] \in RunRecord /\ \A q \in Runs : RunOK(q)
  BY DEF IInv, Typed, Runs
<1>2. runs' = [runs EXCEPT ![r] = new] /\ UNCHANGED <<main, slot, crate, release>>
  BY DEF Rerun
<1>3. /\ new \in RunRecord /\ new.event = runs[r].event /\ new.sha = runs[r].sha
      /\ \A k \in Job : new.job[k] = IF k \in again THEN "waiting" ELSE runs[r].job[k]
  BY <1>1 DEF RunRecord, Status
<1> HIDE DEF new
<1>4. /\ runs' \in Seq(RunRecord) /\ Len(runs') = Len(runs) /\ Runs' = Runs
      /\ \A q \in Runs : runs'[q] = IF q = r THEN new ELSE runs[q]
  BY <1>1, <1>2, <1>3 DEF Runs
<1>5. ASSUME NEW q \in Runs, q # r
      PROVE  RunOK(q)'
  <2>1. runs'[q] = runs[q] /\ RunOK(q)
    BY <1>1, <1>4, <1>5
  <2> QED BY <1>2, <2>1 DEF RunOK, NeedsHold, ActiveHasSlot, GreenIsAccepted,
                            PublishedIsThere, WrittenIsThere
<1>6. RunOK(r)'
  <2>1. RunOK(r)
    BY <1>1
  <2>2. /\ runs'[r].event = runs[r].event /\ runs'[r].sha = runs[r].sha
        /\ \A k \in Job : runs'[r].job[k] = IF k \in again THEN "waiting" ELSE runs[r].job[k]
    BY <1>3, <1>4
  <2>3. NeedsHold(r)'
    <3> SUFFICES ASSUME NEW k \in Job, runs'[r].job[k] \in Active \cup {"green"},
                        NEW n \in Needs(k)
                 PROVE  runs'[r].job[n] = "green"
      BY DEF NeedsHold
    <3>1. k \notin again /\ runs[r].job[k] = runs'[r].job[k]
      BY <2>2 DEF Active
    <3>2. n \notin again
      BY <3>1, DependentsAreClosed
    <3>3. n \in Job
      BY NeedsByName
    <3>4. runs[r].job[n] = "green"
      BY <2>1, <3>1 DEF RunOK, NeedsHold
    <3> QED BY <2>2, <3>2, <3>3, <3>4
  <2> HIDE DEF again
  <2>4. ActiveHasSlot(r)'
    BY <1>2, <2>1, <2>2 DEF RunOK, ActiveHasSlot, Active
  <2>5. GreenIsAccepted(r)'
    BY <1>2, <2>1, <2>2 DEF RunOK, GreenIsAccepted, Job
  <2>6. PublishedIsThere(r)' /\ WrittenIsThere(r)'
    <3>1. {"publish-crate", "github-release"} \subseteq Job
      BY DEF Job
    <3> QED BY <1>2, <2>1, <2>2, <3>1 DEF RunOK, PublishedIsThere, WrittenIsThere
  <2> QED BY <2>3, <2>4, <2>5, <2>6 DEF RunOK
<1>7. \A q \in Runs : \A k \in Job : runs'[q].job[k] \in {runs[q].job[k], "waiting"}
  BY <1>3, <1>4
<1> QED BY <1>4, <1>5, <1>6, <1>7

-----------------------------------------------------------------------------
(* Every step of a job keeps the invariant.                                *)

\* What each job step does to the runs, in the form MovingAJob wants it.
LEMMA JobStepKeepsIInv ==
  ASSUME IInv, NEW r \in Runs, JobStep(r) \/ Fault(r)
  PROVE  IInv'
<1>1. Typed /\ ReleaseDescribesTheCrate /\ RunOK(r) /\ \A q \in Runs : RunOK(q)
  BY DEF IInv
<1>2. /\ runs[r] \in RunRecord /\ runs[r].sha \in Commit /\ runs[r].sha # None
      /\ r \in 1 .. Len(runs)
  <2>1. r \in 1 .. Len(runs) /\ runs[r] \in RunRecord
    BY <1>1 DEF Typed, Runs
  <2> QED BY <2>1 DEF RunRecord
<1>3. /\ {"release-gate", "publish-crate", "github-release"} \subseteq Job
      /\ Validating \subseteq Job
  BY DEF Job
<1>4. /\ runs[r].job["publish-crate"] \in Active => runs[r].event = "push" /\ slot = r
      /\ runs[r].job["github-release"] \in Active =>
           /\ runs[r].event = "push" /\ slot = r
           /\ crate = runs[r].sha /\ crate # None
  BY <1>1, <1>2, <1>3, NeedsByName DEF RunOK, ActiveHasSlot, NeedsHold, PublishedIsThere
<1>5. ASSUME NEW j \in Job, NEW status \in Status \ {"waiting"}, SetJob(r, j, status)
      PROVE  runs' \in Seq(RunRecord) /\ Len(runs') = Len(runs)
  BY <1>1, <1>5, SettingAJob
<1>6. CASE TakeSlot(r)
  <2>1. UNCHANGED <<main, runs, crate, release>> /\ slot' = r
    BY <1>6 DEF TakeSlot
  <2>2. Typed'
    BY <1>1, <1>2, <1>6 DEF Typed, TakeSlot
  <2>3. ASSUME NEW q \in Runs, NEW k \in Job, runs[q].job[k] \in Active
        PROVE  slot' = q
    <3>1. slot = q /\ q # 0
      BY <1>1, <2>3 DEF RunOK, ActiveHasSlot, Runs, Typed
    <3>2. ~Complete(q)
      BY <2>3 DEF Complete, Active, Finished
    <3> QED BY <1>6, <3>1, <3>2 DEF TakeSlot
  <2>4. \A q \in Runs : ActiveHasSlot(q)'
    BY <1>1, <2>1, <2>3 DEF RunOK, ActiveHasSlot
  <2> QED BY <1>1, <2>1, <2>2, <2>4 DEF IInv, RunOK, NeedsHold, ActiveHasSlot, GreenIsAccepted,
             PublishedIsThere, WrittenIsThere, Runs, ReleaseDescribesTheCrate
<1>7. ASSUME NEW j \in Job, Validate(r, j)
      PROVE  IInv'
  <2> DEFINE status == IF Accepts(r, j) THEN "green" ELSE "red"
  <2>1. /\ SetJob(r, j, status) /\ status \in Status \ {"waiting"}
        /\ j \in Validating /\ runs[r].job[j] = "waiting"
        /\ \A n \in Needs(j) : runs[r].job[n] = "green"
        /\ UNCHANGED <<main, tag, slot, crate, release, faults>>
    BY <1>7 DEF Validate, Ready, Status, Finished
  <2>2. status \notin Active /\ (status = "green" => Accepts(r, j))
    BY DEF Active
  <2> HIDE DEF status
  <2>3. \A q \in Runs' : RunOK(q)'
    BY <2>1, <2>2, NeedsByName, MovingAJob
  <2> QED BY <1>1, <1>5, <2>1, <2>3 DEF IInv, Typed, ReleaseDescribesTheCrate
<1>8. ASSUME NEW j \in Job, Skip(r, j) \/ LoseJob(r, j)
      PROVE  IInv'
  <2>1. PICK status \in {"skipped", "red"} : SetJob(r, j, status)
    BY <1>8 DEF Skip, LoseJob
  <2>2. /\ runs[r].job[j] \in Active \cup {"waiting"}
        /\ faults' \in 0 .. MaxFaults
        /\ UNCHANGED <<main, tag, slot, crate, release>>
    BY <1>1, <1>8 DEF Skip, LoseJob, Ready, Active, Typed
  <2>3. status \in Status \ {"waiting"} /\ status \notin Active \cup {"green"}
    BY DEF Status, Finished, Active
  <2>4. \A q \in Runs' : RunOK(q)'
    BY <2>1, <2>2, <2>3, MovingAJob, Zenon DEF Active
  <2> QED BY <1>1, <1>5, <2>1, <2>2, <2>3, <2>4 DEF IInv, Typed, ReleaseDescribesTheCrate
<1>9. CASE PassGate(r)
  <2>1. /\ SetJob(r, "release-gate", "green") /\ runs[r].job["release-gate"] = "waiting"
        /\ \A n \in Needs("release-gate") : runs[r].job[n] = "green"
        /\ UNCHANGED <<main, tag, slot, crate, release, faults>>
    BY <1>9 DEF PassGate, Ready
  <2>2. "green" \in Status \ {"waiting"} /\ "green" \notin Active
    BY DEF Status, Finished, Active
  <2>3. \A q \in Runs' : RunOK(q)'
    BY <1>3, <2>1, <2>2, NeedsByName, MovingAJob
  <2> QED BY <1>1, <1>3, <1>5, <2>1, <2>2, <2>3 DEF IInv, Typed, ReleaseDescribesTheCrate
<1>10. CASE Approve(r)
  <2>1. /\ SetJob(r, "publish-crate", "approved") /\ runs[r].job["publish-crate"] = "waiting"
        /\ \A n \in Needs("publish-crate") : runs[r].job[n] = "green"
        /\ runs[r].event = "push" /\ slot = r
        /\ UNCHANGED <<main, tag, slot, crate, release, faults>>
    BY <1>10 DEF Approve, Ready, InProgress, Publishing
  <2>2. "approved" \in Status \ {"waiting"} /\ "approved" \in Active
    BY DEF Status, Active
  <2>3. \A q \in Runs' : RunOK(q)'
    BY <1>3, <2>1, <2>2, NeedsByName, MovingAJob
  <2> QED BY <1>1, <1>3, <1>5, <2>1, <2>2, <2>3 DEF IInv, Typed, ReleaseDescribesTheCrate
<1>11. CASE Publish(r) \/ LosePublishReply(r)
  <2>1. runs[r].job["publish-crate"] = "approved" /\ "approved" \in Active
    BY <1>11 DEF Publish, LosePublishReply, Active
  <2>2. PICK status \in {"green", "red"} :
          /\ SetJob(r, "publish-crate", status)
          /\ status = "green" => crate' = runs[r].sha
    BY <1>11 DEF Publish, LosePublishReply
  <2>3. /\ crate # None => crate' = crate
        /\ crate' \in {crate, runs[r].sha}
        /\ faults' \in 0 .. MaxFaults
        /\ UNCHANGED <<main, tag, slot, release>>
    BY <1>1, <1>11 DEF Publish, LosePublishReply, Typed
  <2>4. status \in Status \ {"waiting"} /\ status \notin Active
    BY DEF Status, Finished, Active
  <2>5. \A n \in Needs("publish-crate") : runs[r].job[n] = "green"
    BY <1>1, <1>3, <2>1 DEF RunOK, NeedsHold
  <2>6. \A q \in Runs' : RunOK(q)'
    BY <1>3, <2>1, <2>2, <2>3, <2>4, <2>5, NeedsByName, MovingAJob
  <2>7. ReleaseDescribesTheCrate'
    BY <1>1, <2>3 DEF ReleaseDescribesTheCrate
  <2> QED BY <1>1, <1>2, <1>3, <1>5, <2>2, <2>3, <2>4, <2>6, <2>7 DEF IInv, Typed
<1>12. CASE ViewRelease(r) \/ ViewFails(r)
  <2>1. PICK status \in {"create", "edit"} : SetJob(r, "github-release", status)
    BY <1>12 DEF ViewRelease, ViewFails
  <2>2. /\ runs[r].job["github-release"] = "waiting"
        /\ \A n \in Needs("github-release") : runs[r].job[n] = "green"
        /\ runs[r].event = "push" /\ slot = r
        /\ faults' \in 0 .. MaxFaults
        /\ UNCHANGED <<main, tag, slot, crate, release>>
    BY <1>1, <1>12 DEF ViewRelease, ViewFails, Ready, InProgress, Publishing, Typed
  <2>3. status \in Status \ {"waiting"} /\ status \in Active /\ status # "written"
    BY DEF Status, Active
  <2>4. \A q \in Runs' : RunOK(q)'
    BY <1>3, <2>1, <2>2, <2>3, NeedsByName, MovingAJob
  <2> QED BY <1>1, <1>3, <1>5, <2>1, <2>2, <2>3, <2>4 DEF IInv, Typed, ReleaseDescribesTheCrate
<1>13. CASE CreateRelease(r) \/ EditRelease(r)
  <2>1. runs[r].job["github-release"] \in Active
    BY <1>13 DEF CreateRelease, EditRelease, Active
  <2>2. PICK status \in {"written", "red"} :
          /\ SetJob(r, "github-release", status)
          /\ status = "written" =>
               release'.state # "none" /\ release'.notes = runs[r].sha
          /\ release' = release \/ release' = [state |-> "published", notes |-> runs[r].sha]
    BY <1>13 DEF CreateRelease, EditRelease
  <2>3. UNCHANGED <<main, tag, slot, crate, faults>>
    BY <1>13 DEF CreateRelease, EditRelease
  <2>4. status \in Status \ {"waiting"} /\ status # "green"
    BY DEF Status, Active, Finished
  <2>5. \A n \in Needs("github-release") : runs[r].job[n] = "green"
    BY <1>1, <1>3, <2>1 DEF RunOK, NeedsHold
  <2>6. \A q \in Runs' : RunOK(q)'
    BY <1>3, <1>4, <2>1, <2>2, <2>3, <2>4, <2>5, NeedsByName, MovingAJob
  <2>7. ReleaseDescribesTheCrate' /\ release' \in ReleaseRecord
    BY <1>1, <1>2, <1>4, <2>1, <2>2, <2>3 DEF ReleaseDescribesTheCrate, ReleaseRecord, Typed
  <2> QED BY <1>1, <1>3, <1>5, <2>2, <2>3, <2>4, <2>6, <2>7 DEF IInv, Typed
<1>14. CASE AssertPublished(r)
  <2>1. PICK status \in {"green", "red"} : SetJob(r, "github-release", status)
    BY <1>14 DEF AssertPublished
  <2>2. /\ runs[r].job["github-release"] \in Active
        /\ UNCHANGED <<main, tag, slot, crate, release, faults>>
    BY <1>14 DEF AssertPublished, Active
  <2>3. status \in Status \ {"waiting"} /\ status \notin Active /\ status # "written"
    BY DEF Status, Active, Finished
  <2>4. \A n \in Needs("github-release") : runs[r].job[n] = "green"
    BY <1>1, <1>3, <2>2 DEF RunOK, NeedsHold
  <2>5. \A q \in Runs' : RunOK(q)'
    BY <1>3, <2>1, <2>2, <2>3, <2>4, NeedsByName, MovingAJob
  <2> QED BY <1>1, <1>3, <1>5, <2>1, <2>2, <2>3, <2>5 DEF IInv, Typed, ReleaseDescribesTheCrate
<1> QED BY <1>6, <1>7, <1>8, <1>9, <1>10, <1>11, <1>12, <1>13, <1>14 DEF JobStep, Fault

\* So does every step of the operator, who re-runs, moves the tag and drafts.
LEMMA OperatorKeepsIInv ==
  ASSUME IInv, Operator
  PROVE  IInv'
<1>1. Typed /\ ReleaseDescribesTheCrate /\ \A q \in Runs : RunOK(q)
  BY DEF IInv
<1>2. ASSUME NEW c \in Commit, Merge(c)
      PROVE  IInv'
  <2>1. main \subseteq main' /\ UNCHANGED <<tag, runs, slot, crate, release, faults>>
    BY <1>2 DEF Merge
  <2>2. \A q \in Runs : GreenIsAccepted(q)'
    BY <1>1, <2>1 DEF RunOK, GreenIsAccepted
  <2>3. Typed'
    BY <1>1, <1>2 DEF Typed, Merge
  <2> QED BY <1>1, <2>1, <2>2, <2>3 DEF IInv, RunOK, NeedsHold, ActiveHasSlot,
             PublishedIsThere, WrittenIsThere, Runs, ReleaseDescribesTheCrate
<1>3. ASSUME NEW c \in Commit, PushTag(c) \/ Dispatch(c)
      PROVE  IInv'
  <2>1. PICK e \in {"push", "workflow_dispatch"} : runs' = Append(runs, NewRun(e, c))
    BY <1>3 DEF PushTag, Dispatch
  <2>2. /\ Len(runs) < MaxRuns /\ tag' \in {tag, c}
        /\ UNCHANGED <<main, slot, crate, release, faults>>
    BY <1>3 DEF PushTag, Dispatch
  <2>3. /\ runs' \in Seq(RunRecord) /\ Len(runs') = Len(runs) + 1 /\ Len(runs') <= MaxRuns
        /\ \A q \in Runs' : RunOK(q)'
    BY <2>1, <2>2, StartingARun
  <2> QED BY <1>1, <2>2, <2>3 DEF IInv, Typed, ReleaseDescribesTheCrate
<1>4. CASE DraftByHand
  <2>1. /\ release' = [release EXCEPT !.state = "draft"] /\ faults' \in 0 .. MaxFaults
        /\ UNCHANGED <<main, tag, runs, slot, crate>>
    BY <1>1, <1>4 DEF DraftByHand, Typed
  <2>2. release' \in ReleaseRecord /\ release'.state = "draft" /\ release'.notes = release.notes
    BY <1>1, <2>1 DEF Typed, ReleaseRecord
  <2>3. \A q \in Runs : WrittenIsThere(q)'
    BY <1>1, <2>1, <2>2 DEF RunOK, WrittenIsThere
  <2> QED BY <1>1, <2>1, <2>2, <2>3 DEF IInv, Typed, RunOK, NeedsHold, ActiveHasSlot,
             GreenIsAccepted, PublishedIsThere, Runs, ReleaseDescribesTheCrate
<1>5. ASSUME NEW r \in Runs, NEW j \in Job, Rerun(r, j)
      PROVE  IInv'
  <2>1. UNCHANGED <<main, tag, slot, crate, release, faults>>
    BY <1>5 DEF Rerun
  <2>2. /\ runs' \in Seq(RunRecord) /\ Len(runs') = Len(runs)
        /\ \A q \in Runs' : RunOK(q)'
    BY <1>5, RerunningAJob
  <2> QED BY <1>1, <2>1, <2>2 DEF IInv, Typed, ReleaseDescribesTheCrate
<1> QED BY <1>2, <1>3, <1>4, <1>5 DEF Operator

-----------------------------------------------------------------------------
(* The theorems.                                                           *)

\* The invariant holds to begin with: nothing has run and nothing is out.
LEMMA InitIInv == Init => IInv
<1> SUFFICES ASSUME Init
             PROVE  IInv
  OBVIOUS
<1>1. runs = <<>> /\ Runs = {} /\ Len(runs) = 0
  BY DEF Init, Runs
<1>2. Typed
  <2>1. runs \in Seq(RunRecord)
    BY <1>1
  <2> QED BY <1>1, <2>1 DEF Init, Typed, NoRelease, ReleaseRecord
<1>3. ReleaseDescribesTheCrate
  BY DEF Init, NoRelease, ReleaseDescribesTheCrate
<1> QED BY <1>1, <1>2, <1>3 DEF IInv

\* Whatever the operator, the jobs and the faults do, every step keeps it.
LEMMA StepIInv == IInv /\ [Next]_vars => IInv'
<1> SUFFICES ASSUME IInv, [Next]_vars
             PROVE  IInv'
  OBVIOUS
<1>1. CASE Operator
  BY <1>1, OperatorKeepsIInv
<1>2. ASSUME NEW r \in Runs, JobStep(r) \/ Fault(r)
      PROVE  IInv'
  BY <1>2, JobStepKeepsIInv
<1>3. CASE UNCHANGED vars
  BY <1>3 DEF vars, IInv, Typed, RunOK, NeedsHold, ActiveHasSlot, GreenIsAccepted,
              PublishedIsThere, WrittenIsThere, Runs, ReleaseDescribesTheCrate
<1> QED BY <1>1, <1>2, <1>3 DEF Next

\* In every state a run past its needs has them green, publishes alone, and
\* what its green jobs claim is so.
THEOREM Invariance == Safety => []IInv
<1> QED BY InitIInv, StepIInv, PTL DEF Safety

\* Runs, jobs, commits and the Release only take values they can have: no job
\* ends as anything but green, red or skipped, and the group is held by a run.
THEOREM TypeCorrect == Safety => []TypeOK
<1>1. IInv => TypeOK
  <2> SUFFICES ASSUME Typed
               PROVE  TypeOK
    BY DEF IInv
  <2>1. release.state \in {"none", "draft", "published"} /\ release.notes \in Commit \cup {None}
    BY DEF Typed, ReleaseRecord
  <2>2. ASSUME NEW r \in Runs
        PROVE  /\ runs[r].event \in {"push", "workflow_dispatch"} /\ runs[r].sha \in Commit
               /\ \A j \in Job : runs[r].job[j] \in Finished \cup
                    {"waiting", "approved", "create", "edit", "written"}
    <3>1. runs[r] \in RunRecord
      BY DEF Typed, Runs
    <3>2. runs[r].event \in {"push", "workflow_dispatch"} /\ runs[r].sha \in Commit
      BY <3>1 DEF RunRecord
    <3>3. \A j \in Job : runs[r].job[j] \in Status
      BY <3>1 DEF RunRecord
    <3> QED BY <3>2, <3>3 DEF Status, Active
  <2> QED BY <2>1, <2>2 DEF Typed, TypeOK
<1> QED BY <1>1, Invariance, PTL

\* The Release never describes a crate that is not there: a published one has
\* the crate behind it and its notes are of the published commit, although it
\* is written by a job that read before it wrote, beside re-runs and drafts.
THEOREM ReleasesDescribeTheCrate == Safety => []ReleaseDescribesTheCrate
<1>1. IInv => ReleaseDescribesTheCrate
  BY DEF IInv
<1> QED BY <1>1, Invariance, PTL

\* What reaches crates.io is a commit of main that one pushed run has seen pass
\* every validating job and the gate, whatever was re-run, lost or retagged.
THEOREM PublishesAreGated == Safety => PublishIsGated
<1>1. ASSUME IInv, [Next]_vars, crate' # crate
      PROVE  /\ crate' \in main
             /\ \A j \in Validating : crate' \in Passing[j]
             /\ \E r \in Runs :
                  /\ runs[r].event = "push" /\ runs[r].sha = crate'
                  /\ \A j \in Validating \cup {"release-gate"} : runs[r].job[j] = "green"
  <2>1. PICK r \in Runs : Publish(r) \/ LosePublishReply(r)
    <3>1. ~Operator
      BY <1>1 DEF Operator, Merge, PushTag, Dispatch, DraftByHand, Rerun
    <3>2. PICK r \in Runs : JobStep(r) \/ Fault(r)
      BY <1>1, <3>1 DEF Next, vars
    <3> QED BY <1>1, <3>2 DEF JobStep, Fault, TakeSlot, Validate, Skip, PassGate, Approve,
               ViewRelease, ViewFails, CreateRelease, EditRelease, AssertPublished, LoseJob
  <2>2. /\ crate' = runs[r].sha /\ runs[r].job["publish-crate"] = "approved"
        /\ "approved" \in Active
    BY <1>1, <2>1 DEF Publish, LosePublishReply, Active
  <2>3. RunOK(r) /\ "release-gate" \in Job /\ "publish-crate" \in Job /\ Validating \subseteq Job
    BY <1>1 DEF IInv, Job
  <2>4. runs[r].event = "push" /\ runs[r].job["release-gate"] = "green"
    BY <2>2, <2>3, NeedsByName DEF RunOK, ActiveHasSlot, NeedsHold
  <2>5. \A j \in Validating : runs[r].job[j] = "green"
    BY <2>3, <2>4, NeedsByName DEF RunOK, NeedsHold
  <2>6. "provenance" \in Validating
    BY DEF Validating
  <2>7. crate' \in main /\ \A j \in Validating : crate' \in Passing[j]
    BY <2>2, <2>3, <2>4, <2>5, <2>6 DEF RunOK, GreenIsAccepted
  <2> QED BY <2>2, <2>4, <2>5, <2>7
<1> QED BY <1>1, Invariance, PTL DEF Safety, PublishIsGated

\* A Release job turns green only on a step after which the Release is out with
\* that run's notes, whoever drafted one in the meantime.
THEOREM GreensMeanPublished == Safety => GreenMeansPublished
<1>1. ASSUME IInv, [Next]_vars, NEW r \in Runs,
             runs[r].job["github-release"] # "green",
             runs'[r].job["github-release"] = "green"
      PROVE  release'.state = "published" /\ release'.notes = runs[r].sha
  <2> DEFINE k == "github-release"
  <2>1. Typed /\ RunOK(r) /\ k \in Job /\ k \notin Validating /\ runs \in Seq(RunRecord)
    BY <1>1, NeedsByName DEF IInv, Job, Typed
  <2>2. ASSUME Operator
        PROVE  FALSE
    <3>1. ~\E c \in Commit : PushTag(c) \/ Dispatch(c)
      BY <1>1, <2>1 DEF PushTag, Dispatch, Runs
    <3>2. ~\E q \in Runs, j \in Job : Rerun(q, j)
      BY <1>1, <2>1, RerunningAJob
    <3> QED BY <1>1, <2>2, <3>1, <3>2 DEF Operator, Merge, DraftByHand
  <2>3. PICK q \in Runs : JobStep(q) \/ Fault(q)
    BY <1>1, <2>2 DEF Next, vars
  <2>4. PICK j \in Job, status \in Status :
          SetJob(q, j, status) /\ (j = k /\ status = "green" => AssertPublished(q))
    <3> SUFFICES \E j \in Job, status \in Status :
                   SetJob(q, j, status) /\ (j = k /\ status = "green" => AssertPublished(q))
      OBVIOUS
    <3>1. /\ {"green", "red", "skipped", "approved", "create", "edit", "written"} \subseteq Status
          /\ {"release-gate", "publish-crate", k} \subseteq Job
          /\ "release-gate" # k /\ "publish-crate" # k
      BY DEF Status, Active, Finished, Job
    <3>2. ~TakeSlot(q)
      BY <1>1 DEF TakeSlot
    <3>3. CASE \E j \in Job : Validate(q, j)
      BY <2>1, <3>1, <3>3 DEF Validate
    <3>4. CASE \E j \in Job : Skip(q, j) \/ LoseJob(q, j)
      BY <3>1, <3>4 DEF Skip, LoseJob
    <3>5. CASE PassGate(q) \/ Approve(q) \/ Publish(q) \/ LosePublishReply(q)
      BY <3>1, <3>5 DEF PassGate, Approve, Publish, LosePublishReply
    <3>6. CASE ViewRelease(q) \/ ViewFails(q)
      BY <3>1, <3>6 DEF ViewRelease, ViewFails
    <3>7. CASE CreateRelease(q) \/ EditRelease(q)
      BY <3>1, <3>7 DEF CreateRelease, EditRelease
    <3>8. CASE AssertPublished(q)
      BY <3>1, <3>8 DEF AssertPublished
    <3> QED BY <2>3, <3>2, <3>3, <3>4, <3>5, <3>6, <3>7, <3>8 DEF JobStep, Fault
  <2>5. q = r /\ AssertPublished(r)
    BY <1>1, <2>1, <2>4, SettingAJob
  <2>6. /\ runs[r].job[k] = "written" /\ release.state # "draft" /\ release' = release
    <3>1. runs[r].job[k] = "written" /\ release' = release
          /\ SetJob(r, k, IF release.state = "draft" THEN "red" ELSE "green")
      BY <2>5 DEF AssertPublished
    <3>2. CASE release.state = "draft"
      <4>1. SetJob(r, k, "red") /\ "red" \in Status
        BY <3>1, <3>2 DEF Status, Finished
      <4>2. runs'[r].job[k] = "red"
        BY <2>1, <4>1, SettingAJob
      <4> QED BY <1>1, <4>2
    <3> QED BY <3>1, <3>2
  <2>7. release.state \in {"none", "draft", "published"}
    BY <2>1 DEF Typed, ReleaseRecord
  <2> QED BY <2>1, <2>6, <2>7 DEF RunOK, WrittenIsThere
<1>2. IInv /\ [Next]_vars =>
        [\A r \in Runs :
           runs[r].job["github-release"] # "green"
             /\ runs'[r].job["github-release"] = "green"
           => release'.state = "published" /\ release'.notes = runs[r].sha]_vars
  BY <1>1
<1> QED BY <1>2, Invariance, PTL DEF Safety, GreenMeansPublished
=============================================================================
