-------------------------- MODULE HpcPipeline_proofs --------------------------
(***************************************************************************)
(* For any commits, size of the array, number of jobs and of subcommands: a    *)
(* report is of one sweep, and a run that exits with 0 has reported its commit. *)
(***************************************************************************)
EXTENDS HpcPipeline, SequenceTheorems, TLAPS

\* What a subcommand still has to do: a run that waits, a run that does not, or
\* one stage typed by itself.
WholeRun == <<"build", "submit", "status", "fetch", "merge">>
AfterBuild == <<"submit", "status", "fetch", "merge">>
AfterSubmit == <<"status", "fetch", "merge">>
AfterStatus == <<"fetch", "merge">>
ShortRun == <<"build", "submit">>
OnlyBuild == <<"build">>
OnlySubmit == <<"submit">>
OnlyStatus == <<"status">>
OnlyFetch == <<"fetch">>
OnlyMerge == <<"merge">>
Single == {OnlyBuild, OnlySubmit, OnlyStatus, OnlyFetch, OnlyMerge}
StageLists == {WholeRun, AfterBuild, AfterSubmit, AfterStatus, ShortRun} \cup Single

Places == {"start", "building", "built", "submitted", "recorded", "json", "md"}
Running == [stages : StageLists, at : Places, commit : Commits \cup {None}, force : BOOLEAN, run : BOOLEAN]
Envs == [image : Commits \cup {None}, job : 0 .. MaxJobs, jobImage : Commits \cup {None},
         doneJob : 0 .. MaxJobs, mergedJob : 0 .. MaxJobs]
TaskStates == {Pending, Failed} \cup [state : {"RUNNING"} \cup Terminal, commit : Commits]
Parts == [Tasks -> Commits \cup {None, Cut}]
Files == [job : 0 .. MaxJobs, parts : Parts]

TypeOK ==
  /\ proc \in Running \cup {Idle}
  /\ env \in Envs
  /\ sif \in Commits \cup {None} /\ building \in [Commits -> Commits \cup {"no", "cloning"}]
  /\ jobs \in Seq([Tasks -> TaskStates]) /\ Len(jobs) <= MaxJobs
  /\ fetched \in [1 .. MaxJobs -> Parts]
  /\ json \in Files /\ md \in Files
  /\ disturbed \in BOOLEAN

\* The recorded jobs were submitted, and a job just submitted is not the merged one.
Numbered ==
  /\ env.job <= Len(jobs) /\ env.doneJob <= Len(jobs) /\ env.mergedJob <= Len(jobs)
  /\ json.job <= Len(jobs)
  /\ proc.at \in {"submitted", "recorded"} => Len(jobs) > 0
  /\ proc.at = "submitted" => /\ env.doneJob < Len(jobs) /\ env.mergedJob < Len(jobs) /\ json.job < Len(jobs)
                              /\ \A t \in Tasks : fetched[Len(jobs)][t] \notin Commits
  /\ reported # None => env.job # NoJob

\* Where a subcommand is belongs to the stage it is in; only a run has a chain of
\* stages, for one commit, and nothing is reported before it ends.
Placed ==
  /\ proc.at \in {"building", "built"} => Head(proc.stages) = "build"
  /\ proc.at \in {"submitted", "recorded"} => Head(proc.stages) = "submit"
  /\ proc.at \in {"json", "md"} => Head(proc.stages) = "merge"
  /\ proc # Idle /\ (proc.run \/ Head(proc.stages) = "build") => proc.commit \in Commits
  /\ proc # Idle => reported = None

\* While a report is written its job is not recorded as merged.
Merging ==
  /\ proc.at \in {"json", "md"} => env.job # NoJob /\ json.job = env.job /\ env.mergedJob # env.job
  /\ proc.at = "md" => md = json

\* A whole part is of a job that was submitted.  One of the recorded job is what its task
\* wrote, in the copies and in the report, and if it is recorded as done all its tasks completed.
PartsAreResults ==
  /\ \A j \in 1 .. MaxJobs, t \in Tasks :
       fetched[j][t] \in Commits => j \in DOMAIN jobs /\ (j = env.job => jobs[j][t].commit = fetched[j][t])
  /\ json # NoFile =>
       /\ \A t \in Tasks : json.parts[t] \in Commits
       /\ json.job \in DOMAIN jobs
       /\ json.job = env.job => \A t \in Tasks : jobs[json.job][t].commit = json.parts[t]
  /\ env.job # NoJob /\ env.doneJob = env.job => \A t \in Tasks : jobs[env.job][t].state = "COMPLETED"

\* What a task does whose job was submitted for the image of commit c.
OfImage(c) ==
  {Failed, Task("RUNNING", c), Task("COMPLETED", c), Task("FAILED", c)} \cup (IF sif = c THEN {Pending} ELSE {})

\* As long as nothing was lost sight of or replaced: no build goes on but the one
\* that is waited for, the image is the one recorded, and the tasks of the last job
\* run, ran or will run the image it was submitted for.
Undisturbed ==
  ~disturbed =>
    /\ \A c \in Commits : building[c] # "no" => proc.at = "building" /\ proc.commit = c
                                                /\ building[c] \in {"cloning", c}
    /\ sif = IF proc.at = "built" THEN proc.commit ELSE env.image
    /\ proc.at \in {"submitted", "recorded"} => \A t \in Tasks : jobs[Len(jobs)][t] \in OfImage(env.image)
    /\ proc.at = "recorded" => env.job = Len(jobs)
    /\ env.job # NoJob /\ proc.at # "recorded" => \A t \in Tasks : jobs[env.job][t] \in OfImage(env.jobImage)

\* What the stages a run is through have established.
RunSoFar ==
  ~disturbed /\ proc.run =>
    /\ Head(proc.stages) # "build" => env.image = proc.commit
    /\ Head(proc.stages) \in {"status", "fetch", "merge"} => env.job # NoJob /\ env.jobImage = proc.commit
    /\ Head(proc.stages) \in {"fetch", "merge"} => env.doneJob = env.job

IInv ==
  /\ TypeOK /\ Numbered /\ Placed /\ Merging /\ PartsAreResults /\ Undisturbed /\ RunSoFar
  /\ ReportIsOneSweep /\ RunReportsItsCommit
-----------------------------------------------------------------------------
\* The chains of stages, by their length, their first stage and their rest.
LEMMA ChainLengths ==
  /\ Len(WholeRun) = 5 /\ Len(AfterBuild) = 4 /\ Len(AfterSubmit) = 3 /\ Len(AfterStatus) = 2 /\ Len(ShortRun) = 2
  /\ Len(OnlyBuild) = 1 /\ Len(OnlySubmit) = 1 /\ Len(OnlyStatus) = 1 /\ Len(OnlyFetch) = 1 /\ Len(OnlyMerge) = 1
  BY DEF WholeRun, AfterBuild, AfterSubmit, AfterStatus, ShortRun, OnlyBuild, OnlySubmit, OnlyStatus, OnlyFetch,
     OnlyMerge

LEMMA ChainHeads ==
  /\ Head(WholeRun) = "build" /\ Head(ShortRun) = "build" /\ Head(OnlyBuild) = "build"
  /\ Head(AfterBuild) = "submit" /\ Head(OnlySubmit) = "submit" /\ Head(AfterSubmit) = "status"
  /\ Head(OnlyStatus) = "status" /\ Head(AfterStatus) = "fetch" /\ Head(OnlyFetch) = "fetch" /\ Head(OnlyMerge) = "merge"
  BY DEF WholeRun, AfterBuild, AfterSubmit, AfterStatus, ShortRun, OnlyBuild, OnlySubmit, OnlyStatus, OnlyFetch,
     OnlyMerge

LEMMA ChainTails ==
  /\ Tail(WholeRun) = AfterBuild /\ Tail(AfterBuild) = AfterSubmit /\ Tail(AfterSubmit) = AfterStatus
  /\ Tail(AfterStatus) = OnlyMerge /\ Tail(ShortRun) = OnlySubmit
<1>1. Tail(WholeRun) = AfterBuild /\ Tail(AfterBuild) = AfterSubmit /\ Tail(AfterSubmit) = AfterStatus
  BY DEF WholeRun, AfterBuild, AfterSubmit, AfterStatus
<1>2. Tail(AfterStatus) = OnlyMerge /\ Tail(ShortRun) = OnlySubmit
  BY DEF AfterStatus, OnlyMerge, ShortRun, OnlySubmit
<1> QED
  BY <1>1, <1>2

LEMMA SomeStage == \A stages \in StageLists : stages # <<>>
<1>1. Len(<<>>) = 0
  OBVIOUS
<1>2. \A stages \in StageLists : Len(stages) # 0
  BY ChainLengths DEF StageLists, Single
<1> QED
  BY <1>1, <1>2

\* A subcommand that is in a stage runs, and one that runs is not Idle.
LEMMA InRuns ==
  ASSUME TypeOK, NEW stage, NEW at, In(stage, at)
  PROVE  proc \in Running /\ Head(proc.stages) = stage /\ proc.at = at
  BY DEF TypeOK, In, Idle

LEMMA RunningIsNotIdle == \A p \in Running : p # Idle /\ p.stages \in StageLists
  BY SomeStage DEF Running, Idle

LEMMA GotoProc ==
  ASSUME proc \in Running, NEW at \in Places, Goto(at)
  PROVE  /\ proc' \in Running /\ proc' # Idle /\ proc'.at = at
         /\ proc'.stages = proc.stages /\ proc'.commit = proc.commit
         /\ proc'.force = proc.force /\ proc'.run = proc.run
         /\ reported' = reported
<1>1. proc' \in Running /\ reported' = reported
  BY DEF Goto, Running
<1> QED
  BY <1>1, RunningIsNotIdle DEF Goto, Running

\* The stage that returns is the last one, or the next one of the run starts.
Precedes(a, b) ==
  \/ a = "build" /\ b = "submit"
  \/ a = "submit" /\ b = "status"
  \/ a = "status" /\ b = "fetch"
  \/ a = "fetch" /\ b = "merge"

LEMMA ReturnProc ==
  ASSUME proc \in Running, Return
  PROVE  \/ /\ proc' = Idle
            /\ reported' = IF proc.run /\ Head(proc.stages) = "merge" THEN proc.commit ELSE reported
         \/ /\ proc' \in Running /\ proc' # Idle /\ proc'.at = "start"
            /\ Precedes(Head(proc.stages), Head(proc'.stages))
            /\ proc'.commit = proc.commit /\ proc'.run = proc.run
            /\ reported' = reported
<1>1. CASE proc.stages \in Single
  <2>1. Len(proc.stages) = 1
    BY <1>1, ChainLengths DEF Single
  <2>2. Head(proc.stages) = "merge" <=> proc.stages = OnlyMerge
    BY <1>1, ChainHeads DEF Single
  <2> QED
    BY <2>1, <2>2 DEF Return, OnlyMerge
<1>2. CASE proc.stages \notin Single
  <2>1. proc.stages \in {WholeRun, AfterBuild, AfterSubmit, AfterStatus, ShortRun}
    BY <1>2 DEF Running, StageLists
  <2>2. Len(proc.stages) # 1
    BY <2>1, ChainLengths
  <2>3. Tail(proc.stages) \in StageLists
    BY <2>1, ChainTails DEF StageLists, Single
  <2>4. Precedes(Head(proc.stages), Head(Tail(proc.stages)))
    <3>1. \/ proc.stages \in {WholeRun, ShortRun} /\ Tail(proc.stages) \in {AfterBuild, OnlySubmit}
          \/ proc.stages = AfterBuild /\ Tail(proc.stages) = AfterSubmit
          \/ proc.stages = AfterSubmit /\ Tail(proc.stages) = AfterStatus
          \/ proc.stages = AfterStatus /\ Tail(proc.stages) = OnlyMerge
      BY <2>1, ChainTails
    <3> QED
      BY <3>1, ChainHeads DEF Precedes
  <2>5. proc' = [proc EXCEPT !.stages = Tail(@), !.at = "start"] /\ reported' = reported
    BY <1>2, <2>2 DEF Return, Single, OnlyMerge
  <2>6. proc' \in Running /\ proc'.stages = Tail(proc.stages)
    BY <2>3, <2>5 DEF Running, Places
  <2> QED
    BY <2>4, <2>5, <2>6, RunningIsNotIdle DEF Running
<1> QED
  BY <1>1, <1>2

LEMMA InitIInv == Init => IInv
<1> SUFFICES ASSUME Init PROVE IInv
  OBVIOUS
<1>1. Len(jobs) = 0 /\ jobs \in Seq([Tasks -> TaskStates]) /\ DOMAIN jobs = {}
  BY EmptySeq DEF Init
<1>2. TypeOK
  <2>1. NoJob \in 0 .. MaxJobs /\ NoParts \in Parts
    BY BoundsArePositive DEF NoJob, NoParts, Parts
  <2>2. env \in Envs /\ json \in Files /\ md \in Files
    BY <2>1 DEF Init, Envs, Files, NoFile
  <2>3. fetched \in [1 .. MaxJobs -> Parts] /\ building \in [Commits -> Commits \cup {"no", "cloning"}]
    BY <2>1 DEF Init
  <2>4. proc = Idle /\ sif = None /\ Len(jobs) <= MaxJobs
    BY <1>1, BoundsArePositive DEF Init
  <2>5. disturbed \in BOOLEAN
    BY DEF Init
  <2> QED
    BY <1>1, <2>2, <2>3, <2>4, <2>5 DEF TypeOK
<1>3. Numbered /\ Placed /\ Merging /\ RunSoFar
  BY <1>1, BoundsArePositive DEF Init, Numbered, Placed, Merging, RunSoFar, Idle, NoJob, NoFile
<1>4. PartsAreResults
  BY <1>1, CommitsAreHashes DEF Init, PartsAreResults, NoParts, NoJob, None
<1>5. Undisturbed
  BY DEF Init, Undisturbed, Idle, NoJob
<1>6. ReportIsOneSweep /\ RunReportsItsCommit
  BY DEF Init, ReportIsOneSweep, RunReportsItsCommit, NoJob
<1> QED
  BY <1>2, <1>3, <1>4, <1>5, <1>6 DEF IInv

-----------------------------------------------------------------------------
\* A step that only moves the subcommand, to the start of a stage or out.
LEMMA MovedIInv ==
  ASSUME IInv, UNCHANGED <<env, cluster, fetched, report>>,
         proc' \in Running \cup {Idle}, proc'.at = "start", disturbed' \in BOOLEAN,
         ~disturbed' => ~disturbed /\ proc.at \in {"start", "submitted", "json", "md"},
         proc' # Idle /\ (proc'.run \/ Head(proc'.stages) = "build") => proc'.commit \in Commits,
         proc' # Idle => reported' = None, reported' # None => env.job # NoJob,
         RunSoFar', RunReportsItsCommit'
  PROVE  IInv'
<1>1. TypeOK'
  BY DEF IInv, TypeOK, cluster, report
<1>2. Numbered' /\ Placed' /\ Merging'
  BY DEF IInv, Numbered, Placed, Merging, cluster, report
<1>3. PartsAreResults' /\ ReportIsOneSweep'
  BY DEF IInv, PartsAreResults, ReportIsOneSweep, cluster, report
<1>4. Undisturbed'
  BY DEF IInv, Undisturbed, OfImage, cluster, report
<1> QED
  BY <1>1, <1>2, <1>3, <1>4 DEF IInv

LEMMA RunChains == RunStages(TRUE) = WholeRun /\ RunStages(FALSE) = ShortRun
  BY DEF RunStages, WholeRun, ShortRun

LEMMA BeginIInv == IInv /\ Begin => IInv'
<1> SUFFICES ASSUME IInv, Begin PROVE IInv'
  OBVIOUS
<1>1. /\ proc' \in Running /\ proc'.at = "start"
      /\ proc'.run \/ Head(proc'.stages) = "build" => proc'.commit \in Commits
      /\ proc'.run => Head(proc'.stages) = "build"
  <2>1. CASE \E c \in Commits, wait \in BOOLEAN :
               proc' = [Idle EXCEPT !.stages = RunStages(wait), !.commit = c, !.run = TRUE]
    <3>1. PICK c \in Commits, stages \in {WholeRun, ShortRun} :
             proc' = [Idle EXCEPT !.stages = stages, !.commit = c, !.run = TRUE]
      BY <2>1, RunChains
    <3> QED
      BY <3>1, ChainHeads DEF Idle, Running, StageLists, Places
  <2>2. CASE \E c \in Commits : proc' = [Idle EXCEPT !.stages = <<"build">>, !.commit = c]
    <3>1. PICK c \in Commits : proc' = [Idle EXCEPT !.stages = OnlyBuild, !.commit = c]
      BY <2>2 DEF OnlyBuild
    <3> QED
      BY <3>1, ChainHeads DEF Idle, Running, StageLists, Single, Places
  <2>3. CASE \E force \in BOOLEAN : proc' = [Idle EXCEPT !.stages = <<"submit">>, !.force = force]
    <3>1. PICK force \in BOOLEAN : proc' = [Idle EXCEPT !.stages = OnlySubmit, !.force = force]
      BY <2>3 DEF OnlySubmit
    <3> QED
      BY <3>1, ChainHeads DEF Idle, Running, StageLists, Single, Places
  <2>4. CASE \E st \in {"status", "fetch", "merge"} : proc' = [Idle EXCEPT !.stages = <<st>>]
    <3>1. PICK stages \in {OnlyStatus, OnlyFetch, OnlyMerge} : proc' = [Idle EXCEPT !.stages = stages]
      BY <2>4 DEF OnlyStatus, OnlyFetch, OnlyMerge
    <3> QED
      BY <3>1, ChainHeads DEF Idle, Running, StageLists, Single, Places
  <2> QED
    BY <2>1, <2>2, <2>3, <2>4 DEF Begin
<1>2. /\ reported' = None /\ disturbed' = disturbed /\ proc.at = "start" /\ disturbed \in BOOLEAN
      /\ UNCHANGED <<env, cluster, fetched, report>>
  BY DEF Begin, Idle, IInv, TypeOK
<1>3. RunSoFar' /\ RunReportsItsCommit'
  BY <1>1, <1>2 DEF RunSoFar, RunReportsItsCommit
<1> QED
  BY <1>1, <1>2, <1>3, MovedIInv

LEMMA StopIInv == IInv /\ Stop => IInv'
<1> SUFFICES ASSUME IInv, Stop PROVE IInv'
  OBVIOUS
<1>1. proc' = Idle /\ Idle.at = "start" /\ Idle.run = FALSE /\ reported' = None
  BY DEF IInv, Placed, Stop, Exit, Idle
<1>2. /\ disturbed' \in BOOLEAN
      /\ ~disturbed' => ~disturbed /\ proc.at \in {"start", "submitted", "json", "md"}
  BY DEF IInv, TypeOK, Running, Places, Idle, Stop, Unrecorded
<1>3. RunSoFar' /\ RunReportsItsCommit'
  BY <1>1 DEF RunSoFar, RunReportsItsCommit
<1> QED
  BY <1>1, <1>2, <1>3, MovedIInv DEF Stop

\* The end of a merge reports what the run asked for.
LEMMA RunIsReported ==
  ASSUME IInv, ~disturbed, proc \in Running, proc.run, Head(proc.stages) = "merge",
         json.job = env.job, md = json
  PROVE  /\ \A t \in Tasks : json.parts[t] = proc.commit
         /\ \A t \in Tasks : jobs[env.job][t] = Task("COMPLETED", proc.commit)
<1>1. env.job # NoJob /\ env.jobImage = proc.commit
  BY DEF IInv, RunSoFar
<1>2. proc.at \notin {"submitted", "recorded"}
  BY DEF IInv, Placed
<1>3. \A t \in Tasks : jobs[env.job][t].commit = json.parts[t] /\ json.parts[t] \in Commits
  BY <1>1 DEF IInv, PartsAreResults, NoFile
<1>4. \A t \in Tasks : jobs[env.job][t] \in OfImage(proc.commit)
  BY <1>1, <1>2 DEF IInv, Undisturbed
<1>5. \A t \in Tasks : jobs[env.job][t].state = "COMPLETED"
  BY <1>1 DEF IInv, RunSoFar, PartsAreResults
<1>6. ASSUME NEW t \in Tasks PROVE jobs[env.job][t] = Task("COMPLETED", proc.commit)
  BY <1>4, <1>5 DEF OfImage, Task, Failed, Pending, Terminal
<1> QED
  BY <1>3, <1>6 DEF Task

\* The stages that find their work done.
Skips == BuildSkips \/ SubmitSkips \/ StatusKnown \/ FetchSkips \/ MergeSkips

LEMMA SkipsIInv == IInv /\ Skips => IInv'
<1> SUFFICES ASSUME IInv, Skips PROVE IInv'
  OBVIOUS
<1>1. Return /\ proc \in Running /\ proc # Idle /\ proc.at = "start" /\ reported = None
  BY InRuns, RunningIsNotIdle DEF IInv, Placed, Skips, BuildSkips, SubmitSkips, StatusKnown, FetchSkips, MergeSkips
<1>2. UNCHANGED <<env, cluster, fetched, report, disturbed>>
  BY DEF Skips, BuildSkips, SubmitSkips, StatusKnown, FetchSkips, MergeSkips
<1>3. /\ Head(proc.stages) = "build" => env.image = proc.commit
      /\ Head(proc.stages) = "submit" => env.job # NoJob /\ env.jobImage = env.image
      /\ Head(proc.stages) = "status" => env.doneJob = env.job
      /\ Head(proc.stages) = "merge" => env.job # NoJob /\ Merged
  BY DEF Skips, BuildSkips, SubmitSkips, StatusKnown, FetchSkips, MergeSkips, In, Built, Submitted
<1>4. RunSoFar'
  <2> SUFFICES ASSUME proc' # Idle, proc'.run, ~disturbed
               PROVE  /\ Head(proc'.stages) # "build" => env.image = proc'.commit
                      /\ Head(proc'.stages) \in {"status", "fetch", "merge"} =>
                           env.job # NoJob /\ env.jobImage = proc'.commit
                      /\ Head(proc'.stages) \in {"fetch", "merge"} => env.doneJob = env.job
    BY <1>2 DEF RunSoFar, Idle
  <2>1. Precedes(Head(proc.stages), Head(proc'.stages)) /\ proc'.commit = proc.commit /\ proc.run
    BY <1>1, ReturnProc
  <2> QED
    BY <1>3, <2>1 DEF IInv, RunSoFar, Precedes
<1>5. RunReportsItsCommit'
  <2>1. reported' # None => proc.run /\ Head(proc.stages) = "merge" /\ reported' = proc.commit
    BY <1>1, ReturnProc
  <2>2. Head(proc.stages) = "merge" => json.job = env.job /\ md = json
    BY <1>3 DEF Merged, IInv, ReportIsOneSweep
  <2> QED
    BY <1>1, <1>2, <2>1, <2>2, RunIsReported DEF RunReportsItsCommit, cluster, report
<1>6. /\ proc' \in Running \cup {Idle} /\ proc'.at = "start" /\ (proc' # Idle => reported' = None)
      /\ proc' # Idle /\ (proc'.run \/ Head(proc'.stages) = "build") => proc'.commit \in Commits
      /\ reported' # None => env.job # NoJob
  BY <1>1, <1>3, ReturnProc DEF Idle, Precedes, IInv, Placed
<1> QED
  BY <1>1, <1>2, <1>4, <1>5, <1>6, MovedIInv DEF IInv, TypeOK

\* A status that records nothing: a task failed, or one is still to end.
LEMMA StatusExitsIInv == IInv /\ (StatusFailed \/ StatusPending) => IInv'
<1> SUFFICES ASSUME IInv, StatusFailed \/ StatusPending PROVE IInv'
  OBVIOUS
<1>1. proc' = Idle /\ Idle.at = "start" /\ Idle.run = FALSE /\ reported' = None /\ proc.at = "start"
  BY InRuns, RunningIsNotIdle DEF IInv, Placed, StatusFailed, StatusPending, Asks, Exit, Idle, In
<1>2. RunSoFar' /\ RunReportsItsCommit'
  BY <1>1 DEF RunSoFar, RunReportsItsCommit
<1> QED
  BY <1>1, <1>2, MovedIInv DEF StatusFailed, StatusPending, IInv, TypeOK

-----------------------------------------------------------------------------
\* A step of the build leaves alone what was submitted, copied and merged.
LEMMA BuildIInv ==
  ASSUME IInv, UNCHANGED <<env, jobs, fetched, report>>,
         proc' = proc \/ proc'.at \in {"start", "building", "built"}, reported' = reported,
         TypeOK', Placed', Undisturbed', RunSoFar', RunReportsItsCommit'
  PROVE  IInv'
<1>1. Numbered' /\ Merging'
  BY DEF IInv, Numbered, Merging, report
<1>2. PartsAreResults' /\ ReportIsOneSweep'
  BY DEF IInv, PartsAreResults, ReportIsOneSweep, report
<1> QED
  BY <1>1, <1>2 DEF IInv

\* Without a disturbance, only the build that is waited for goes on.
LEMMA OnlyWaitedFor ==
  ASSUME IInv, ~disturbed, NEW c \in Commits, building[c] # "no"
  PROVE  /\ Waiting(c) /\ building[c] \in {"cloning", c}
         /\ \A d \in Commits : building[d] # "no" => d = c
<1>1. proc.at = "building" /\ proc.commit = c /\ building[c] \in {"cloning", c}
  BY DEF IInv, Undisturbed
<1>2. proc \in Running /\ Head(proc.stages) = "build" /\ proc.stages # <<>>
  BY <1>1, SomeStage DEF IInv, TypeOK, Placed, Idle, Running
<1> QED
  BY <1>1, <1>2 DEF IInv, Undisturbed, Waiting, In

LEMMA BuildStartsIInv == IInv /\ BuildStarts => IInv'
<1> SUFFICES ASSUME IInv, BuildStarts PROVE IInv'
  OBVIOUS
<1>1. proc \in Running /\ proc # Idle /\ Head(proc.stages) = "build" /\ proc.at = "start"
  BY InRuns, RunningIsNotIdle DEF IInv, BuildStarts
<1>2. /\ proc' \in Running /\ proc' # Idle /\ proc'.at = "building" /\ proc'.stages = proc.stages
      /\ proc'.commit = proc.commit /\ proc'.run = proc.run /\ reported' = reported
  BY <1>1, GotoProc DEF BuildStarts, Places
<1>3. TypeOK'
  BY <1>2 DEF IInv, TypeOK, BuildStarts, report
<1>4. Placed' /\ RunSoFar' /\ RunReportsItsCommit'
  BY <1>1, <1>2 DEF IInv, Placed, RunSoFar, RunReportsItsCommit
<1>5. Undisturbed'
  <2>1. ~disturbed => \A c \in Commits : building'[c] # "no" => proc.commit = c /\ building'[c] = "cloning"
    BY <1>1 DEF IInv, TypeOK, Undisturbed, BuildStarts
  <2> QED
    BY <1>1, <1>2, <2>1 DEF IInv, Undisturbed, OfImage, BuildStarts
<1> QED
  BY <1>2, <1>3, <1>4, <1>5, BuildIInv DEF BuildStarts

LEMMA CheckoutIInv ==
  ASSUME IInv, NEW c \in Commits, Checkout(c)
  PROVE  IInv'
<1>1. TypeOK'
  BY DEF IInv, TypeOK, Checkout, operator, report, Copying
<1>2. Placed' /\ RunSoFar' /\ RunReportsItsCommit'
  BY DEF IInv, Placed, RunSoFar, RunReportsItsCommit, Checkout, operator, report
<1>3. ASSUME ~disturbed, NEW d \in Commits, building'[d] # "no"
      PROVE  proc'.at = "building" /\ proc'.commit = d /\ building'[d] \in {"cloning", d}
  <2>1. building[c] # "no" /\ (d = c \/ (d # c => building[d] = "no"))
    BY <1>3, OnlyWaitedFor DEF Checkout
  <2>2. d = c
    BY <1>3, <2>1, CommitsAreHashes, OnlyWaitedFor DEF Checkout, Copying
  <2> QED
    BY <1>3, <2>1, <2>2, OnlyWaitedFor DEF Checkout, operator, Waiting, In
<1>4. Undisturbed'
  BY <1>3 DEF IInv, Undisturbed, OfImage, Checkout, operator, report
<1> QED
  BY <1>1, <1>2, <1>4, BuildIInv DEF Checkout, operator

LEMMA BuildFailsIInv ==
  ASSUME IInv, NEW c \in Commits, BuildFails(c)
  PROVE  IInv'
<1>1. /\ proc' = Idle \/ proc' = proc
      /\ reported' = reported /\ Idle.at = "start" /\ Idle.run = FALSE
  BY DEF BuildFails, Exit, operator, Idle
<1>2. TypeOK'
  BY <1>1 DEF IInv, TypeOK, BuildFails, report
<1>3. Placed' /\ RunSoFar' /\ RunReportsItsCommit'
  BY <1>1 DEF IInv, Placed, RunSoFar, RunReportsItsCommit, BuildFails, report
<1>4. ~disturbed => proc' = Idle /\ proc.at = "building" /\ \A d \in Commits : building'[d] = "no"
  BY OnlyWaitedFor DEF BuildFails, Exit, IInv, TypeOK, Waiting, In
<1>5. Undisturbed'
  BY <1>1, <1>4 DEF IInv, Undisturbed, OfImage, BuildFails, report
<1> QED
  BY <1>1, <1>2, <1>3, <1>5, BuildIInv DEF BuildFails

LEMMA BuildInstallsIInv ==
  ASSUME IInv, NEW c \in Commits, BuildInstalls(c)
  PROVE  IInv'
<1>1. CASE Waiting(c)
  <2>1. proc \in Running /\ proc # Idle /\ Head(proc.stages) = "build" /\ proc.at = "building" /\ proc.commit = c
    BY <1>1, InRuns, RunningIsNotIdle DEF IInv, Waiting
  <2>2. /\ proc' \in Running /\ proc' # Idle /\ proc'.at = "built" /\ proc'.stages = proc.stages
        /\ proc'.commit = proc.commit /\ proc'.run = proc.run /\ reported' = reported
    BY <1>1, <2>1, GotoProc DEF BuildInstalls, Places
  <2>3. TypeOK'
    BY <2>2 DEF IInv, TypeOK, BuildInstalls, Copying, report
  <2>4. Placed' /\ RunSoFar' /\ RunReportsItsCommit'
    BY <2>1, <2>2 DEF IInv, Placed, RunSoFar, RunReportsItsCommit, BuildInstalls
  <2>5. ASSUME ~disturbed'
        PROVE  /\ ~disturbed /\ sif' = c
               /\ \A d \in Commits : building'[d] = "no"
               /\ sif' = sif \/ ~SomePending
    <3>1. ~disturbed /\ (sif' = sif \/ ~SomePending)
      BY <2>5 DEF BuildInstalls
    <3>2. building[c] # "no" /\ building[c] # "cloning"
      BY CommitsAreHashes DEF BuildInstalls, Copying
    <3>3. building[c] = c /\ \A d \in Commits : building[d] # "no" => d = c
      BY <3>1, <3>2, OnlyWaitedFor
    <3> QED
      BY <3>1, <3>3 DEF BuildInstalls, IInv, TypeOK
  <2>6. ASSUME ~disturbed', env.job # NoJob, NEW t \in Tasks
        PROVE  jobs[env.job][t] \in OfImage(env.jobImage)'
    <3>1. jobs[env.job][t] \in OfImage(env.jobImage)
      BY <2>1, <2>5, <2>6 DEF IInv, Undisturbed
    <3>2. env.job \in DOMAIN jobs
      BY <2>6 DEF IInv, TypeOK, Numbered, Envs, NoJob
    <3>3. jobs[env.job][t] = Pending => sif' = sif
      BY <2>5, <2>6 DEF SomePending, Followed
    <3> QED
      BY <3>1, <3>3 DEF OfImage, BuildInstalls
  <2>7. Undisturbed'
    BY <2>1, <2>2, <2>5, <2>6 DEF Undisturbed, BuildInstalls
  <2> QED
    BY <2>2, <2>3, <2>4, <2>7, BuildIInv DEF BuildInstalls
<1>2. CASE ~Waiting(c)
  <2>1. proc' = proc /\ reported' = reported
    BY <1>2 DEF BuildInstalls, operator
  <2>2. disturbed'
    <3>1. building[c] # "no"
      BY CommitsAreHashes DEF BuildInstalls, Copying
    <3> QED
      BY <1>2, <3>1, OnlyWaitedFor DEF BuildInstalls, IInv, TypeOK
  <2>3. TypeOK'
    BY <2>1, <2>2 DEF IInv, TypeOK, BuildInstalls, Copying, report
  <2>4. Placed' /\ RunSoFar' /\ RunReportsItsCommit' /\ Undisturbed'
    BY <2>1, <2>2 DEF IInv, Placed, RunSoFar, RunReportsItsCommit, Undisturbed
  <2> QED
    BY <2>1, <2>3, <2>4, BuildIInv DEF BuildInstalls
<1> QED
  BY <1>1, <1>2

LEMMA RecordImageIInv == IInv /\ RecordImage => IInv'
<1> SUFFICES ASSUME IInv, RecordImage PROVE IInv'
  OBVIOUS
<1>1. proc \in Running /\ proc # Idle /\ Head(proc.stages) = "build" /\ proc.at = "built" /\ reported = None
  BY InRuns, RunningIsNotIdle DEF IInv, Placed, RecordImage
<1>2. /\ proc' \in Running \cup {Idle} /\ proc'.at = "start" /\ reported' = None
      /\ proc' # Idle => /\ Head(proc'.stages) = "submit"
                         /\ proc'.commit = proc.commit /\ proc'.run = proc.run
  BY <1>1, ReturnProc DEF RecordImage, Precedes, Idle
<1>3. proc.commit \in Commits
  BY <1>1 DEF IInv, Placed
<1>4. /\ env' \in Envs /\ env'.image = proc.commit /\ env'.job = env.job /\ env'.jobImage = env.jobImage
      /\ env'.doneJob = env.doneJob /\ env'.mergedJob = env.mergedJob
  BY <1>3 DEF IInv, TypeOK, RecordImage, Envs
<1>5. UNCHANGED <<sif, building, jobs, fetched, json, md, disturbed>>
  BY DEF RecordImage, cluster, report
<1>6. TypeOK' /\ Numbered' /\ Merging'
  BY <1>2, <1>4, <1>5 DEF IInv, TypeOK, Numbered, Merging
<1>7. Placed' /\ RunSoFar'
  BY <1>2, <1>3, <1>4 DEF Placed, RunSoFar, Idle
<1>8. PartsAreResults' /\ ReportIsOneSweep' /\ RunReportsItsCommit'
  BY <1>2, <1>4, <1>5 DEF IInv, PartsAreResults, ReportIsOneSweep, RunReportsItsCommit
<1>9. Undisturbed'
  BY <1>1, <1>2, <1>4, <1>5 DEF IInv, Undisturbed, OfImage
<1> QED
  BY <1>6, <1>7, <1>8, <1>9 DEF IInv

-----------------------------------------------------------------------------
LEMMA SbatchIInv == IInv /\ Sbatch => IInv'
<1> SUFFICES ASSUME IInv, Sbatch PROVE IInv'
  OBVIOUS
<1> DEFINE new == [t \in Tasks |-> Pending]
<1>1. proc \in Running /\ proc # Idle /\ Head(proc.stages) = "submit" /\ proc.at = "start" /\ reported = None
  BY InRuns, RunningIsNotIdle DEF IInv, Placed, Sbatch
<1>2. /\ proc' \in Running /\ proc' # Idle /\ proc'.at = "submitted" /\ proc'.stages = proc.stages
      /\ proc'.commit = proc.commit /\ proc'.run = proc.run /\ reported' = reported
  BY <1>1, GotoProc DEF Sbatch, Places
<1>3. UNCHANGED <<env, sif, building, fetched, json, md, disturbed>>
  BY DEF Sbatch, report
<1>4. /\ jobs \in Seq([Tasks -> TaskStates]) /\ new \in [Tasks -> TaskStates] /\ jobs' = Append(jobs, new)
      /\ Len(jobs) \in Nat /\ Len(jobs) < MaxJobs
  BY DEF IInv, TypeOK, TaskStates, Sbatch, NotStarted
<1>5. /\ jobs' \in Seq([Tasks -> TaskStates]) /\ Len(jobs') = Len(jobs) + 1 /\ jobs'[Len(jobs')] = new
      /\ \A j \in DOMAIN jobs : j \in DOMAIN jobs' /\ jobs'[j] = jobs[j]
      /\ DOMAIN jobs = 1 .. Len(jobs)
  <2> HIDE DEF new
  <2> QED
    BY <1>4, AppendProperties, LenProperties
<1>6. TypeOK'
  <2>1. Len(jobs') <= MaxJobs
    BY <1>4, <1>5, BoundsArePositive
  <2> QED
    BY <1>2, <1>3, <1>5, <2>1 DEF IInv, TypeOK
<1>7. Numbered'
  <2>1. \A t \in Tasks : fetched[Len(jobs')][t] \notin Commits
    <3>1. Len(jobs') \in 1 .. MaxJobs /\ Len(jobs') \notin DOMAIN jobs
      BY <1>4, <1>5, BoundsArePositive
    <3> QED
      BY <3>1 DEF IInv, PartsAreResults
  <2>2. json.job \in 0 .. MaxJobs
    BY DEF IInv, TypeOK, Files
  <2> QED
    BY <1>2, <1>3, <1>4, <1>5, <2>1, <2>2 DEF IInv, TypeOK, Envs, Numbered
<1>8. Placed' /\ Merging' /\ RunSoFar' /\ ReportIsOneSweep' /\ RunReportsItsCommit'
  BY <1>1, <1>2, <1>3 DEF IInv, Placed, Merging, RunSoFar, ReportIsOneSweep, RunReportsItsCommit
<1>9. PartsAreResults'
  <2>1. env.job # NoJob => env.job \in DOMAIN jobs
    BY <1>4, <1>5 DEF IInv, TypeOK, Envs, Numbered, NoJob
  <2> QED
    BY <1>3, <1>5, <2>1 DEF IInv, PartsAreResults
<1>10. Undisturbed'
  <2>1. env.job # NoJob => env.job \in DOMAIN jobs
    BY <1>4, <1>5 DEF IInv, TypeOK, Envs, Numbered, NoJob
  <2>2. ~disturbed => sif = env.image /\ \A t \in Tasks : jobs'[Len(jobs')][t] \in OfImage(env.image)
    BY <1>1, <1>5 DEF IInv, Undisturbed, OfImage
  <2>3. \A c : OfImage(c)' = OfImage(c)
    BY <1>3 DEF OfImage
  <2> QED
    BY <1>1, <1>2, <1>3, <1>5, <2>1, <2>2, <2>3 DEF IInv, Undisturbed
<1> QED
  BY <1>6, <1>7, <1>8, <1>9, <1>10 DEF IInv

LEMMA RecordJobIInv == IInv /\ RecordJob => IInv'
<1> SUFFICES ASSUME IInv, RecordJob PROVE IInv'
  OBVIOUS
<1>1. proc \in Running /\ proc # Idle /\ Head(proc.stages) = "submit" /\ proc.at = "submitted" /\ reported = None
  BY InRuns, RunningIsNotIdle DEF IInv, Placed, RecordJob
<1>2. /\ proc' \in Running /\ proc' # Idle /\ proc'.at = "recorded" /\ proc'.stages = proc.stages
      /\ proc'.commit = proc.commit /\ proc'.run = proc.run /\ reported' = reported
  BY <1>1, GotoProc DEF RecordJob, Places
<1>3. UNCHANGED <<sif, building, fetched, json, md, disturbed>>
  BY DEF RecordJob, report
<1>4. /\ Len(jobs) \in 1 .. MaxJobs
      /\ env.doneJob < Len(jobs) /\ env.mergedJob < Len(jobs) /\ json.job < Len(jobs)
      /\ \A t \in Tasks : fetched[Len(jobs)][t] \notin Commits
  BY <1>1 DEF IInv, TypeOK, Numbered
<1>5. /\ env' \in Envs /\ env'.image = env.image /\ env'.job = Len(jobs) /\ env'.jobImage = env.jobImage
      /\ env'.doneJob = env.doneJob /\ env'.mergedJob = env.mergedJob
  <2>1. Len(jobs) \in 0 .. MaxJobs
    BY <1>4, BoundsArePositive
  <2> QED
    BY <2>1 DEF IInv, TypeOK, RecordJob, Envs
<1>6. /\ jobs' \in Seq([Tasks -> TaskStates]) /\ Len(jobs') = Len(jobs) /\ DOMAIN jobs' = DOMAIN jobs
      /\ jobs'[Len(jobs)] = jobs[Len(jobs)]
  <2>1. jobs \in Seq([Tasks -> TaskStates]) /\ NotStarted \in [Tasks -> TaskStates]
    BY DEF IInv, TypeOK, TaskStates, NotStarted
  <2>2. Len(jobs) \in Nat /\ DOMAIN jobs = 1 .. Len(jobs)
    BY <2>1, LenProperties
  <2>3. \A j \in 1 .. Len(jobs) : jobs[j] \in [Tasks -> TaskStates]
    BY <2>1, ElementOfSeq
  <2>4. jobs' = [j \in 1 .. Len(jobs) |-> IF j = Len(jobs) THEN jobs[j] ELSE NotStarted]
    BY <2>2 DEF RecordJob
  <2>5. jobs' \in [1 .. Len(jobs) -> [Tasks -> TaskStates]]
    BY <2>1, <2>3, <2>4
  <2>6. jobs' \in Seq([Tasks -> TaskStates]) /\ Len(jobs') = Len(jobs)
    BY <2>2, <2>5
  <2>7. DOMAIN jobs' = 1 .. Len(jobs)
    BY <2>4
  <2>8. Len(jobs) \in 1 .. Len(jobs)
    BY <1>4, <2>2
  <2> QED
    BY <2>2, <2>4, <2>6, <2>7, <2>8
<1>7. TypeOK'
  BY <1>2, <1>3, <1>5, <1>6 DEF IInv, TypeOK
<1>8. Numbered' /\ ReportIsOneSweep'
  BY <1>1, <1>2, <1>3, <1>4, <1>5, <1>6 DEF IInv, TypeOK, Envs, Numbered, ReportIsOneSweep
<1>9. Placed' /\ Merging' /\ RunSoFar' /\ RunReportsItsCommit'
  BY <1>1, <1>2, <1>3, <1>5 DEF IInv, Placed, Merging, RunSoFar, RunReportsItsCommit
<1>10. PartsAreResults'
  BY <1>3, <1>4, <1>5, <1>6 DEF IInv, PartsAreResults
<1>11. Undisturbed'
  BY <1>1, <1>2, <1>3, <1>5, <1>6 DEF IInv, Undisturbed, OfImage
<1> QED
  BY <1>7, <1>8, <1>9, <1>10, <1>11 DEF IInv

LEMMA RecordJobImageIInv == IInv /\ RecordJobImage => IInv'
<1> SUFFICES ASSUME IInv, RecordJobImage PROVE IInv'
  OBVIOUS
<1>1. proc \in Running /\ proc # Idle /\ Head(proc.stages) = "submit" /\ proc.at = "recorded" /\ reported = None
  BY InRuns, RunningIsNotIdle DEF IInv, Placed, RecordJobImage
<1>2. /\ proc' \in Running \cup {Idle} /\ proc'.at = "start" /\ reported' = None
      /\ proc' # Idle => /\ Head(proc'.stages) = "status"
                         /\ proc'.commit = proc.commit /\ proc'.run = proc.run
  BY <1>1, ReturnProc DEF RecordJobImage, Precedes, Idle
<1>3. UNCHANGED <<sif, building, jobs, fetched, json, md, disturbed>>
  BY DEF RecordJobImage, cluster, report
<1>4. /\ env' \in Envs /\ env'.image = env.image /\ env'.job = env.job /\ env'.jobImage = env.image
      /\ env'.doneJob = env.doneJob /\ env'.mergedJob = env.mergedJob
  BY DEF IInv, TypeOK, RecordJobImage, Envs
<1>5. ~disturbed => /\ env.job = Len(jobs) /\ env.job # NoJob
                    /\ \A t \in Tasks : jobs[env.job][t] \in OfImage(env.image)
  BY <1>1 DEF IInv, Numbered, Undisturbed, NoJob
<1>6. TypeOK' /\ Numbered' /\ Merging'
  BY <1>2, <1>3, <1>4 DEF IInv, TypeOK, Numbered, Merging
<1>7. Placed'
  BY <1>1, <1>2 DEF IInv, Placed
<1>8. RunSoFar'
  <2> SUFFICES ASSUME proc' # Idle, proc'.run, ~disturbed
               PROVE  /\ env'.image = proc'.commit /\ env'.job # NoJob /\ env'.jobImage = proc'.commit
                      /\ Head(proc'.stages) = "status"
    BY <1>3 DEF RunSoFar, Idle
  <2> QED
    BY <1>1, <1>2, <1>4, <1>5 DEF IInv, RunSoFar
<1>9. PartsAreResults' /\ ReportIsOneSweep' /\ RunReportsItsCommit'
  BY <1>2, <1>3, <1>4 DEF IInv, PartsAreResults, ReportIsOneSweep, RunReportsItsCommit
<1>10. Undisturbed'
  BY <1>1, <1>2, <1>3, <1>4, <1>5 DEF IInv, Undisturbed, OfImage
<1> QED
  BY <1>6, <1>7, <1>8, <1>9, <1>10 DEF IInv

LEMMA StatusDoneIInv == IInv /\ StatusDone => IInv'
<1> SUFFICES ASSUME IInv, StatusDone PROVE IInv'
  OBVIOUS
<1>1. proc \in Running /\ proc # Idle /\ Head(proc.stages) = "status" /\ proc.at = "start" /\ reported = None
  BY InRuns, RunningIsNotIdle DEF IInv, Placed, StatusDone, Asks
<1>2. /\ proc' \in Running \cup {Idle} /\ proc'.at = "start" /\ reported' = None
      /\ proc' # Idle => /\ Head(proc'.stages) = "fetch"
                         /\ proc'.commit = proc.commit /\ proc'.run = proc.run
  BY <1>1, ReturnProc DEF StatusDone, Precedes, Idle
<1>3. UNCHANGED <<sif, building, jobs, fetched, json, md, disturbed>>
  BY DEF StatusDone, cluster, report
<1>4. /\ env' \in Envs /\ env'.image = env.image /\ env'.job = env.job /\ env'.jobImage = env.jobImage
      /\ env'.doneJob = env.job /\ env'.mergedJob = env.mergedJob
  BY DEF IInv, TypeOK, StatusDone, Envs
<1>5. \A t \in Tasks : jobs[env.job][t].state = "COMPLETED"
  BY DEF StatusDone, AllCompleted
<1>6. TypeOK' /\ Numbered' /\ Merging'
  BY <1>2, <1>3, <1>4 DEF IInv, TypeOK, Numbered, Merging
<1>7. Placed'
  BY <1>1, <1>2 DEF IInv, Placed
<1>8. RunSoFar'
  <2> SUFFICES ASSUME proc' # Idle, proc'.run, ~disturbed
               PROVE  /\ env'.image = proc'.commit /\ env'.job # NoJob /\ env'.jobImage = proc'.commit
                      /\ env'.doneJob = env'.job
    BY <1>3 DEF RunSoFar, Idle
  <2> QED
    BY <1>1, <1>2, <1>4 DEF IInv, RunSoFar
<1>9. PartsAreResults' /\ ReportIsOneSweep' /\ RunReportsItsCommit'
  BY <1>2, <1>3, <1>4, <1>5 DEF IInv, PartsAreResults, ReportIsOneSweep, RunReportsItsCommit
<1>10. Undisturbed'
  BY <1>1, <1>2, <1>3, <1>4 DEF IInv, Undisturbed, OfImage
<1> QED
  BY <1>6, <1>7, <1>8, <1>9, <1>10 DEF IInv

-----------------------------------------------------------------------------
\* What a copy brings is what was there before, half a part, or what its task wrote.
LEMMA FetchedIInv ==
  ASSUME IInv, In("fetch", "start"), env.job # NoJob, Return \/ Exit,
         NEW parts \in Parts, fetched' = [fetched EXCEPT ![env.job] = parts],
         \A t \in Tasks : parts[t] \in {fetched[env.job][t], Cut, jobs[env.job][t].commit},
         UNCHANGED <<env, cluster, report, disturbed>>
  PROVE  IInv'
<1>1. proc \in Running /\ proc # Idle /\ Head(proc.stages) = "fetch" /\ proc.at = "start" /\ reported = None
  BY InRuns, RunningIsNotIdle DEF IInv, Placed
<1>2. /\ proc' \in Running \cup {Idle} /\ proc'.at = "start" /\ reported' = None
      /\ proc' # Idle => /\ Head(proc'.stages) = "merge"
                         /\ proc'.commit = proc.commit /\ proc'.run = proc.run
  BY <1>1, ReturnProc DEF Precedes, Idle, Exit
<1>3. UNCHANGED <<sif, building, jobs, json, md>>
  BY DEF cluster, report
<1>4. env.job \in 1 .. MaxJobs /\ env.job \in DOMAIN jobs
  BY DEF IInv, TypeOK, Numbered, Envs, NoJob
<1>5. /\ fetched' \in [1 .. MaxJobs -> Parts] /\ fetched'[env.job] = parts
      /\ \A j \in 1 .. MaxJobs : j # env.job => fetched'[j] = fetched[j]
  BY <1>4 DEF IInv, TypeOK
<1>6. TypeOK'
  BY <1>2, <1>3, <1>5 DEF IInv, TypeOK
<1>7. Numbered' /\ Merging' /\ ReportIsOneSweep' /\ RunReportsItsCommit' /\ Placed'
  BY <1>1, <1>2, <1>3 DEF IInv, Numbered, Merging, ReportIsOneSweep, RunReportsItsCommit, Placed
<1>8. RunSoFar'
  <2> SUFFICES ASSUME proc' # Idle, proc'.run, ~disturbed
               PROVE  /\ env.image = proc'.commit /\ env.job # NoJob /\ env.jobImage = proc'.commit
                      /\ env.doneJob = env.job
    BY <1>3 DEF RunSoFar, Idle
  <2> QED
    BY <1>1, <1>2 DEF IInv, RunSoFar
<1>9. PartsAreResults'
  <2>1. ASSUME NEW j \in 1 .. MaxJobs, NEW t \in Tasks, fetched'[j][t] \in Commits
        PROVE  j \in DOMAIN jobs /\ (j = env.job => jobs[j][t].commit = fetched'[j][t])
    <3>1. CASE j # env.job
      BY <1>5, <2>1, <3>1 DEF IInv, PartsAreResults
    <3>2. CASE j = env.job
      <4>1. parts[t] # Cut
        BY <1>5, <2>1, <3>2, CommitsAreHashes DEF Cut
      <4> QED
        BY <1>4, <1>5, <2>1, <3>2, <4>1 DEF IInv, PartsAreResults
    <3> QED
      BY <3>1, <3>2
  <2> QED
    BY <1>3, <2>1 DEF IInv, PartsAreResults
<1>10. Undisturbed'
  BY <1>1, <1>2, <1>3 DEF IInv, Undisturbed, OfImage
<1> QED
  BY <1>6, <1>7, <1>8, <1>9, <1>10 DEF IInv

\* A task that ran has the commit of the image it started.
LEMMA TaskTypes ==
  ASSUME TypeOK, NEW j \in DOMAIN jobs, NEW t \in Tasks
  PROVE  /\ jobs[j][t] \in TaskStates
         /\ jobs[j][t].commit \in Commits \cup {None}
         /\ jobs[j][t].state = "COMPLETED" => jobs[j][t].commit \in Commits
<1>1. jobs[j][t] \in TaskStates
  BY ElementOfSeq DEF TypeOK
<1> QED
  BY <1>1 DEF TaskStates, Task, Pending, Failed

LEMMA FetchIInv == IInv /\ (Fetch \/ FetchCut) => IInv'
<1> SUFFICES ASSUME IInv, Fetch \/ FetchCut PROVE IInv'
  OBVIOUS
<1>1. In("fetch", "start") /\ env.job # NoJob /\ UNCHANGED <<env, cluster, report, disturbed>>
  BY DEF Fetch, FetchCut
<1>2. \A t \in Tasks : Copies(t) \subseteq {fetched[env.job][t], Cut, jobs[env.job][t].commit}
  BY DEF Copies
<1>3. CASE Fetch
  <2>1. PICK parts \in Parts :
          /\ \A t \in Tasks : parts[t] \in Copies(t)
          /\ fetched' = [fetched EXCEPT ![env.job] = parts]
          /\ Return \/ Exit
    BY <1>3 DEF Fetch, Parts
  <2> QED
    BY <1>1, <1>2, <2>1, FetchedIInv
<1>4. CASE FetchCut
  <2>1. PICK u \in Tasks, parts \in Parts :
          /\ parts[u] = Cut
          /\ \A t \in Tasks : /\ t < u => parts[t] \in Copies(t)
                              /\ t > u => parts[t] = fetched[env.job][t]
          /\ fetched' = [fetched EXCEPT ![env.job] = parts]
          /\ Exit
    BY <1>4 DEF FetchCut, Parts
  <2>2. \A t \in Tasks : t < u \/ t = u \/ t > u
    BY BoundsArePositive DEF Tasks
  <2>3. \A t \in Tasks : parts[t] \in {fetched[env.job][t], Cut, jobs[env.job][t].commit}
    BY <1>2, <2>1, <2>2
  <2> QED
    BY <1>1, <2>1, <2>3, FetchedIInv
<1> QED
  BY <1>1, <1>3, <1>4

-----------------------------------------------------------------------------
LEMMA MergeJsonIInv == IInv /\ MergeJson => IInv'
<1> SUFFICES ASSUME IInv, MergeJson PROVE IInv'
  OBVIOUS
<1> DEFINE file == [job |-> env.job, parts |-> fetched[env.job]]
<1>1. proc \in Running /\ proc # Idle /\ Head(proc.stages) = "merge" /\ proc.at = "start" /\ reported = None
  BY InRuns, RunningIsNotIdle DEF IInv, Placed, MergeJson
<1>2. /\ proc' \in Running /\ proc' # Idle /\ proc'.at = "json" /\ proc'.stages = proc.stages
      /\ proc'.commit = proc.commit /\ proc'.run = proc.run /\ reported' = reported
  BY <1>1, GotoProc DEF MergeJson, Places
<1>3. UNCHANGED <<env, sif, building, jobs, fetched, md, disturbed>> /\ json' = file
  BY DEF MergeJson, cluster
<1>4. env.job # NoJob /\ env.job \in 1 .. MaxJobs /\ fetched[env.job] \in Parts
  BY DEF IInv, TypeOK, Envs, NoJob, MergeJson
<1>5. env.mergedJob # env.job
  <2>1. env.mergedJob = env.job => json # NoFile /\ md # NoFile
    BY <1>4 DEF IInv, ReportIsOneSweep, NoFile
  <2> QED
    BY <2>1 DEF MergeJson, Merged
<1>6. PICK c \in Commits : \A t \in Tasks : fetched[env.job][t] = c
  BY DEF MergeJson, Mergeable
<1>7. TypeOK'
  <2>1. file \in Files
    BY <1>4, BoundsArePositive DEF Files
  <2> QED
    BY <1>2, <1>3, <2>1 DEF IInv, TypeOK
<1>8. Numbered' /\ Placed' /\ RunSoFar' /\ RunReportsItsCommit'
  BY <1>1, <1>2, <1>3 DEF IInv, Numbered, Placed, RunSoFar, RunReportsItsCommit
<1>9. Merging'
  BY <1>2, <1>3, <1>4, <1>5 DEF Merging
<1>10. PartsAreResults'
  <2>1. /\ env.job \in DOMAIN jobs
        /\ \A t \in Tasks : jobs[env.job][t].commit = file.parts[t] /\ file.parts[t] \in Commits
    <3>1. \A t \in Tasks : env.job \in DOMAIN jobs /\ jobs[env.job][t].commit = fetched[env.job][t]
      BY <1>4, <1>6 DEF IInv, PartsAreResults
    <3>2. 1 \in Tasks
      BY BoundsArePositive DEF Tasks
    <3> QED
      BY <1>6, <3>1, <3>2
  <2> QED
    BY <1>3, <2>1 DEF IInv, PartsAreResults
<1>11. Undisturbed'
  BY <1>1, <1>2, <1>3 DEF IInv, Undisturbed, OfImage
<1>12. ReportIsOneSweep'
  BY <1>3, <1>5, <1>6 DEF IInv, ReportIsOneSweep
<1> QED
  BY <1>7, <1>8, <1>9, <1>10, <1>11, <1>12 DEF IInv

LEMMA MergeMdIInv == IInv /\ MergeMd => IInv'
<1> SUFFICES ASSUME IInv, MergeMd PROVE IInv'
  OBVIOUS
<1>1. proc \in Running /\ proc # Idle /\ Head(proc.stages) = "merge" /\ proc.at = "json" /\ reported = None
  BY InRuns, RunningIsNotIdle DEF IInv, Placed, MergeMd
<1>2. /\ proc' \in Running /\ proc' # Idle /\ proc'.at = "md" /\ proc'.stages = proc.stages
      /\ proc'.commit = proc.commit /\ proc'.run = proc.run /\ reported' = reported
  BY <1>1, GotoProc DEF MergeMd, Places
<1>3. UNCHANGED <<env, sif, building, jobs, fetched, json, disturbed>> /\ md' = json
  BY DEF MergeMd, cluster
<1>4. env.job # NoJob /\ json.job = env.job /\ env.mergedJob # env.job
  BY <1>1 DEF IInv, Merging
<1>5. TypeOK' /\ Numbered' /\ Placed' /\ RunSoFar' /\ RunReportsItsCommit'
  BY <1>1, <1>2, <1>3 DEF IInv, TypeOK, Numbered, Placed, RunSoFar, RunReportsItsCommit
<1>6. Merging' /\ PartsAreResults'
  BY <1>2, <1>3, <1>4 DEF IInv, Merging, PartsAreResults
<1>7. Undisturbed'
  BY <1>1, <1>2, <1>3 DEF IInv, Undisturbed, OfImage
<1>8. ReportIsOneSweep'
  BY <1>3, <1>4 DEF IInv, ReportIsOneSweep
<1> QED
  BY <1>5, <1>6, <1>7, <1>8 DEF IInv

LEMMA RecordMergeIInv == IInv /\ RecordMerge => IInv'
<1> SUFFICES ASSUME IInv, RecordMerge PROVE IInv'
  OBVIOUS
<1>1. proc \in Running /\ proc # Idle /\ Head(proc.stages) = "merge" /\ proc.at = "md" /\ reported = None
  BY InRuns, RunningIsNotIdle DEF IInv, Placed, RecordMerge
<1>2. /\ proc' = Idle /\ Idle.at = "start" /\ Idle.run = FALSE
      /\ reported' = IF proc.run THEN proc.commit ELSE None
  BY <1>1, ReturnProc DEF RecordMerge, Precedes, Idle
<1>3. UNCHANGED <<sif, building, jobs, fetched, json, md, disturbed>>
  BY DEF RecordMerge, cluster, report
<1>4. env.job # NoJob /\ json.job = env.job /\ md = json
  BY <1>1 DEF IInv, Merging
<1>5. /\ env' \in Envs /\ env'.image = env.image /\ env'.job = env.job /\ env'.jobImage = env.jobImage
      /\ env'.doneJob = env.doneJob /\ env'.mergedJob = env.job
  BY DEF IInv, TypeOK, RecordMerge, Envs
<1>6. TypeOK' /\ Numbered'
  BY <1>2, <1>3, <1>4, <1>5 DEF IInv, TypeOK, Numbered
<1>7. Placed' /\ Merging' /\ RunSoFar'
  BY <1>2 DEF Placed, Merging, RunSoFar
<1>8. PartsAreResults' /\ ReportIsOneSweep'
  BY <1>3, <1>4, <1>5 DEF IInv, PartsAreResults, ReportIsOneSweep
<1>9. Undisturbed'
  BY <1>1, <1>2, <1>3, <1>5 DEF IInv, Undisturbed, OfImage
<1>10. RunReportsItsCommit'
  BY <1>1, <1>2, <1>3, <1>4, <1>5, RunIsReported DEF RunReportsItsCommit
<1> QED
  BY <1>6, <1>7, <1>8, <1>9, <1>10 DEF IInv

-----------------------------------------------------------------------------
\* A task starts the image that is there, and what ended stays as it is.
LEMMA TaskStepIInv ==
  ASSUME IInv, NEW j \in 1 .. MaxJobs, NEW t \in Tasks, TaskStep(j, t)
  PROVE  IInv'
<1> DEFINE task == jobs[j][t]
<1>1. UNCHANGED <<typed, proc, reported, env, sif, building, fetched, json, md, disturbed>>
  BY DEF TaskStep, operator, report
<1>2. /\ j \in DOMAIN jobs /\ task \in TaskStates /\ task.state \notin Terminal
  <2>1. j \in Followed /\ task.state \notin Terminal
    BY DEF TaskStep
  <2>2. Len(jobs) \in Nat /\ DOMAIN jobs = 1 .. Len(jobs)
    BY LenProperties DEF IInv, TypeOK
  <2>3. j = env.job \/ j = Len(jobs)
    BY <2>1 DEF Followed
  <2>4. env.job <= Len(jobs)
    BY DEF IInv, Numbered
  <2> QED
    BY <2>1, <2>2, <2>3, <2>4, TaskTypes DEF IInv
<1>3. PICK new : /\ jobs' = [jobs EXCEPT ![j][t] = new]
                /\ new \in IF task = Pending
                           THEN {Failed} \cup (IF sif = None THEN {} ELSE {Task("RUNNING", sif)})
                           ELSE {Task("FAILED", task.commit), Task("COMPLETED", task.commit)}
  BY DEF TaskStep
<1>4. task # Pending => task.state = "RUNNING" /\ task.commit \in Commits /\ task = Task("RUNNING", task.commit)
  BY <1>2 DEF TaskStates, Terminal, Task, Failed
<1>5. new \in TaskStates
  BY <1>3, <1>4 DEF IInv, TypeOK, TaskStates, Task, Terminal, None
<1>6. /\ DOMAIN jobs' = DOMAIN jobs /\ Len(jobs') = Len(jobs) /\ jobs' \in Seq([Tasks -> TaskStates])
      /\ \A i \in DOMAIN jobs, u \in Tasks : jobs'[i][u] = IF i = j /\ u = t THEN new ELSE jobs[i][u]
  <2>1. jobs \in Seq([Tasks -> TaskStates]) /\ j \in 1 .. Len(jobs) /\ jobs[j] \in [Tasks -> TaskStates]
    BY <1>2, ElementOfSeq DEF IInv, TypeOK
  <2>2. jobs' = [jobs EXCEPT ![j] = [jobs[j] EXCEPT ![t] = new]]
    BY <1>3
  <2>3. [jobs[j] EXCEPT ![t] = new] \in [Tasks -> TaskStates]
    BY <1>5, <2>1
  <2> QED
    BY <2>1, <2>2, <2>3, ExceptSeq
<1>7. ASSUME NEW i \in DOMAIN jobs, NEW u \in Tasks
      PROVE  /\ jobs[i][u].commit \in Commits => jobs'[i][u].commit = jobs[i][u].commit
             /\ jobs[i][u].state = "COMPLETED" => jobs'[i][u] = jobs[i][u]
  <2>1. Pending.commit \notin Commits /\ \A st, c : Task(st, c).commit = c
    BY CommitsAreHashes DEF Pending, Task, None
  <2> QED
    BY <1>2, <1>3, <1>6, <2>1 DEF Terminal
<1>8. ASSUME NEW i \in DOMAIN jobs, NEW u \in Tasks, NEW c, jobs[i][u] \in OfImage(c)
      PROVE  jobs'[i][u] \in OfImage(c)'
  <2>1. CASE i = j /\ u = t
    <3>1. CASE task = Pending
      <4>1. sif = c
        BY <1>8, <2>1, <3>1 DEF OfImage, Pending, Failed, Task
      <4> QED
        BY <1>1, <1>3, <1>6, <2>1, <3>1, <4>1 DEF OfImage
    <3>2. CASE task # Pending
      <4>1. task.commit = c
        BY <1>4, <1>8, <2>1, <3>2 DEF OfImage, Pending, Failed, Task
      <4> QED
        BY <1>1, <1>3, <1>6, <2>1, <3>2, <4>1 DEF OfImage
    <3> QED
      BY <3>1, <3>2
  <2>2. CASE ~(i = j /\ u = t)
    BY <1>1, <1>6, <1>8, <2>2 DEF OfImage
  <2> QED
    BY <2>1, <2>2
<1>9. /\ env.job # NoJob => env.job \in DOMAIN jobs
      /\ env.doneJob # NoJob => env.doneJob \in DOMAIN jobs
      /\ Len(jobs) > 0 => Len(jobs) \in DOMAIN jobs
  BY LenProperties DEF IInv, TypeOK, Envs, Numbered, NoJob
<1>10. TypeOK' /\ Numbered'
  BY <1>1, <1>6 DEF IInv, TypeOK, Numbered
<1>11. Placed' /\ Merging' /\ RunSoFar' /\ ReportIsOneSweep'
  BY <1>1 DEF IInv, Placed, Merging, RunSoFar, ReportIsOneSweep
<1>12. PartsAreResults'
  <2>1. ASSUME NEW i \in 1 .. MaxJobs, NEW u \in Tasks, fetched[i][u] \in Commits
        PROVE  i \in DOMAIN jobs /\ (i = env.job => jobs'[i][u].commit = fetched[i][u])
    BY <1>7, <2>1 DEF IInv, PartsAreResults
  <2>2. ASSUME json # NoFile
        PROVE  /\ \A u \in Tasks : json.parts[u] \in Commits
               /\ json.job \in DOMAIN jobs
               /\ json.job = env.job => \A u \in Tasks : jobs'[json.job][u].commit = json.parts[u]
    BY <1>7, <2>2 DEF IInv, PartsAreResults
  <2>3. env.job # NoJob /\ env.doneJob = env.job => \A u \in Tasks : jobs'[env.job][u].state = "COMPLETED"
    BY <1>7, <1>9 DEF IInv, PartsAreResults
  <2> QED
    BY <1>1, <1>6, <2>1, <2>2, <2>3 DEF PartsAreResults
<1>13. Undisturbed'
  BY <1>1, <1>6, <1>8, <1>9 DEF IInv, Undisturbed, Numbered
<1>14. RunReportsItsCommit'
  BY <1>1, <1>7, <1>9 DEF IInv, RunReportsItsCommit, Numbered, Task
<1> QED
  BY <1>10, <1>11, <1>12, <1>13, <1>14 DEF IInv

LEMMA StutterIInv == IInv /\ UNCHANGED vars => IInv'
<1> SUFFICES ASSUME IInv, UNCHANGED vars PROVE IInv'
  OBVIOUS
<1> USE DEF vars, operator, cluster, report
<1>1. TypeOK' /\ Numbered' /\ Placed' /\ Merging'
  BY DEF IInv, TypeOK, Numbered, Placed, Merging
<1>2. PartsAreResults' /\ RunSoFar'
  BY DEF IInv, PartsAreResults, RunSoFar
<1>3. Undisturbed'
  BY DEF IInv, Undisturbed, OfImage
<1>4. ReportIsOneSweep' /\ RunReportsItsCommit'
  BY DEF IInv, ReportIsOneSweep, RunReportsItsCommit
<1> QED
  BY <1>1, <1>2, <1>3, <1>4 DEF IInv

-----------------------------------------------------------------------------
\* The strengthened invariant is inductive, whatever is typed, interrupted or fails.
THEOREM InductiveInvariant == Spec => []IInv
<1>1. IInv /\ Step => IInv'
  BY SkipsIInv, BuildStartsIInv, RecordImageIInv, SbatchIInv, RecordJobIInv, RecordJobImageIInv,
     StatusDoneIInv, StatusExitsIInv, FetchIInv, MergeJsonIInv, MergeMdIInv, RecordMergeIInv
  DEF Step, Skips
<1>2. IInv /\ ClusterStep => IInv'
  BY CheckoutIInv, BuildInstallsIInv, BuildFailsIInv, TaskStepIInv DEF ClusterStep
<1>3. IInv /\ [Next]_vars => IInv'
  BY <1>1, <1>2, BeginIInv, StopIInv, StutterIInv DEF Next
<1> QED
  BY <1>3, InitIInv, PTL DEF Spec

\* The variables keep their types.
THEOREM TypeCorrect == Spec => []TypeOK
<1>1. IInv => TypeOK
  BY DEF IInv
<1> QED
  BY <1>1, InductiveInvariant, PTL

\* Both files of the report are of one sweep, and a job recorded as merged is the
\* one they are of: cut, missing or mixed parts never get in, and an interruption
\* between the two files and the record never hides an unfinished report.
THEOREM NeverMixed == Spec => []ReportIsOneSweep
<1>1. IInv => ReportIsOneSweep
  BY DEF IInv
<1> QED
  BY <1>1, InductiveInvariant, PTL

\* The commit of a run that exits with 0 is the commit of its report, and of every
\* task of its job, which all completed.
THEOREM RunKeepsItsPromise == Spec => []RunReportsItsCommit
<1>1. IInv => RunReportsItsCommit
  BY DEF IInv
<1> QED
  BY <1>1, InductiveInvariant, PTL
===============================================================================
