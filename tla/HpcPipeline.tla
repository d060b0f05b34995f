----------------------------- MODULE HpcPipeline -----------------------------
(***************************************************************************)
(* ek-hpc.sh: the sweep as a SLURM array on a cluster.  One operator types     *)
(* subcommands, any of which may be interrupted or fail between two steps;     *)
(* what they have done is kept in an env file, written one key at a time, and   *)
(* every subcommand first looks there for whether it has anything to do.  The   *)
(* cluster meanwhile starts and ends the tasks.  All jobs end on one day, so     *)
(* that their reports have one name, the worst case.                        *)
(***************************************************************************)
EXTENDS Integers, Sequences, FiniteSets

CONSTANTS Commits,  \* what can be built
          NTasks,   \* the size of the array that sweep.sbatch declares
          MaxJobs,  \* after so many jobs sbatch refuses
          MaxCommands  \* how many subcommands the operator types

ASSUME BoundsArePositive == NTasks \in Nat \ {0} /\ MaxJobs \in Nat \ {0}
\* A commit is a hash: none of the words that stand for its absence or its progress.
ASSUME CommitsAreHashes == Commits \cap {"none", "cut", "no", "cloning"} = {}

VARIABLES
  typed,     \* the number of subcommands so far
  proc,      \* the running subcommand: the stages it still has, where it is in
             \* the first, and its arguments
  env,       \* the env file: EK_IMAGE_SHA, EK_JOB, EK_JOB_IMAGE, EK_DONE_JOB, EK_MERGED_JOB
  sif,       \* the commit of the image on the login node
  building,  \* where the build of each commit is: "no", "cloning", or what is checked out
             \* in the clone it copies from; an interruption here does not end it
  jobs,      \* what sbatch accepted: for each job its tasks, as long as anyone may ask for them
  fetched,   \* the parts in build/hpc/JOB
  json, md,  \* the two files of the report
  reported,  \* the commit of the last subcommand, if it is a run that exited with 0
  disturbed  \* whether a build was interrupted before it was recorded or replaced the image
             \* of pending tasks, or a job was recorded and the image it was submitted for not

cluster == <<sif, building, jobs>>
report == <<json, md>>
operator == <<typed, proc, reported>>
vars == <<operator, env, cluster, fetched, report, disturbed>>

-----------------------------------------------------------------------------
Tasks == 1 .. NTasks

None == "none"
NoJob == 0
Cut == "cut"  \* a part that ends in the middle

Task(state, c) == [state |-> state, commit |-> c]
Pending == Task("PENDING", None)
NotStarted == [t \in Tasks |-> Pending]
Failed == Task("FAILED", None)
Terminal == {"COMPLETED", "FAILED"}

NoParts == [t \in Tasks |-> None]
NoFile == [job |-> NoJob, parts |-> NoParts]
Have(parts) == Cardinality({t \in Tasks : parts[t] # None})
AllParts(parts) == Have(parts) = NTasks

Idle == [stages |-> <<>>, at |-> "start", commit |-> None, force |-> FALSE, run |-> FALSE]
RunStages(wait) ==
  IF wait THEN <<"build", "submit", "status", "fetch", "merge">> ELSE <<"build", "submit">>

In(stage, at) == proc.stages # <<>> /\ Head(proc.stages) = stage /\ proc.at = at
Goto(at) == proc' = [proc EXCEPT !.at = at] /\ UNCHANGED <<typed, reported>>

\* The stage returns; after the last one the subcommand exits with 0.
Return ==
  /\ proc' = IF Len(proc.stages) = 1 THEN Idle ELSE [proc EXCEPT !.stages = Tail(@), !.at = "start"]
  /\ reported' = IF proc.run /\ proc.stages = <<"merge">> THEN proc.commit ELSE reported
  /\ UNCHANGED typed

Exit == proc' = Idle /\ UNCHANGED <<typed, reported>>

-----------------------------------------------------------------------------
Init ==
  /\ typed = 0 /\ proc = Idle
  /\ env = [image |-> None, job |-> NoJob, jobImage |-> None, doneJob |-> NoJob, mergedJob |-> NoJob]
  /\ sif = None /\ building = [c \in Commits |-> "no"] /\ jobs = <<>>
  /\ fetched = [j \in 1 .. MaxJobs |-> NoParts]
  /\ json = NoFile /\ md = NoFile
  /\ reported = None /\ disturbed = FALSE

Begin ==
  /\ proc = Idle /\ typed < MaxCommands
  /\ typed' = typed + 1
  /\ \/ \E c \in Commits, wait \in BOOLEAN :
          proc' = [Idle EXCEPT !.stages = RunStages(wait), !.commit = c, !.run = TRUE]
     \/ \E c \in Commits : proc' = [Idle EXCEPT !.stages = <<"build">>, !.commit = c]
     \/ \E force \in BOOLEAN : proc' = [Idle EXCEPT !.stages = <<"submit">>, !.force = force]
     \/ \E s \in {"status", "fetch", "merge"} : proc' = [Idle EXCEPT !.stages = <<s>>]
  /\ reported' = None
  /\ UNCHANGED <<env, cluster, fetched, report, disturbed>>

\* A build that nobody waits for goes on, and so does a job nobody has recorded, but
\* that one only runs for nothing.
Unrecorded == proc.at \in {"building", "built", "recorded"}

\* A call fails and the subcommand dies (set -e, die), or it is interrupted.
Stop ==
  /\ proc # Idle
  /\ Exit
  /\ disturbed' = (disturbed \/ Unrecorded)
  /\ UNCHANGED <<env, cluster, fetched, report>>

-----------------------------------------------------------------------------
Built == env.image = proc.commit /\ sif # None

BuildSkips ==
  /\ In("build", "start") /\ Built
  /\ Return
  /\ UNCHANGED <<env, cluster, fetched, report, disturbed>>

\* ssh runs build-image.sh there, and reports how it ended to whoever waits.
BuildStarts ==
  /\ In("build", "start") /\ ~Built
  /\ building' = [building EXCEPT ![proc.commit] = "cloning"]
  /\ Goto("building")
  /\ UNCHANGED <<env, sif, jobs, fetched, report, disturbed>>

Copying(c) == building[c] \in Commits

\* There is one clone, from which every build copies.
Checkout(c) ==
  /\ building[c] = "cloning"
  /\ building' = [d \in Commits |-> IF d = c \/ Copying(d) THEN c ELSE building[d]]
  /\ UNCHANGED <<operator, env, sif, jobs, fetched, report, disturbed>>

\* The recorded job and the one about to be: what becomes of another makes no difference.
Followed == ({env.job} \cup (IF proc.at = "submitted" THEN {Len(jobs)} ELSE {})) \ {NoJob}

Waiting(c) == In("build", "building") /\ proc.commit = c
SomePending == \E j \in Followed : \E t \in Tasks : jobs[j][t] = Pending

\* Another build may have checked out its own commit before this one copied.
BuildInstalls(c) ==
  /\ Copying(c)
  /\ building' = [building EXCEPT ![c] = "no"]
  /\ sif' \in {c, building[c]}
  /\ disturbed' = (disturbed \/ (sif' # sif /\ SomePending))
  /\ IF Waiting(c) THEN Goto("built") ELSE UNCHANGED operator
  /\ UNCHANGED <<env, jobs, fetched, report>>

BuildFails(c) ==
  /\ building[c] # "no"
  /\ building' = [building EXCEPT ![c] = "no"]
  /\ IF Waiting(c) THEN Exit ELSE UNCHANGED operator
  /\ UNCHANGED <<env, sif, jobs, fetched, report, disturbed>>

RecordImage ==
  /\ In("build", "built")
  /\ env' = [env EXCEPT !.image = proc.commit]
  /\ Return
  /\ UNCHANGED <<cluster, fetched, report, disturbed>>

-----------------------------------------------------------------------------
\* A job is already submitted for the recorded image.  (A name with an underscore
\* is a faulty variant of the definition that follows it.)
Submitted_ForAny == env.job # NoJob
Submitted == env.job # NoJob /\ env.jobImage = env.image

SubmitSkips ==
  /\ In("submit", "start") /\ ~proc.force /\ Submitted
  /\ Return
  /\ UNCHANGED <<env, cluster, fetched, report, disturbed>>

Sbatch ==
  /\ In("submit", "start") /\ (proc.force \/ ~Submitted)
  /\ Len(jobs) < MaxJobs
  /\ jobs' = Append(jobs, NotStarted)
  /\ Goto("submitted")
  /\ UNCHANGED <<env, sif, building, fetched, report, disturbed>>

\* The job recorded before is forgotten, with what its tasks did.
RecordJob ==
  /\ In("submit", "submitted")
  /\ env' = [env EXCEPT !.job = Len(jobs)]
  /\ jobs' = [j \in DOMAIN jobs |-> IF j = Len(jobs) THEN jobs[j] ELSE NotStarted]
  /\ Goto("recorded")
  /\ UNCHANGED <<sif, building, fetched, report, disturbed>>

RecordJobImage ==
  /\ In("submit", "recorded")
  /\ env' = [env EXCEPT !.jobImage = env.image]
  /\ Return
  /\ UNCHANGED <<cluster, fetched, report, disturbed>>

-----------------------------------------------------------------------------
\* sacct's states of the recorded job, which a run polls until no task is left;
\* a status typed by itself is one such look.
SomeFailed_OrAll == \A t \in Tasks : jobs[env.job][t].state = "FAILED"
SomeFailed == \E t \in Tasks : jobs[env.job][t].state = "FAILED"
AllCompleted == \A t \in Tasks : jobs[env.job][t].state = "COMPLETED"

StatusKnown ==
  /\ In("status", "start") /\ env.job # NoJob /\ env.doneJob = env.job
  /\ Return
  /\ UNCHANGED <<env, cluster, fetched, report, disturbed>>

Asks == In("status", "start") /\ env.job # NoJob /\ env.doneJob # env.job

StatusDone ==
  /\ Asks /\ ~SomeFailed /\ AllCompleted
  /\ env' = [env EXCEPT !.doneJob = env.job]
  /\ Return
  /\ UNCHANGED <<cluster, fetched, report, disturbed>>

StatusFailed ==
  /\ Asks /\ SomeFailed
  /\ Exit
  /\ UNCHANGED <<env, cluster, fetched, report, disturbed>>

\* While tasks are pending or running, a run sleeps and asks again, which is no step;
\* a status typed by itself exits with 2.
StatusPending ==
  /\ Asks /\ ~SomeFailed /\ ~AllCompleted /\ ~proc.run
  /\ Exit
  /\ UNCHANGED <<env, cluster, fetched, report, disturbed>>

-----------------------------------------------------------------------------
\* What a copy of a task's part can be.  A task writes its part once, at its end, and
\* does not look whether all of it was written: one that runs or failed may have
\* written none of it, half of it or all of it, and one that completed half or all.
Copies(t) ==
  LET task == jobs[env.job][t]
      old  == fetched[env.job][t]
  IN  CASE task.commit = None         -> {old}
        [] task.state = "COMPLETED"   -> {task.commit, Cut}
        [] OTHER                      -> {task.commit, Cut, old}

FetchSkips ==
  /\ In("fetch", "start") /\ env.job # NoJob /\ AllParts(fetched[env.job])
  /\ Return
  /\ UNCHANGED <<env, cluster, fetched, report, disturbed>>

\* scp copies part by part.
Fetch ==
  /\ In("fetch", "start") /\ env.job # NoJob /\ ~AllParts(fetched[env.job])
  /\ \E parts \in [Tasks -> Commits \cup {None, Cut}] :
       /\ \A t \in Tasks : parts[t] \in Copies(t)
       /\ fetched' = [fetched EXCEPT ![env.job] = parts]
       /\ IF AllParts(parts) THEN Return ELSE Exit
  /\ UNCHANGED <<env, cluster, report, disturbed>>

\* The copy is cut off in the part of task u.
FetchCut ==
  /\ In("fetch", "start") /\ env.job # NoJob /\ ~AllParts(fetched[env.job])
  /\ \E u \in Tasks, parts \in [Tasks -> Commits \cup {None, Cut}] :
       /\ jobs[env.job][u].commit # None /\ parts[u] = Cut
       /\ \A t \in Tasks : /\ t < u => parts[t] \in Copies(t)
                           /\ t > u => parts[t] = fetched[env.job][t]
       /\ fetched' = [fetched EXCEPT ![env.job] = parts]
  /\ Exit
  /\ UNCHANGED <<env, cluster, report, disturbed>>

-----------------------------------------------------------------------------
\* merge_sweep.py: every part can be parsed, all are of one commit, and together
\* they have the families of the sweep, of which each task has its own.
Mergeable(parts) == \E c \in Commits : \A t \in Tasks : parts[t] = c

Merged == env.mergedJob = env.job /\ json # NoFile /\ md # NoFile

MergeSkips ==
  /\ In("merge", "start") /\ env.job # NoJob /\ Merged
  /\ Return
  /\ UNCHANGED <<env, cluster, fetched, report, disturbed>>

MergeJson_Recorded ==
  /\ In("merge", "start") /\ env.job # NoJob /\ ~Merged /\ Mergeable(fetched[env.job])
  /\ json' = [job |-> env.job, parts |-> fetched[env.job]]
  /\ env' = [env EXCEPT !.mergedJob = env.job]
  /\ Goto("json")
  /\ UNCHANGED <<cluster, fetched, md, disturbed>>
MergeJson ==
  /\ In("merge", "start") /\ env.job # NoJob /\ ~Merged /\ Mergeable(fetched[env.job])
  /\ json' = [job |-> env.job, parts |-> fetched[env.job]]
  /\ Goto("json")
  /\ UNCHANGED <<env, cluster, fetched, md, disturbed>>

MergeMd ==
  /\ In("merge", "json")
  /\ md' = json
  /\ Goto("md")
  /\ UNCHANGED <<env, cluster, fetched, json, disturbed>>

RecordMerge ==
  /\ In("merge", "md")
  /\ env' = [env EXCEPT !.mergedJob = env.job]
  /\ Return
  /\ UNCHANGED <<cluster, fetched, report, disturbed>>

-----------------------------------------------------------------------------
\* SLURM.  A task runs the image that is there when it starts.
TaskStep(j, t) ==
  /\ j \in Followed
  /\ LET task == jobs[j][t]
         to   == IF task = Pending
                 THEN {Failed} \cup (IF sif = None THEN {} ELSE {Task("RUNNING", sif)})
                 ELSE {Task("FAILED", task.commit), Task("COMPLETED", task.commit)}
     IN  /\ task.state \notin Terminal
         /\ \E new \in to : jobs' = [jobs EXCEPT ![j][t] = new]
  /\ UNCHANGED <<operator, env, sif, building, fetched, report, disturbed>>

\* The next call fails whatever is tried: sbatch refuses, there is no job, or
\* merge_sweep.py rejects the parts.
Refused ==
  \/ In("submit", "start") /\ (proc.force \/ ~Submitted) /\ Len(jobs) = MaxJobs
  \/ env.job = NoJob /\ \E stage \in {"status", "fetch", "merge"} : In(stage, "start")
  \/ In("merge", "start") /\ ~Merged /\ ~Mergeable(fetched[env.job])

Step ==
  \/ BuildSkips \/ BuildStarts \/ RecordImage
  \/ SubmitSkips \/ Sbatch \/ RecordJob \/ RecordJobImage
  \/ StatusKnown \/ StatusDone \/ StatusFailed \/ StatusPending
  \/ FetchSkips \/ Fetch \/ FetchCut
  \/ MergeSkips \/ MergeJson \/ MergeMd \/ RecordMerge

ClusterStep ==
  \/ \E c \in Commits : Checkout(c) \/ BuildInstalls(c) \/ BuildFails(c)
  \/ \E j \in 1 .. MaxJobs, t \in Tasks : TaskStep(j, t)

Next == Begin \/ Stop \/ Step \/ ClusterStep

\* Every build and every submitted task ends, and a subcommand goes on until it
\* exits or its next call is refused.
Spec ==
  /\ Init /\ [][Next]_vars
  /\ WF_vars(ClusterStep) /\ WF_vars(Step) /\ WF_vars(Refused /\ Stop)

-----------------------------------------------------------------------------
\* The report is of one sweep, and of the job that is recorded as merged: parts
\* that are cut, missing or of two images are never mixed in, and no interruption
\* makes a later merge skip a report that is missing or of another job.
ReportIsOneSweep ==
  /\ \A file \in {json, md} \ {NoFile} : \E c \in Commits : \A t \in Tasks : file.parts[t] = c
  /\ env.mergedJob # NoJob /\ env.mergedJob = env.job =>
       json.job = env.job /\ md = json

\* A run that exits with 0 has reported the commit it was asked for, from tasks that
\* all completed, unless the image was lost sight of or replaced under pending tasks, or
\* a submission was cut off between its two records.
RunReportsItsCommit ==
  reported # None /\ ~disturbed =>
    /\ md = json /\ \A t \in Tasks : json.parts[t] = reported
    /\ \A t \in Tasks : jobs[env.job][t] = Task("COMPLETED", reported)

\* The wait of a run ends: once its tasks have, it sees the last of them complete or
\* one of them failed.
RunEnds == proc # Idle ~> proc = Idle
===============================================================================
