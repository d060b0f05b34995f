------------------------------- MODULE DepsCommit -------------------------------
(***************************************************************************)
(* ltlf-ek-deps' files.  Every invocation analyses a formula, stages its     *)
(* artifacts in sibling temp files, renames them into place in order, the    *)
(* part file last, and clears a transducer that an earlier invocation left   *)
(* at the path when there is none to write.  Any system call may fail, and   *)
(* the process may be killed between any two of them.                       *)
(***************************************************************************)
EXTENDS Naturals, Sequences

CONSTANTS
  Xdeps,   \* the dependent sets an analysis may find; none is the empty one
  none,
  MaxRuns  \* bound: invocations with the same paths

ASSUME DepsAssumption == none \in Xdeps /\ MaxRuns \in Nat

VARIABLES
  flags,   \* which of --transducer and --emit-part every invocation passes
  disk,    \* the file at each artifact's path
  temp,    \* the file at each artifact's path + ".ltlf-ek-deps.tmp"
  pc,      \* "idle", "stage", "install", "clear"
  run,     \* invocations so far
  xdep,    \* result.dependent
  next,    \* index in artifacts of the next one to stage or install
  exit     \* how the last invocation ended: "none", "ok", "failed", "killed"

commitVars == <<flags, disk, temp, pc, run, xdep, next, exit>>

Artifact == {"transducer", "part"}
Absent == [run |-> 0, xdep |-> none, whole |-> TRUE]
File == [run : 1 .. MaxRuns, xdep : Xdeps, whole : BOOLEAN]

\* The order is the contract: the part file is the keystone and goes last.
IfWanted(a, x) == IF a \in flags /\ (a = "transducer" => x # none) THEN <<a>> ELSE <<>>
Artifacts_PartFirst(x) == IfWanted("part", x) \o IfWanted("transducer", x)
Artifacts(x) == IfWanted("transducer", x) \o IfWanted("part", x)

First == 1

\* The flush on close may fail late: the stream is checked after it.
LateFailure_Unchecked(f) == FALSE
LateFailure(f) == ~f.whole

\* discard_temps: the staged files pushed so far.
Discarded == [a \in Artifact |->
  IF \E n \in 1 .. (next - 1) : Artifacts(xdep)[n] = a THEN Absent ELSE temp[a]]

Ends(e) == pc' = "idle" /\ exit' = e

-----------------------------------------------------------------------------
CommitInit ==
  /\ flags \in SUBSET Artifact
  /\ disk = [a \in Artifact |-> Absent] /\ temp = [a \in Artifact |-> Absent]
  /\ pc = "idle" /\ run = 0 /\ xdep = none /\ next = 1 /\ exit = "none"

\* The analysis writes nothing: it finds a dependent set, or the invocation
\* ends (usage errors, an unsatisfiable formula).
Analyse ==
  /\ pc = "idle" /\ run < MaxRuns
  /\ run' = run + 1 /\ next' = First
  /\ \/ xdep' \in Xdeps /\ pc' = "stage" /\ exit' = "none"
     \/ xdep' = none /\ Ends("failed")
  /\ UNCHANGED <<flags, disk, temp>>

OpenFails ==
  /\ pc = "stage" /\ next <= Len(Artifacts(xdep))
  /\ temp' = Discarded /\ Ends("failed")
  /\ UNCHANGED <<flags, disk, run, xdep, next>>

\* Open, write, close and check one temp file.
Stage ==
  /\ pc = "stage" /\ next <= Len(Artifacts(xdep))
  /\ \E w \in BOOLEAN :
       LET a == Artifacts(xdep)[next]
           f == [run |-> run, xdep |-> xdep, whole |-> w]
       IN  IF LateFailure(f)
           THEN /\ temp' = [Discarded EXCEPT ![a] = f] /\ Ends("failed")
                /\ UNCHANGED next
           ELSE /\ temp' = [temp EXCEPT ![a] = f] /\ next' = next + 1
                /\ UNCHANGED <<pc, exit>>
  /\ UNCHANGED <<flags, disk, run, xdep>>

StagedAll ==
  /\ pc = "stage" /\ next > Len(Artifacts(xdep))
  /\ pc' = "install" /\ next' = First
  /\ UNCHANGED <<flags, disk, temp, run, xdep, exit>>

Install ==
  /\ pc = "install" /\ next <= Len(Artifacts(xdep))
  /\ LET a == Artifacts(xdep)[next]
     IN  /\ disk' = [disk EXCEPT ![a] = temp[a]]
         /\ temp' = [temp EXCEPT ![a] = Absent]
  /\ next' = next + 1
  /\ UNCHANGED <<flags, pc, run, xdep, exit>>

\* Every temp is discarded; those already renamed are gone from there anyway.
InstallFails ==
  /\ pc = "install" /\ next <= Len(Artifacts(xdep))
  /\ temp' = [a \in Artifact |->
       IF \E n \in DOMAIN Artifacts(xdep) : Artifacts(xdep)[n] = a THEN Absent ELSE temp[a]]
  /\ Ends("failed")
  /\ UNCHANGED <<flags, disk, run, xdep, next>>

HasStale_Never == FALSE
HasStale == "transducer" \in flags /\ xdep = none

InstalledAll ==
  /\ pc = "install" /\ next > Len(Artifacts(xdep))
  /\ IF HasStale THEN pc' = "clear" /\ UNCHANGED exit ELSE Ends("ok")
  /\ UNCHANGED <<flags, disk, temp, run, xdep, next>>

RemoveStaleTransducer ==
  /\ pc = "clear"
  /\ disk' = [disk EXCEPT !["transducer"] = Absent] /\ Ends("ok")
  /\ UNCHANGED <<flags, temp, run, xdep, next>>

RemoveFails ==
  /\ pc = "clear" /\ Ends("failed")
  /\ UNCHANGED <<flags, disk, temp, run, xdep, next>>

\* The process is killed, perhaps while a temp file is being written.
Killed ==
  /\ pc # "idle" /\ Ends("killed")
  /\ \/ UNCHANGED temp
     \/ /\ pc = "stage" /\ next <= Len(Artifacts(xdep))
        /\ temp' = [temp EXCEPT ![Artifacts(xdep)[next]] = [run |-> run, xdep |-> xdep, whole |-> FALSE]]
  /\ UNCHANGED <<flags, disk, run, xdep, next>>

CommitNext ==
  \/ Analyse
  \/ OpenFails \/ Stage \/ StagedAll
  \/ Install \/ InstallFails \/ InstalledAll
  \/ RemoveStaleTransducer \/ RemoveFails
  \/ Killed

CommitSpec == CommitInit /\ [][CommitNext]_commitVars

-----------------------------------------------------------------------------
CommitTypeOK ==
  /\ flags \subseteq Artifact
  /\ disk \in [Artifact -> File \cup {Absent}] /\ temp \in [Artifact -> File \cup {Absent}]
  /\ pc \in {"idle", "stage", "install", "clear"}
  /\ run \in 0 .. MaxRuns /\ xdep \in Xdeps
  /\ next \in 1 .. (Len(Artifacts(xdep)) + 1)
  /\ exit \in {"none", "ok", "failed", "killed"}

\* No failure and no crash destroys a file that was there: what is at an
\* artifact's path is always the whole output of some invocation.
TargetsWhole == \A a \in Artifact : disk[a].whole

\* The ordering contract: whenever a part file on disk declares dependent
\* variables, a transducer at least as new stands beside it, so ltlf-ek-synth
\* never finds the orphan it refuses; crashes and failures included.
PartIsCovered ==
  flags = Artifact /\ disk["part"].xdep # none =>
    disk["transducer"] # Absent /\ disk["transducer"].run >= disk["part"].run

\* After a success the two files are of this invocation and agree: with nothing
\* dependent, no transducer of an earlier one is left.
SuccessIsConsistent ==
  flags = Artifact /\ exit = "ok" =>
    /\ disk["part"].run = run
    /\ disk["transducer"] = IF disk["part"].xdep = none THEN Absent ELSE disk["part"]

\* "And no staging file may survive the failure."
NoStagingFileSurvives ==
  pc = "idle" /\ exit \in {"ok", "failed"} => \A a \in Artifact : temp[a].run # run \/ run = 0

\* "A transducer nothing points at is inert": when a failed invocation leaves only
\* its transducer installed, no part file on disk points at it.
LoneTransducerIsInert ==
  flags = Artifact /\ exit = "failed" /\ disk["part"].xdep # none =>
    disk["transducer"].xdep = disk["part"].xdep
===============================================================================
