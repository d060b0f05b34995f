------------------------------ MODULE Bench_proofs ------------------------------
(***************************************************************************)
(* Proofs about ltlf-ek-bench: the runner of one case, and the sweep.  For any *)
(* number of repeats and any length of a payload: of what a repeat started,    *)
(* only what a crashed child left behind or never had in its group goes on; a  *)
(* child that exits with 0 has handed over its whole payload; only a child     *)
(* still at work is reported as a timeout; and no miss is silent.  For any     *)
(* registries, any command line, whatever the subjects and ltlfsynt do and     *)
(* whenever the budget ends: a partial sweep is broad, the race has its        *)
(* subjects, and what it reports as ok is not censored.                       *)
(***************************************************************************)
EXTENDS BenchRunner, BenchSweep, FiniteSetTheorems, SequenceTheorems, TLAPS

-----------------------------------------------------------------------------
(* BenchRunner.                                                             *)

Outcomes == {"success", "skip", "timed_out", "failed", "signal", "exit_1", "truncated payload"}

RunnerTypeOK ==
  /\ parent \in {"idle", "forked", "polling", "killing", "reaping", "done"}
  /\ verdict \in {"none", "timed_out", "poll_error"}
  /\ child \in Alive \cup {"none", "zombie"}
  /\ status \in {"none", "zero", "one", "signal"}
  /\ grouped \in BOOLEAN /\ expired \in BOOLEAN
  /\ rows \in {"none", "empty", "some"}
  /\ sent \in Nat /\ pipe \in Nat /\ buf \in Nat
  /\ outcomes \in Seq(Outcomes)

\* The parent is between two repeats exactly when there is no child, and from the
\* fork to the reaping it knows why it stopped polling.
RunnerPhases ==
  /\ parent \in {"idle", "done"} => child = "none"
  /\ parent \in {"forked", "polling"} => verdict = "none"
  /\ parent = "killing" => verdict # "none"
  /\ parent = "reaping" => child \notin Alive \ {"closed"}
  /\ parent = "reaping" /\ verdict # "none" => child \notin Alive

\* A wait status belongs to a child that has ended.
ChildEnded ==
  /\ child \in Alive => status = "none"
  /\ child = "zombie" => status # "none"

\* Every chunk that was written is in the pipe or in the parent's buffer, and who
\* is past the writing has written all.
PayloadAccounted ==
  /\ sent = pipe + buf
  /\ child = "closed" \/ status = "zero" => sent = Size(rows)
  /\ parent = "reaping" /\ verdict = "none" => pipe = 0

\* The child waits for MONA, whose group is the child's; a repeat not begun has none.
MonaIsWaitedFor ==
  /\ mona \subseteq 1 .. current /\ led \subseteq 1 .. current
  /\ parent \in {"idle", "done"} => current \notin mona \cup led
  /\ child \in {"forked", "running", "writing", "closed"} \/ status \in {"zero", "one"} => current \notin mona
  /\ child = "forked" => current \notin led
  /\ current \in led => grouped
  /\ parent = "reaping" /\ verdict # "none" => current \notin mona \cap led

RunnerInv ==
  /\ RunnerTypeOK /\ RunnerPhases /\ ChildEnded /\ PayloadAccounted /\ MonaIsWaitedFor
  /\ OnlyCrashesLeaveMona /\ EveryMissFlagged

-----------------------------------------------------------------------------
LEMMA CallIsPositive ==
  ASSUME RunnerTypeOK
  PROVE  current \in Nat \ {0} /\ Len(outcomes) \in Nat /\ DOMAIN outcomes = 1 .. Len(outcomes) /\ Len(outcomes) = current - 1
  BY LenProperties DEF RunnerTypeOK, current

LEMMA InitRunner == RunnerInit => RunnerInv
<1> SUFFICES ASSUME RunnerInit PROVE RunnerInv
  OBVIOUS
<1>1. outcomes \in Seq(Outcomes) /\ Len(outcomes) = 0 /\ current = 1
  BY EmptySeq DEF RunnerInit, current
<1>2. RunnerTypeOK
  BY <1>1 DEF RunnerInit, RunnerTypeOK
<1>3. RunnerPhases /\ ChildEnded /\ PayloadAccounted /\ MonaIsWaitedFor
  BY DEF RunnerInit, RunnerPhases, ChildEnded, PayloadAccounted, MonaIsWaitedFor, Alive
<1> QED
  BY <1>2, <1>3 DEF RunnerInit, RunnerInv, OnlyCrashesLeaveMona, EveryMissFlagged

\* What a repeat leaves behind is only judged when the parent counts it, and the
\* markers when it is done.
LEMMA WithinRepeat ==
  ASSUME RunnerInv, UNCHANGED <<outcomes, markers>>, parent' = parent \/ parent' # "done",
         mona' \subseteq mona \cup {current}, led' = led \/ led' = led \cup {current}
  PROVE  OnlyCrashesLeaveMona' /\ EveryMissFlagged'
<1>1. current' = current /\ current \in Nat \ {0}
  BY CallIsPositive DEF RunnerInv, current
<1>2. OnlyCrashesLeaveMona'
  BY <1>1 DEF RunnerInv, OnlyCrashesLeaveMona
<1>3. EveryMissFlagged'
  BY DEF RunnerInv, EveryMissFlagged
<1> QED
  BY <1>2, <1>3

LEMMA ForkIInv == RunnerInv /\ Fork => RunnerInv'
<1> SUFFICES ASSUME RunnerInv, Fork PROVE RunnerInv'
  OBVIOUS
<1>1. current' = current /\ current \in Nat \ {0}
  BY CallIsPositive DEF RunnerInv, Fork, current
<1>2. RunnerTypeOK'
  BY DEF RunnerInv, RunnerTypeOK, Fork, Alive
<1>3. RunnerPhases' /\ ChildEnded' /\ PayloadAccounted'
  BY DEF RunnerInv, RunnerPhases, ChildEnded, PayloadAccounted, Fork, Alive
<1>4. MonaIsWaitedFor'
  BY <1>1 DEF RunnerInv, MonaIsWaitedFor, Fork
<1>5. OnlyCrashesLeaveMona' /\ EveryMissFlagged'
  BY WithinRepeat DEF Fork
<1> QED
  BY <1>2, <1>3, <1>4, <1>5 DEF RunnerInv

\* A child that gets its group, or works, changes nothing of the parent's.
ChildWorks ==
  ChildSetpgid \/ StartMona \/ MonaEnds \/ CaseReturns \/ WriteChunk \/ Close

LEMMA ChildWorksIInv == RunnerInv /\ ChildWorks => RunnerInv'
<1> SUFFICES ASSUME RunnerInv, ChildWorks PROVE RunnerInv'
  OBVIOUS
<1>1. current' = current /\ current \in Nat \ {0}
  BY CallIsPositive DEF RunnerInv, ChildWorks, ChildSetpgid, StartMona, MonaEnds, CaseReturns, WriteChunk, Close,
     parentVars, current
<1>2. RunnerTypeOK'
  <2>1. CASE ChildSetpgid
    BY <2>1 DEF RunnerInv, RunnerTypeOK, ChildSetpgid, parentVars, Alive
  <2>2. CASE StartMona
    BY <2>2 DEF RunnerInv, RunnerTypeOK, StartMona, parentVars, Alive
  <2>3. CASE MonaEnds
    BY <2>3 DEF RunnerInv, RunnerTypeOK, MonaEnds, parentVars, Alive
  <2>4. CASE CaseReturns
    BY <2>4 DEF RunnerInv, RunnerTypeOK, CaseReturns, parentVars, Alive
  <2>5. CASE WriteChunk \/ Close
    BY <2>5 DEF RunnerInv, RunnerTypeOK, WriteChunk, Close, parentVars, Alive
  <2> QED
    BY <2>1, <2>2, <2>3, <2>4, <2>5 DEF ChildWorks
<1>3. RunnerPhases' /\ ChildEnded'
  BY DEF RunnerInv, RunnerPhases, ChildEnded, Alive, ChildWorks, ChildSetpgid, StartMona, MonaEnds, CaseReturns, WriteChunk,
     Close, parentVars
<1>4. PayloadAccounted'
  <2>1. CASE WriteChunk
    BY <2>1 DEF RunnerInv, RunnerTypeOK, RunnerPhases, ChildEnded, PayloadAccounted, WriteChunk, Alive, parentVars, Size
  <2>2. CASE ~WriteChunk
    BY <2>2 DEF RunnerInv, ChildEnded, PayloadAccounted, ChildWorks, ChildSetpgid, StartMona, MonaEnds, CaseReturns,
       Close, WrittenAll, Alive, parentVars, Size
  <2> QED
    BY <2>1, <2>2
<1>5. MonaIsWaitedFor'
  <2>1. CASE StartMona
    BY <1>1, <2>1 DEF RunnerInv, RunnerPhases, ChildEnded, MonaIsWaitedFor, StartMona, Alive, parentVars
  <2>2. CASE MonaEnds
    BY <1>1, <2>2 DEF RunnerInv, RunnerPhases, ChildEnded, MonaIsWaitedFor, MonaEnds, Alive, parentVars
  <2>3. CASE ~StartMona /\ ~MonaEnds
    BY <1>1, <2>3 DEF RunnerInv, RunnerTypeOK, RunnerPhases, ChildEnded, MonaIsWaitedFor, ChildWorks, ChildSetpgid, CaseReturns,
       WriteChunk, Close, Alive, parentVars
  <2> QED
    BY <2>1, <2>2, <2>3
<1>6. OnlyCrashesLeaveMona' /\ EveryMissFlagged'
  BY WithinRepeat DEF ChildWorks, ChildSetpgid, StartMona, MonaEnds, CaseReturns, WriteChunk, Close, parentVars
<1> QED
  BY <1>2, <1>3, <1>4, <1>5, <1>6 DEF RunnerInv

ChildEnds == CaseThrows \/ WriteFails \/ ChildExits \/ ChildCrashes

LEMMA ChildEndsIInv == RunnerInv /\ ChildEnds => RunnerInv'
<1> SUFFICES ASSUME RunnerInv, ChildEnds PROVE RunnerInv'
  OBVIOUS
<1>1. current' = current /\ current \in Nat \ {0}
  BY CallIsPositive DEF RunnerInv, ChildEnds, CaseThrows, WriteFails, ChildExits, ChildCrashes, parentVars, current
<1>2. RunnerTypeOK'
  BY DEF RunnerInv, RunnerTypeOK, ChildEnds, CaseThrows, WriteFails, ChildExits, ChildCrashes, Dies, parentVars
<1>3. RunnerPhases' /\ ChildEnded' /\ PayloadAccounted'
  BY DEF RunnerInv, RunnerPhases, ChildEnded, PayloadAccounted, Alive, ChildEnds, CaseThrows, WriteFails, ChildExits, ChildCrashes,
     Dies, parentVars, Size
<1>4. MonaIsWaitedFor'
  BY <1>1 DEF RunnerInv, RunnerPhases, ChildEnded, MonaIsWaitedFor, Alive, ChildEnds, CaseThrows, WriteFails, ChildExits, ChildCrashes,
     Dies, parentVars
<1>5. OnlyCrashesLeaveMona' /\ EveryMissFlagged'
  BY WithinRepeat DEF ChildEnds, CaseThrows, WriteFails, ChildExits, ChildCrashes, parentVars
<1> QED
  BY <1>2, <1>3, <1>4, <1>5 DEF RunnerInv

\* The parent from the fork to the reaping, and the clock.
ParentWaits == ParentSetpgid \/ Read \/ ReadEof \/ Deadline \/ PollError \/ Kill \/ Tick

LEMMA ParentWaitsIInv == RunnerInv /\ ParentWaits => RunnerInv'
<1> SUFFICES ASSUME RunnerInv, ParentWaits PROVE RunnerInv'
  OBVIOUS
<1> USE DEF parentVars, childVars
<1>1. current' = current /\ current \in Nat \ {0}
  BY CallIsPositive DEF RunnerInv, ParentWaits, ParentSetpgid, Read, ReadEof, Deadline, PollError, Kill, Tick, current
<1>2. OnlyCrashesLeaveMona' /\ EveryMissFlagged'
  BY WithinRepeat DEF ParentWaits, ParentSetpgid, Read, ReadEof, Deadline, PollError, Kill, Tick
<1>3. CASE ParentSetpgid \/ Tick
  <2>1. RunnerTypeOK' /\ RunnerPhases' /\ ChildEnded' /\ PayloadAccounted'
    BY <1>3 DEF RunnerInv, RunnerTypeOK, RunnerPhases, ChildEnded, PayloadAccounted, ParentSetpgid, Tick, Size
  <2>2. MonaIsWaitedFor'
    BY <1>1, <1>3 DEF RunnerInv, RunnerTypeOK, MonaIsWaitedFor, ParentSetpgid, Tick
  <2> QED
    BY <1>2, <2>1, <2>2 DEF RunnerInv
<1>4. CASE Read
  <2>1. buf' \in Nat /\ pipe' \in Nat /\ sent' = pipe' + buf'
    BY <1>4 DEF RunnerInv, RunnerTypeOK, PayloadAccounted, Read
  <2>2. RunnerTypeOK' /\ RunnerPhases' /\ ChildEnded'
    BY <1>4, <2>1 DEF RunnerInv, RunnerTypeOK, RunnerPhases, ChildEnded, Read
  <2>3. PayloadAccounted'
    BY <1>4, <2>1 DEF RunnerInv, PayloadAccounted, Read, Size
  <2>4. MonaIsWaitedFor'
    BY <1>1, <1>4 DEF RunnerInv, MonaIsWaitedFor, Read
  <2> QED
    BY <1>2, <2>2, <2>3, <2>4 DEF RunnerInv
<1>5. CASE ReadEof \/ Deadline \/ PollError
  <2>1. RunnerTypeOK' /\ RunnerPhases' /\ ChildEnded'
    BY <1>5 DEF RunnerInv, RunnerTypeOK, RunnerPhases, ChildEnded, ReadEof, Deadline, PollError, Writers
  <2>2. PayloadAccounted'
    BY <1>5 DEF RunnerInv, PayloadAccounted, ReadEof, Deadline, PollError, Size
  <2>3. MonaIsWaitedFor'
    <3>1. parent' = "reaping" => verdict' = "none"
      BY <1>5 DEF RunnerInv, ReadEof, Deadline, PollError, RunnerPhases
    <3> QED
      BY <1>1, <1>5, <3>1 DEF RunnerInv, MonaIsWaitedFor, ReadEof, Deadline, PollError
  <2> QED
    BY <1>2, <2>1, <2>2, <2>3 DEF RunnerInv
<1>6. CASE Kill
  <2>1. child' \notin Alive /\ parent' = "reaping" /\ verdict' # "none"
    BY <1>6 DEF RunnerInv, RunnerPhases, Kill, KilledChild, Dies, Alive
  <2>2. /\ status' = status \/ status' = "signal"
        /\ child' = child \/ child' = "zombie"
        /\ child' = "zombie" => status' # "none"
    BY <1>6 DEF RunnerInv, ChildEnded, Kill, KilledChild, Dies
  <2>3. RunnerTypeOK'
    BY <1>6, <2>2 DEF RunnerInv, RunnerTypeOK, Kill
  <2>4. RunnerPhases' /\ ChildEnded'
    BY <2>1, <2>2 DEF RunnerPhases, ChildEnded, Alive
  <2>5. PayloadAccounted'
    BY <1>6, <2>1, <2>2 DEF RunnerInv, PayloadAccounted, Kill, Size, Alive
  <2>6. MonaIsWaitedFor'
    <3>1. current \in led => mona' = mona \ ({current} \cap led)
      BY <1>6 DEF RunnerInv, MonaIsWaitedFor, Kill, KilledMona
    <3>2. mona' \subseteq mona /\ led' = led /\ grouped' = grouped
      BY <1>6 DEF Kill
    <3> QED
      BY <1>1, <2>1, <2>2, <3>1, <3>2 DEF RunnerInv, MonaIsWaitedFor, Alive
  <2> QED
    BY <1>2, <2>3, <2>4, <2>5, <2>6 DEF RunnerInv
<1> QED
  BY <1>3, <1>4, <1>5, <1>6 DEF ParentWaits

\* A repeat ends with an outcome; unless that is "signal", nothing of it is left
\* that was in its group.
LEMMA ReturnIInv ==
  ASSUME RunnerInv, NEW o \in Outcomes, Return(o), parent # "done", child' = "none",
         o # "signal" => current \notin mona \cap led,
         UNCHANGED <<verdict, markers, status, grouped, mona, led, rows, sent, pipe, buf, expired>>
  PROVE  RunnerInv'
<1>1. /\ current \in Nat \ {0} /\ Len(outcomes) = current - 1 /\ current' = current + 1
      /\ outcomes' \in Seq(Outcomes) /\ outcomes'[current] = o
      /\ \A c \in 1 .. current - 1 : outcomes'[c] = outcomes[c]
  BY CallIsPositive, AppendProperties, LenProperties DEF RunnerInv, RunnerTypeOK, Return, current
<1>2. RunnerTypeOK'
  BY <1>1 DEF RunnerInv, RunnerTypeOK, Return
<1>3. RunnerPhases' /\ ChildEnded' /\ PayloadAccounted'
  BY DEF RunnerInv, RunnerPhases, ChildEnded, PayloadAccounted, Return, Alive, Size
<1>4. MonaIsWaitedFor'
  BY <1>1 DEF RunnerInv, MonaIsWaitedFor, Return
<1>5. OnlyCrashesLeaveMona'
  BY <1>1 DEF RunnerInv, MonaIsWaitedFor, OnlyCrashesLeaveMona
<1>6. EveryMissFlagged'
  BY DEF EveryMissFlagged, Return
<1> QED
  BY <1>2, <1>3, <1>4, <1>5, <1>6 DEF RunnerInv

LEMMA PipeOrForkFailsIInv == RunnerInv /\ PipeOrForkFails => RunnerInv'
<1> SUFFICES ASSUME RunnerInv, PipeOrForkFails PROVE RunnerInv'
  OBVIOUS
<1>1. "failed" \in Outcomes /\ Return("failed") /\ child' = "none" /\ current \notin mona \cap led
  BY DEF RunnerInv, RunnerPhases, MonaIsWaitedFor, PipeOrForkFails, Outcomes, childVars
<1> QED
  BY <1>1, ReturnIInv DEF PipeOrForkFails, childVars

LEMMA ReapIInv == RunnerInv /\ Reap => RunnerInv'
<1> SUFFICES ASSUME RunnerInv, Reap PROVE RunnerInv'
  OBVIOUS
<1>1. Outcome \in Outcomes
  BY DEF RunnerInv, RunnerTypeOK, Outcome, Outcomes, Reap
<1>2. Outcome # "signal" => current \notin mona \cap led
  BY DEF RunnerInv, RunnerTypeOK, ChildEnded, MonaIsWaitedFor, Outcome, Reap
<1> QED
  BY <1>1, <1>2, ReturnIInv DEF Reap

\* A counter of outcomes is positive when one of them occurs.
LEMMA CountPositive ==
  ASSUME RunnerTypeOK, NEW S, NEW c \in DOMAIN outcomes, outcomes[c] \in S
  PROVE  Count(S) > 0
<1> DEFINE T == {x \in DOMAIN outcomes : outcomes[x] \in S}
<1>1. IsFiniteSet(T) /\ T # {}
  <2>1. DOMAIN outcomes = 1 .. Len(outcomes) /\ Len(outcomes) \in Nat
    BY CallIsPositive
  <2>2. IsFiniteSet(1 .. Len(outcomes))
    BY <2>1, FS_Interval
  <2>3. T \in SUBSET (1 .. Len(outcomes)) /\ c \in T
    BY <2>1
  <2> QED
    BY <2>2, <2>3, FS_Subset
<1>2. Cardinality(T) \in Nat /\ Cardinality(T) # 0
  BY <1>1, FS_CardinalityType, FS_EmptySet
<1> QED
  BY <1>2 DEF Count

LEMMA ReportIInv == RunnerInv /\ Report => RunnerInv'
<1> SUFFICES ASSUME RunnerInv, Report PROVE RunnerInv'
  OBVIOUS
<1>1. current' = current /\ child = "none" /\ parent = "idle" /\ parent' = "done" /\ outcomes' = outcomes
  BY DEF RunnerInv, RunnerPhases, Report, current, childVars
<1>2. RunnerTypeOK'
  BY DEF RunnerInv, RunnerTypeOK, Report, childVars
<1>3. RunnerPhases' /\ ChildEnded' /\ PayloadAccounted' /\ MonaIsWaitedFor'
  BY <1>1 DEF RunnerInv, RunnerPhases, ChildEnded, PayloadAccounted, MonaIsWaitedFor, Report, childVars, Alive, Size
<1>4. OnlyCrashesLeaveMona'
  BY <1>1 DEF RunnerInv, OnlyCrashesLeaveMona, Report
<1>5. EveryMissFlagged'
  <2> SUFFICES ASSUME NEW c \in DOMAIN outcomes
               PROVE  /\ outcomes[c] = "timed_out" => "timeout" \in CellMarkers
                      /\ outcomes[c] \in {"failed", "signal", "exit_1", "truncated payload"} => "failed" \in CellMarkers
                      /\ outcomes[c] = "success" => "values" \in CellMarkers
    BY <1>1 DEF EveryMissFlagged, Report
  <2>1. outcomes[c] = "timed_out" => timeouts > 0
    BY CountPositive DEF RunnerInv, timeouts
  <2>2. outcomes[c] \in {"failed", "signal", "exit_1", "truncated payload"} => failures > 0
    BY CountPositive DEF RunnerInv, failures
  <2>3. outcomes[c] = "success" => successes > 0
    BY CountPositive DEF RunnerInv, successes
  <2> QED
    BY <2>1, <2>2, <2>3 DEF CellMarkers
<1> QED
  BY <1>2, <1>3, <1>4, <1>5 DEF RunnerInv

LEMMA StutterRunner == RunnerInv /\ UNCHANGED runnerVars => RunnerInv'
<1> SUFFICES ASSUME RunnerInv, UNCHANGED runnerVars PROVE RunnerInv'
  OBVIOUS
<1> USE DEF runnerVars, parentVars, childVars
<1>1. RunnerTypeOK'
  BY DEF RunnerInv, RunnerTypeOK
<1>2. RunnerPhases' /\ ChildEnded' /\ PayloadAccounted'
  BY DEF RunnerInv, RunnerPhases, ChildEnded, PayloadAccounted, Size
<1>3. MonaIsWaitedFor' /\ OnlyCrashesLeaveMona'
  BY DEF RunnerInv, MonaIsWaitedFor, OnlyCrashesLeaveMona, current
<1>4. EveryMissFlagged'
  BY DEF RunnerInv, EveryMissFlagged
<1> QED
  BY <1>1, <1>2, <1>3, <1>4 DEF RunnerInv

-----------------------------------------------------------------------------
\* The strengthened invariant is inductive, whatever the number of repeats.
THEOREM RunnerInvariant == RunnerSpec => []RunnerInv
<1>1. RunnerInv /\ [RunnerNext]_runnerVars => RunnerInv'
  BY ForkIInv, ChildWorksIInv, ChildEndsIInv, ParentWaitsIInv, PipeOrForkFailsIInv, ReapIInv, ReportIInv,
     StutterRunner DEF RunnerNext, Parent, ParentMoves, Child, ChildWorks, ChildEnds, ParentWaits
<1> QED
  BY <1>1, InitRunner, PTL DEF RunnerSpec

\* The variables keep their types.
THEOREM RunnerTypeCorrect == RunnerSpec => []RunnerTypeOK
<1>1. RunnerInv => RunnerTypeOK
  BY DEF RunnerInv
<1> QED
  BY <1>1, RunnerInvariant, PTL

\* A MONA process that goes on after its repeat was left by a child that crashed, or
\* was never in its child's group: RunCaseWithTimeout kills all the others.
THEOREM NoMonaForgotten == RunnerSpec => []OnlyCrashesLeaveMona
<1>1. RunnerInv => OnlyCrashesLeaveMona
  BY DEF RunnerInv
<1> QED
  BY <1>1, RunnerInvariant, PTL

\* When the parent has seen EOF and the child exited with 0, the parent has the whole
\* payload, however long it is and however the pipe cut it up.
THEOREM NothingTruncated == RunnerSpec => []ExitZeroIsComplete
<1>1. RunnerInv => ExitZeroIsComplete
  BY DEF RunnerInv, RunnerTypeOK, PayloadAccounted, ExitZeroIsComplete
<1> QED
  BY <1>1, RunnerInvariant, PTL

\* RunCaseRepeated leaves a marker for each kind of miss among the repeats.
THEOREM NoSilentMiss == RunnerSpec => []EveryMissFlagged
<1>1. RunnerInv => EveryMissFlagged
  BY DEF RunnerInv
<1> QED
  BY <1>1, RunnerInvariant, PTL

\* A run becomes a timeout only while its child is at work.
THEOREM NoFinishedRunTimesOut == RunnerSpec => TimeoutMeansRunning
<1>1. [RunnerNext]_runnerVars => [verdict' = "timed_out" /\ verdict # "timed_out" => child \in Alive]_runnerVars
  BY DEF RunnerNext, Parent, ParentMoves, Child, PipeOrForkFails, Fork, ParentSetpgid, Read, ReadEof, Deadline, PollError, Kill,
     Reap, Report, ChildSetpgid, StartMona, MonaEnds, CaseReturns, CaseThrows, WriteChunk, WriteFails, Close, ChildExits,
     ChildCrashes, Tick, Writers, runnerVars, parentVars, childVars
<1> QED
  BY <1>1, PTL DEF RunnerSpec, TimeoutMeansRunning

-----------------------------------------------------------------------------
(* BenchSweep.                                                              *)

Positions == [n : Int, pol : {0, 1}, f : 1 .. Len(FamilyRegistry)]

\* The order of the nested loops.
Precedes(p, q) ==
  \/ p.n < q.n
  \/ p.n = q.n /\ p.pol < q.pol
  \/ p.n = q.n /\ p.pol = q.pol /\ p.f < q.f

Sweeping == {"case", "subject", "race"}
Ended == {"summary", "write", "export", "done"}

TypeOK ==
  /\ call \in Calls
  /\ phase \in {"args"} \cup Sweeping \cup Ended
  /\ at \in Positions /\ s \in Nat \ {0} /\ late \in BOOLEAN /\ stopped \in BOOLEAN
  /\ DOMAIN race = DOMAIN NoRace /\ race.rep \in Nat
  /\ race.success \in BOOLEAN /\ race.timeout \in BOOLEAN /\ race.noInternal \in BOOLEAN

\* A command line that is refused measures nothing; a case is only taken when it is
\* wanted; and the sweep goes on until it was stopped or no case is left.
Phases ==
  /\ phase = "args" => ran = {} /\ ltlfsynt = {} /\ exit = -1
  /\ phase \in Sweeping => exit = -1
  /\ exit = 2 => phase = "done" /\ ran = {} /\ ltlfsynt = {}
  /\ phase # "args" /\ exit # 2 => ~UsageError(call)
  /\ phase \in {"subject", "race"} => CasesLeft /\ Wanted(case)
  /\ at.n >= call.nMin
  /\ stopped => Swept
  /\ Swept /\ ~stopped => ~CasesLeft

\* Every subject was run on every wanted case before the one at hand, and on that
\* one every subject before the one at hand.
Covered ==
  /\ exit # 2 => \A p \in Positions, sub \in subjects :
       p.n >= call.nMin /\ Precedes(p, at) /\ Wanted(CaseAt(p)) => <<CaseAt(p), sub>> \in ran
  /\ phase = "subject" => \A j \in DOMAIN SubjectRegistry :
       j < s /\ SubjectRegistry[j] \in subjects => <<case, SubjectRegistry[j]>> \in ran
  /\ phase = "race" => \A sub \in subjects : <<case, sub>> \in ran

\* Nothing else was run.
NothingAhead ==
  \A x \in ran : \E p \in Positions, sub \in subjects :
    /\ x = <<CaseAt(p), sub>>
    /\ \/ Precedes(p, at)
       \/ /\ p = at /\ phase # "case"
          /\ phase = "subject" => \E j \in DOMAIN SubjectRegistry : j < s /\ sub = SubjectRegistry[j]

StoppedShort == stopped => \E c \in Cases, sub \in subjects : <<c, sub>> \notin ran

\* What the accumulators of the race say of its repeats so far.
RaceSoFar ==
  /\ race.rep > 0 => call.formulaWritten
  /\ race.success => race.rep > 0
  /\ ~race.timeout => \A j \in 1 .. race.rep : ~TimedOut(call.race[j])
  /\ ~race.timeout /\ ~race.noInternal => \A j \in 1 .. race.rep : Internal(call.race[j])

IInv ==
  /\ TypeOK /\ Phases /\ Covered /\ NothingAhead /\ StoppedShort /\ RaceSoFar
  /\ RaceHasItsSubjects /\ RaceUncensored
-----------------------------------------------------------------------------
LEMMA CaseAtIsOneToOne ==
  ASSUME NEW p \in Positions, NEW q \in Positions, CaseAt(p) = CaseAt(q)
  PROVE  p = q
<1>1. p.n = q.n /\ ((p.pol = 1) = (q.pol = 1)) /\ FamilyRegistry[p.f] = FamilyRegistry[q.f]
  BY DEF CaseAt
<1>2. p.f = q.f
  BY <1>1, RegistriesAreNamed DEF IsRegistry, Positions
<1> QED
  BY <1>1, <1>2 DEF Positions

LEMMA SamePosition ==
  ASSUME NEW p \in Positions, NEW q \in Positions
  PROVE  q = p <=> q.n = p.n /\ q.pol = p.pol /\ q.f = p.f
  BY DEF Positions

\* The loops go from a position to the next one.
LEMMA LaterIsNext ==
  ASSUME NEW p \in Positions
  PROVE  /\ Later(p) \in Positions /\ Later(p).n >= p.n
         /\ \A q \in Positions : Precedes(q, Later(p)) <=> Precedes(q, p) \/ q = p
<1>1. Len(FamilyRegistry) \in Nat \ {0}
  BY RegistriesAreNamed DEF IsRegistry
<1>2. CASE p.f < Len(FamilyRegistry)
  <2>1. Later(p) = [n |-> p.n, pol |-> p.pol, f |-> p.f + 1]
    BY <1>2 DEF Later, Positions
  <2> QED
    BY <1>1, <1>2, <2>1, SamePosition DEF Positions, Precedes
<1>3. CASE p.f = Len(FamilyRegistry) /\ p.pol = 0
  <2>1. Later(p) = [p EXCEPT !.pol = 1, !.f = 1]
    BY <1>1, <1>3 DEF Later
  <2>2. Later(p).n = p.n /\ Later(p).pol = 1 /\ Later(p).f = 1
    BY <2>1 DEF Positions
  <2>3. 1 \in 1 .. Len(FamilyRegistry)
    BY <1>1
  <2>4. Later(p) \in Positions
    BY <2>1, <2>3 DEF Positions
  <2>5. ASSUME NEW q \in Positions
        PROVE  Precedes(q, Later(p)) <=> Precedes(q, p) \/ q = p
    <3>1. q.f \in 1 .. p.f /\ q.pol \in {0, 1} /\ q.n \in Int /\ p.n \in Int
      BY <1>3 DEF Positions
    <3> QED
      BY <1>3, <2>2, <3>1, SamePosition DEF Precedes
  <2> QED
    BY <2>2, <2>4, <2>5 DEF Positions
<1>4. CASE p.f = Len(FamilyRegistry) /\ p.pol = 1
  <2>1. Later(p) = [n |-> p.n + 1, pol |-> 0, f |-> 1]
    BY <1>1, <1>4 DEF Later, Positions
  <2> QED
    BY <1>1, <1>4, <2>1, SamePosition DEF Positions, Precedes
<1> QED
  BY <1>1, <1>2, <1>3, <1>4 DEF Positions

LEMMA Order ==
  ASSUME NEW p \in Positions, NEW q \in Positions
  PROVE  /\ ~Precedes(p, p)
         /\ Precedes(p, q) => p.n <= q.n
         /\ p.n < q.n => Precedes(p, q)
  BY DEF Positions, Precedes

\* Every case of the sweep has its position in the loops.
LEMMA CasePosition ==
  ASSUME TypeOK, NEW c \in Cases
  PROVE  \E p \in Positions : c = CaseAt(p) /\ p.n >= call.nMin /\ p.n <= call.nMax
<1>1. c \in [n : call.nMin .. call.nMax, realizable : BOOLEAN, family : families]
  BY DEF Cases
<1>2. call.nMin \in Int /\ call.nMax \in Int
  BY NumbersAreWhole DEF TypeOK
<1>3. families \subseteq ToSet(FamilyRegistry)
  BY DEF families, Selected
<1>4. PICK f \in DOMAIN FamilyRegistry : c.family = FamilyRegistry[f]
  BY <1>1, <1>3 DEF ToSet
<1> DEFINE p == [n |-> c.n, pol |-> IF c.realizable THEN 1 ELSE 0, f |-> f]
<1>5. p \in Positions
  BY <1>1, <1>2, <1>4, RegistriesAreNamed DEF IsRegistry, Positions
<1>6. CaseAt(p) = c
  BY <1>1, <1>4 DEF CaseAt
<1> QED
  BY <1>1, <1>2, <1>5, <1>6

LEMMA CaseIsOfCases ==
  ASSUME TypeOK, CasesLeft, Wanted(case), at.n >= call.nMin
  PROVE  case \in Cases
<1>1. call.nMin \in Int /\ call.nMax \in Int
  BY NumbersAreWhole DEF TypeOK
<1> QED
  BY <1>1 DEF TypeOK, CasesLeft, Positions, case, CaseAt, Cases, Wanted

\* A command line that is not refused selects a subject.
LEMMA SomeSubject ==
  ASSUME ~UsageError(call)
  PROVE  subjects # {}
<1>1. ToSet(SubjectRegistry) # {}
  BY RegistriesAreNamed DEF IsRegistry, ToSet
<1> QED
  BY <1>1 DEF UsageError, Unknown, subjects, Selected

LEMMA SubjectPositions ==
  /\ DOMAIN SubjectRegistry = 1 .. Len(SubjectRegistry) /\ Len(SubjectRegistry) \in Nat
  /\ \A sub \in subjects : \E j \in DOMAIN SubjectRegistry : sub = SubjectRegistry[j]
  BY RegistriesAreNamed DEF IsRegistry, subjects, Selected, ToSet

\* What the command line decides does not change with it.
LEMMA SameCall ==
  ASSUME call' = call
  PROVE  /\ families' = families /\ subjects' = subjects /\ Cases' = Cases
         /\ \A c : Wanted(c)' = Wanted(c)
<1>1. families' = families /\ subjects' = subjects
  BY DEF families, subjects
<1>2. \A c : Wanted(c)' = Wanted(c)
  BY <1>1 DEF Wanted
<1> QED
  BY <1>1, <1>2 DEF Cases

LEMMA InitIInv == Init => IInv
<1> SUFFICES ASSUME Init PROVE IInv
  OBVIOUS
<1>1. call.nMin \in Int /\ Len(FamilyRegistry) \in Nat \ {0}
  BY NumbersAreWhole, RegistriesAreNamed DEF IsRegistry, Init
<1>2. TypeOK
  <2>1. at \in Positions
    BY <1>1 DEF Init, FirstCase, Positions
  <2>2. /\ DOMAIN race = DOMAIN NoRace /\ race.rep \in Nat
        /\ race.success \in BOOLEAN /\ race.timeout \in BOOLEAN /\ race.noInternal \in BOOLEAN
    BY DEF Init, NoRace
  <2>3. call \in Calls /\ phase \in {"args"} \cup Sweeping \cup Ended
    <3>1. call \in Calls /\ phase = "args"
      BY DEF Init
    <3> QED
      BY <3>1
  <2>4. s \in Nat \ {0} /\ late \in BOOLEAN /\ stopped \in BOOLEAN
    <3>1. s \in Nat \ {0}
      BY DEF Init
    <3>2. late \in BOOLEAN /\ stopped \in BOOLEAN
      BY Zenon DEF Init
    <3> QED
      BY <3>1, <3>2
  <2> QED
    BY <2>1, <2>2, <2>3, <2>4 DEF TypeOK
<1>3. Phases
  BY <1>1 DEF Init, Phases, FirstCase, Swept
<1>4. Covered
  BY <1>1 DEF Init, Covered, FirstCase, Positions, Precedes
<1>5. NothingAhead /\ StoppedShort /\ RaceSoFar
  BY DEF Init, NothingAhead, StoppedShort, RaceSoFar, NoRace
<1>6. RaceHasItsSubjects /\ RaceUncensored
  BY DEF Init, RaceHasItsSubjects, RaceUncensored
<1> QED
  BY <1>2, <1>3, <1>4, <1>5, <1>6 DEF IInv

-----------------------------------------------------------------------------
\* The steps after the sweep touch nothing that it measured.
LEMMA Afterwards ==
  ASSUME IInv, phase \in Ended \ {"done"}, phase' \in Ended, exit' # 2,
         UNCHANGED <<call, loop, race, ran, ltlfsynt>>
  PROVE  IInv'
<1>1. exit # 2 /\ phase # "args"
  BY DEF IInv, Phases, Ended
<1>2. Swept /\ Swept'
  BY <1>1 DEF Swept, Ended
<1>3. CasesLeft' = CasesLeft /\ UsageError(call)' = UsageError(call)
  BY DEF CasesLeft, UsageError, loop
<1>4. TypeOK'
  BY DEF IInv, TypeOK, loop
<1>5. Phases'
  BY <1>1, <1>2, <1>3 DEF IInv, Phases, loop, Ended, Sweeping
<1>6. Covered'
  BY <1>1, SameCall DEF IInv, Covered, loop, Ended, Wanted
<1>7. NothingAhead'
  BY <1>1, SameCall DEF IInv, NothingAhead, loop, Ended
<1>8. StoppedShort' /\ RaceSoFar'
  BY SameCall DEF IInv, StoppedShort, RaceSoFar, loop
<1>9. RaceHasItsSubjects' /\ RaceUncensored'
  BY SameCall DEF IInv, RaceHasItsSubjects, RaceUncensored
<1> QED
  BY <1>4, <1>5, <1>6, <1>7, <1>8, <1>9 DEF IInv

\* The deadline alone disturbs nothing.
LEMMA SameProgress ==
  ASSUME IInv, UNCHANGED <<call, phase, at, s, stopped, race, ran, ltlfsynt, exit>>,
         late' \in BOOLEAN
  PROVE  IInv'
<1>1. case' = case /\ CasesLeft' = CasesLeft /\ UsageError(call)' = UsageError(call)
  BY DEF case, CaseAt, CasesLeft, UsageError
<1>2. TypeOK'
  BY DEF IInv, TypeOK
<1>3. Phases'
  BY <1>1, SameCall DEF IInv, Phases, Swept, Wanted
<1>4. Covered'
  BY <1>1, SameCall DEF IInv, Covered, Wanted
<1>5. NothingAhead' /\ StoppedShort'
  BY SameCall DEF IInv, NothingAhead, StoppedShort
<1>6. RaceSoFar' /\ RaceHasItsSubjects' /\ RaceUncensored'
  BY SameCall DEF IInv, RaceSoFar, RaceHasItsSubjects, RaceUncensored
<1> QED
  BY <1>2, <1>3, <1>4, <1>5, <1>6 DEF IInv

LEMMA UsageIInv == IInv /\ Usage => IInv'
<1> SUFFICES ASSUME IInv, Usage PROVE IInv'
  OBVIOUS
<1>1. ran = {} /\ ltlfsynt = {} /\ exit = -1 /\ ~stopped
  BY DEF IInv, Usage, Phases, Swept
<1>2. TypeOK'
  BY DEF IInv, TypeOK, Usage, loop, Ended
<1>3. Phases'
  BY <1>1 DEF IInv, Phases, Usage, loop, Sweeping, measured, Swept
<1>4. Covered' /\ NothingAhead' /\ StoppedShort'
  BY <1>1 DEF Covered, NothingAhead, StoppedShort, Usage, loop, measured
<1>5. RaceSoFar' /\ RaceHasItsSubjects' /\ RaceUncensored'
  BY <1>1 DEF IInv, RaceSoFar, RaceHasItsSubjects, RaceUncensored, Usage, measured
<1> QED
  BY <1>2, <1>3, <1>4, <1>5 DEF IInv

LEMMA StartSweepIInv == IInv /\ StartSweep => IInv'
<1> SUFFICES ASSUME IInv, StartSweep PROVE IInv'
  OBVIOUS
<1>1. ran = {} /\ ltlfsynt = {} /\ exit = -1 /\ ~stopped
  BY DEF IInv, StartSweep, Phases, Swept
<1>2. TypeOK'
  BY DEF IInv, TypeOK, StartSweep, loop, Sweeping
<1>3. UsageError(call)' = UsageError(call)
  BY DEF UsageError, StartSweep
<1>4. Phases'
  BY <1>1, <1>3 DEF IInv, Phases, StartSweep, loop, outputs, Sweeping, Swept
<1>5. Covered'
  BY <1>1, SameCall DEF IInv, Covered, StartSweep, loop, Wanted
<1>6. NothingAhead' /\ StoppedShort'
  BY <1>1 DEF NothingAhead, StoppedShort, StartSweep, loop
<1>7. RaceSoFar' /\ RaceHasItsSubjects' /\ RaceUncensored'
  BY <1>1 DEF IInv, RaceSoFar, RaceHasItsSubjects, RaceUncensored, StartSweep
<1> QED
  BY <1>2, <1>4, <1>5, <1>6, <1>7 DEF IInv

LEMMA BudgetEndsIInv == IInv /\ BudgetEnds => IInv'
<1> SUFFICES ASSUME IInv, BudgetEnds PROVE IInv'
  OBVIOUS
<1>1. UNCHANGED <<call, phase, at, s, stopped, race, ran, ltlfsynt, exit>> /\ late' = TRUE
  BY DEF BudgetEnds, measured, outputs
<1> QED
  BY <1>1, SameProgress

-----------------------------------------------------------------------------
\* A step of the sweep that leaves the place in the grid and what was run.
LEMMA SameCell ==
  ASSUME IInv, UNCHANGED <<call, at, ran>>
  PROVE  /\ CasesLeft' = CasesLeft /\ UsageError(call)' = UsageError(call)
         /\ case' = case /\ Wanted(case)' = Wanted(case)
         /\ RaceHasItsSubjects /\ ltlfsynt' = ltlfsynt => RaceHasItsSubjects'
         /\ RaceUncensored /\ ltlfsynt' = ltlfsynt => RaceUncensored'
<1>1. case' = case
  BY DEF case, CaseAt
<1> QED
  BY <1>1, SameCall DEF CasesLeft, UsageError, Wanted, RaceHasItsSubjects, RaceUncensored

\* The subject at hand has not run on the case at hand.
LEMMA SubjectNotRun ==
  ASSUME IInv, phase = "subject", SubjectsLeft
  PROVE  <<case, subject>> \notin ran
<1> SUFFICES ASSUME <<case, subject>> \in ran PROVE FALSE
  OBVIOUS
<1>1. PICK p \in Positions, sub \in subjects :
        /\ <<case, subject>> = <<CaseAt(p), sub>>
        /\ Precedes(p, at) \/ \E j \in DOMAIN SubjectRegistry : j < s /\ sub = SubjectRegistry[j]
  BY DEF IInv, NothingAhead
<1>2. p = at /\ sub = subject
  BY <1>1, CaseAtIsOneToOne DEF IInv, TypeOK, case
<1>3. PICK j \in DOMAIN SubjectRegistry : j < s /\ SubjectRegistry[j] = SubjectRegistry[s]
  BY <1>1, <1>2, Order DEF IInv, TypeOK, subject
<1>4. s \in DOMAIN SubjectRegistry
  BY SubjectPositions DEF IInv, TypeOK, SubjectsLeft
<1>5. j = s
  BY <1>3, <1>4, RegistriesAreNamed DEF IsRegistry
<1>6. s \in Nat
  BY DEF IInv, TypeOK
<1> QED
  BY <1>3, <1>5, <1>6

\* No subject has run on a case that was not taken.
LEMMA CaseNotRun ==
  ASSUME IInv, phase = "case", NEW sub \in subjects
  PROVE  <<case, sub>> \notin ran
<1> SUFFICES ASSUME <<case, sub>> \in ran PROVE FALSE
  OBVIOUS
<1>1. PICK p \in Positions, q \in subjects : <<case, sub>> = <<CaseAt(p), q>> /\ Precedes(p, at)
  BY DEF IInv, NothingAhead
<1>2. p = at
  BY <1>1, CaseAtIsOneToOne DEF IInv, TypeOK, case
<1> QED
  BY <1>1, <1>2, Order

LEMMA StopEarlyIInv == IInv /\ StopEarly => IInv'
<1> SUFFICES ASSUME IInv, StopEarly PROVE IInv'
  OBVIOUS
<1>1. /\ UNCHANGED <<call, at, s, late, race, ran, ltlfsynt, exit>>
      /\ phase' = "summary" /\ stopped' = TRUE
  BY DEF StopEarly, measured, outputs
<1>2. phase \in {"case", "subject"} /\ exit = -1 /\ CasesLeft /\ Wanted(case) /\ ~UsageError(call)
  BY DEF IInv, Phases, StopEarly, Sweeping
<1>3. \E sub \in subjects : <<case, sub>> \notin ran
  <2>1. CASE phase = "case"
    BY <1>2, <2>1, SomeSubject, CaseNotRun
  <2>2. CASE phase = "subject"
    BY <2>2, SubjectNotRun DEF StopEarly
  <2> QED
    BY <1>2, <2>1, <2>2
<1>4. case \in Cases
  BY <1>2, CaseIsOfCases DEF IInv, Phases
<1>5. TypeOK'
  BY <1>1 DEF IInv, TypeOK, Ended
<1>6. Phases'
  BY <1>1, <1>2, SameCell DEF IInv, Phases, Swept, Sweeping
<1>7. Covered'
  BY <1>1, SameCall DEF IInv, Covered, Wanted
<1>8. NothingAhead'
  BY <1>1, <1>2, SameCall DEF IInv, NothingAhead
<1>9. StoppedShort'
  BY <1>1, <1>3, <1>4, SameCall DEF StoppedShort
<1>10. RaceSoFar' /\ RaceHasItsSubjects' /\ RaceUncensored'
  BY <1>1, SameCell DEF IInv, RaceSoFar
<1> QED
  BY <1>5, <1>6, <1>7, <1>8, <1>9, <1>10 DEF IInv

LEMMA SkipCaseIInv == IInv /\ SkipCase => IInv'
<1> SUFFICES ASSUME IInv, SkipCase PROVE IInv'
  OBVIOUS
<1>1. /\ UNCHANGED <<call, phase, s, late, stopped, race, ran, ltlfsynt, exit>>
      /\ at' = Later(at) /\ phase = "case" /\ ~Wanted(case)
  BY DEF SkipCase, measured, outputs
<1>2. /\ at' \in Positions /\ at'.n >= at.n
      /\ \A q \in Positions : Precedes(q, at') <=> Precedes(q, at) \/ q = at
  BY <1>1, LaterIsNext DEF IInv, TypeOK
<1>3. ~stopped /\ exit = -1 /\ UsageError(call)' = UsageError(call)
  BY <1>1 DEF IInv, Phases, Swept, UsageError, Sweeping
<1>4. TypeOK'
  BY <1>1, <1>2 DEF IInv, TypeOK
<1>5. Phases'
  <2>1. at'.n >= call'.nMin
    BY <1>1, <1>2, NumbersAreWhole DEF IInv, Phases, TypeOK, Positions
  <2> QED
    BY <1>1, <1>3, <2>1 DEF IInv, Phases, Swept
<1>6. Covered'
  <2>1. ASSUME NEW p \in Positions, NEW sub \in subjects,
               p.n >= call.nMin, Precedes(p, at'), Wanted(CaseAt(p))
        PROVE  <<CaseAt(p), sub>> \in ran
    BY <1>1, <1>2, <1>3, <2>1 DEF IInv, Covered, case
  <2> QED
    BY <1>1, <1>3, <2>1, SameCall DEF Covered, Wanted
<1>7. NothingAhead'
  BY <1>1, <1>2, SameCall DEF IInv, NothingAhead
<1>8. StoppedShort' /\ RaceSoFar'
  BY <1>1, <1>3 DEF IInv, StoppedShort, RaceSoFar
<1>9. RaceHasItsSubjects' /\ RaceUncensored'
  BY <1>1, SameCall DEF IInv, RaceHasItsSubjects, RaceUncensored
<1> QED
  BY <1>4, <1>5, <1>6, <1>7, <1>8, <1>9 DEF IInv

LEMMA TakeCaseIInv == IInv /\ TakeCase => IInv'
<1> SUFFICES ASSUME IInv, TakeCase PROVE IInv'
  OBVIOUS
<1>1. /\ UNCHANGED <<call, at, late, stopped, race, ran, ltlfsynt, exit>>
      /\ phase = "case" /\ phase' = "subject" /\ s' = 1 /\ CasesLeft /\ Wanted(case)
  BY DEF TakeCase, measured, outputs
<1>2. ~stopped /\ exit = -1
  BY <1>1 DEF IInv, Phases, Swept, Sweeping
<1>3. TypeOK'
  BY <1>1 DEF IInv, TypeOK, Sweeping
<1>4. Phases'
  BY <1>1, <1>2, SameCell DEF IInv, Phases, Swept, Sweeping
<1>5. Covered'
  BY <1>1, <1>2, SameCall, SubjectPositions DEF IInv, Covered, Wanted
<1>6. NothingAhead'
  BY <1>1, SameCall DEF IInv, NothingAhead
<1>7. StoppedShort' /\ RaceSoFar'
  BY <1>1, <1>2 DEF IInv, StoppedShort, RaceSoFar
<1>8. RaceHasItsSubjects' /\ RaceUncensored'
  BY <1>1, SameCell DEF IInv
<1> QED
  BY <1>3, <1>4, <1>5, <1>6, <1>7, <1>8 DEF IInv

LEMMA SkipSubjectIInv == IInv /\ SkipSubject => IInv'
<1> SUFFICES ASSUME IInv, SkipSubject PROVE IInv'
  OBVIOUS
<1>1. /\ UNCHANGED <<call, phase, at, late, stopped, race, ran, ltlfsynt, exit>>
      /\ phase = "subject" /\ SubjectRegistry[s] \notin subjects /\ s' = s + 1
  BY DEF SkipSubject, measured, outputs, subject
<1>2. ~stopped /\ exit = -1
  BY <1>1 DEF IInv, Phases, Swept, Sweeping
<1>3. TypeOK'
  BY <1>1 DEF IInv, TypeOK
<1>4. Phases'
  BY <1>1, <1>2, SameCell DEF IInv, Phases, Swept
<1>5. Covered'
  <2>1. ASSUME NEW j \in DOMAIN SubjectRegistry, j < s + 1, SubjectRegistry[j] \in subjects
        PROVE  <<case, SubjectRegistry[j]>> \in ran
    <3>1. j < s
      BY <1>1, <2>1, SubjectPositions DEF IInv, TypeOK
    <3> QED
      BY <1>1, <2>1, <3>1 DEF IInv, Covered
  <2>2. case' = case
    BY <1>1, SameCell
  <2> QED
    BY <1>1, <1>2, <2>1, <2>2, SameCall DEF IInv, Covered, Wanted
<1>6. NothingAhead'
  <2>1. \A j \in DOMAIN SubjectRegistry : j < s => j < s + 1
    BY SubjectPositions DEF IInv, TypeOK
  <2> QED
    BY <1>1, <2>1, SameCall DEF IInv, NothingAhead
<1>7. StoppedShort' /\ RaceSoFar'
  BY <1>1, <1>2 DEF IInv, StoppedShort, RaceSoFar
<1>8. RaceHasItsSubjects' /\ RaceUncensored'
  BY <1>1, SameCell DEF IInv
<1> QED
  BY <1>3, <1>4, <1>5, <1>6, <1>7, <1>8 DEF IInv

LEMMA RunSubjectIInv == IInv /\ RunSubject => IInv'
<1> SUFFICES ASSUME IInv, RunSubject PROVE IInv'
  OBVIOUS
<1>1. /\ UNCHANGED <<call, phase, at, late, stopped, race, ltlfsynt, exit>>
      /\ phase = "subject" /\ SubjectsLeft /\ subject \in subjects
      /\ s' = s + 1 /\ ran' = ran \cup {<<case, subject>>}
  BY DEF RunSubject, outputs
<1>2. ~stopped /\ exit = -1
  BY <1>1 DEF IInv, Phases, Swept, Sweeping
<1>3. case' = case /\ UsageError(call)' = UsageError(call) /\ CasesLeft' = CasesLeft
  BY <1>1 DEF case, CaseAt, UsageError, CasesLeft
<1>4. s \in DOMAIN SubjectRegistry /\ s \in Nat
  BY <1>1, SubjectPositions DEF IInv, TypeOK, SubjectsLeft
<1>5. TypeOK'
  BY <1>1 DEF IInv, TypeOK
<1>6. Phases'
  BY <1>1, <1>2, <1>3, SameCall DEF IInv, Phases, Swept, Wanted, Sweeping
<1>7. Covered'
  <2>1. ASSUME NEW j \in DOMAIN SubjectRegistry, j < s + 1, SubjectRegistry[j] \in subjects
        PROVE  <<case, SubjectRegistry[j]>> \in ran'
    <3>1. CASE j < s
      BY <1>1, <2>1, <3>1 DEF IInv, Covered
    <3>2. CASE j = s
      BY <1>1, <3>2 DEF subject
    <3> QED
      BY <1>4, <2>1, <3>1, <3>2, SubjectPositions
  <2> QED
    BY <1>1, <1>2, <1>3, <2>1, SameCall DEF IInv, Covered, Wanted
<1>8. NothingAhead'
  <2>1. \A j \in DOMAIN SubjectRegistry : j < s => j < s + 1
    BY <1>4, SubjectPositions
  <2>2. ASSUME NEW x \in ran'
        PROVE  \E p \in Positions, sub \in subjects :
                 /\ x = <<CaseAt(p), sub>>
                 /\ \/ Precedes(p, at)
                    \/ p = at /\ \E j \in DOMAIN SubjectRegistry : j < s + 1 /\ sub = SubjectRegistry[j]
    <3>1. CASE x \in ran
      BY <1>1, <2>1, <3>1 DEF IInv, NothingAhead
    <3>2. CASE x = <<case, subject>>
      <4>1. at \in Positions /\ x = <<CaseAt(at), subject>> /\ subject = SubjectRegistry[s]
        BY <3>2 DEF IInv, TypeOK, case, subject
      <4> QED
        BY <1>1, <1>4, <4>1
    <3> QED
      BY <1>1, <3>1, <3>2
  <2> QED
    BY <1>1, <2>2, SameCall DEF NothingAhead
<1>9. StoppedShort' /\ RaceSoFar'
  BY <1>1, <1>2 DEF IInv, StoppedShort, RaceSoFar
<1>10. RaceHasItsSubjects'
  BY <1>1, SameCall DEF IInv, RaceHasItsSubjects
<1>11. RaceUncensored'
  BY <1>1 DEF IInv, RaceUncensored
<1> QED
  BY <1>5, <1>6, <1>7, <1>8, <1>9, <1>10, <1>11 DEF IInv

-----------------------------------------------------------------------------
\* What a row of the race says, and the accumulators it is made of.
Uncensored(row) ==
  /\ row.status = "ok" => \A j \in 1 .. call.repeat : ~TimedOut(call.race[j])
  /\ row.internal.some => \A j \in 1 .. call.repeat : ~TimedOut(call.race[j]) /\ Internal(call.race[j])

IsOf(row, c) == row.family = c.family /\ row.n = c.n /\ row.realizable = c.realizable

LEMMA RowWithoutRace ==
  ASSUME NEW c, NEW outcome, outcome # "ok"
  PROVE  IsOf(LtlfsyntRow(c, outcome), c) /\ Uncensored(LtlfsyntRow(c, outcome))
<1>1. LtlfsyntRow(c, outcome).status # "ok" /\ ~LtlfsyntRow(c, outcome).internal.some
  BY DEF LtlfsyntRow, None
<1> QED
  BY <1>1 DEF LtlfsyntRow, IsOf, Uncensored

\* A race whose repeats are over leaves a row that says if one was censored.
LEMMA RowOfRace ==
  ASSUME IInv, ~RacesLeft, NEW c
  PROVE  IsOf(RaceRow(c, race), c) /\ Uncensored(RaceRow(c, race))
<1>1. CASE ~race.success \/ race.verdict = "none"
  <2>1. \E outcome \in {"timeout", "error"} : RaceRow(c, race) = LtlfsyntRow(c, outcome)
    BY <1>1 DEF RaceRow
  <2> QED
    BY <2>1, RowWithoutRace
<1>2. CASE race.success /\ race.verdict # "none"
  <2> DEFINE row == RaceRow(c, race)
             outcome == IF race.timeout THEN "partial_timeout" ELSE "ok"
             internal == IF race.timeout \/ race.noInternal THEN None
                         ELSE Some(Median(race.internal))
  <2>1. IsOf(row, c)
    BY <1>2 DEF RaceRow, LtlfsyntRow, IsOf
  <2>2. row.status = outcome /\ row.internal = internal
    BY <1>2 DEF RaceRow, LtlfsyntRow
  <2>3. \A j \in 1 .. call.repeat : j \in 1 .. race.rep
    BY <1>2, NumbersAreWhole DEF IInv, TypeOK, RaceSoFar, RacesLeft
  <2>4. row.status = "ok" => ~race.timeout
    BY <2>2
  <2>5. row.internal.some => ~race.timeout /\ ~race.noInternal
    BY <2>2 DEF None
  <2> QED
    BY <2>1, <2>3, <2>4, <2>5 DEF IInv, RaceSoFar, Uncensored
<1> QED
  BY <1>1, <1>2

\* The row of a case whose subjects have all run closes it.
LEMMA NextCaseIInv ==
  ASSUME IInv, NEW row, NextCase(row), phase \in {"subject", "race"},
         \A sub \in subjects : <<case, sub>> \in ran,
         IsOf(row, case), Uncensored(row)
  PROVE  IInv'
<1>1. /\ UNCHANGED <<call, s, late, stopped, ran, exit>>
      /\ ltlfsynt' = ltlfsynt \cup {row} /\ phase' = "case" /\ at' = Later(at) /\ race' = NoRace
  BY DEF NextCase, measured, outputs
<1>2. /\ at' \in Positions /\ at'.n >= at.n
      /\ \A q \in Positions : Precedes(q, at') <=> Precedes(q, at) \/ q = at
  BY <1>1, LaterIsNext DEF IInv, TypeOK
<1>3. ~stopped /\ exit = -1 /\ phase # "args" /\ UsageError(call)' = UsageError(call)
  BY <1>1 DEF IInv, Phases, Swept, UsageError, Sweeping
<1>4. TypeOK'
  <2>1. /\ DOMAIN race' = DOMAIN NoRace /\ race'.rep \in Nat
        /\ race'.success \in BOOLEAN /\ race'.timeout \in BOOLEAN /\ race'.noInternal \in BOOLEAN
    BY <1>1 DEF NoRace
  <2> QED
    BY <1>1, <1>2, <2>1 DEF IInv, TypeOK, Sweeping
<1>5. Phases'
  <2>1. at'.n >= call'.nMin
    BY <1>1, <1>2, NumbersAreWhole DEF IInv, Phases, TypeOK, Positions
  <2> QED
    BY <1>1, <1>3, <2>1 DEF IInv, Phases, Swept, Sweeping
<1>6. Covered'
  <2>1. ASSUME NEW p \in Positions, NEW sub \in subjects,
               p.n >= call.nMin, Precedes(p, at'), Wanted(CaseAt(p))
        PROVE  <<CaseAt(p), sub>> \in ran
    BY <1>1, <1>2, <1>3, <2>1 DEF IInv, Covered, case
  <2> QED
    BY <1>1, <1>3, <2>1, SameCall DEF Covered, Wanted
<1>7. NothingAhead'
  BY <1>1, <1>2, SameCall DEF IInv, NothingAhead
<1>8. StoppedShort' /\ RaceSoFar'
  BY <1>1, <1>3 DEF StoppedShort, RaceSoFar, NoRace
<1>9. RaceHasItsSubjects'
  <2>1. [n |-> row.n, realizable |-> row.realizable, family |-> row.family] = case
    BY DEF IsOf, case, CaseAt
  <2> QED
    BY <1>1, <2>1, SameCall DEF IInv, RaceHasItsSubjects
<1>10. RaceUncensored'
  BY <1>1 DEF IInv, RaceUncensored, Uncensored
<1> QED
  BY <1>4, <1>5, <1>6, <1>7, <1>8, <1>9, <1>10 DEF IInv

LEMMA AllSubjectsRan ==
  ASSUME IInv, SubjectsDone \/ phase = "race"
  PROVE  \A sub \in subjects : <<case, sub>> \in ran
<1>1. CASE phase = "race"
  BY <1>1 DEF IInv, Covered
<1>2. CASE SubjectsDone
  <2>1. \A j \in DOMAIN SubjectRegistry : j < s
    BY <1>2, SubjectPositions DEF IInv, TypeOK, SubjectsDone, SubjectsLeft
  <2> QED
    BY <1>2, <2>1, SubjectPositions DEF IInv, Covered, SubjectsDone
<1> QED
  BY <1>1, <1>2

LEMMA NoRaceForTierIInv == IInv /\ NoRaceForTier => IInv'
<1>1. ASSUME IInv, NoRaceForTier PROVE IInv'
  BY <1>1, AllSubjectsRan, RowWithoutRace, NextCaseIInv DEF NoRaceForTier, SubjectsDone
<1> QED
  BY <1>1

LEMMA RaceSkippedIInv == IInv /\ RaceSkipped => IInv'
<1>1. ASSUME IInv, RaceSkipped PROVE IInv'
  BY <1>1, AllSubjectsRan, RowWithoutRace, NextCaseIInv DEF RaceSkipped, SubjectsDone
<1> QED
  BY <1>1

LEMMA EndRaceIInv == IInv /\ EndRace => IInv'
<1>1. ASSUME IInv, EndRace PROVE IInv'
  BY <1>1, AllSubjectsRan, RowOfRace, NextCaseIInv DEF EndRace
<1> QED
  BY <1>1

LEMMA StartRaceIInv == IInv /\ StartRace => IInv'
<1> SUFFICES ASSUME IInv, StartRace PROVE IInv'
  OBVIOUS
<1>1. /\ UNCHANGED <<call, at, s, late, stopped, ran, ltlfsynt, exit>>
      /\ phase = "subject" /\ phase' = "race" /\ race' = NoRace /\ SubjectsDone
  BY DEF StartRace, SubjectsDone, measured, outputs, loop
<1>2. ~stopped /\ exit = -1
  BY <1>1 DEF IInv, Phases, Swept, Sweeping
<1>3. case' = case
  BY <1>1 DEF case, CaseAt
<1>4. TypeOK'
  <2>1. /\ DOMAIN race' = DOMAIN NoRace /\ race'.rep \in Nat
        /\ race'.success \in BOOLEAN /\ race'.timeout \in BOOLEAN /\ race'.noInternal \in BOOLEAN
    BY <1>1 DEF NoRace
  <2> QED
    BY <1>1, <2>1 DEF IInv, TypeOK, Sweeping
<1>5. Phases'
  BY <1>1, <1>2, SameCell DEF IInv, Phases, Swept, Sweeping
<1>6. Covered'
  BY <1>1, <1>2, <1>3, AllSubjectsRan, SameCall DEF IInv, Covered, Wanted
<1>7. NothingAhead'
  BY <1>1, SameCall DEF IInv, NothingAhead
<1>8. StoppedShort' /\ RaceSoFar'
  BY <1>1, <1>2 DEF StoppedShort, RaceSoFar, NoRace
<1>9. RaceHasItsSubjects' /\ RaceUncensored'
  BY <1>1, SameCell DEF IInv
<1> QED
  BY <1>4, <1>5, <1>6, <1>7, <1>8, <1>9 DEF IInv

\* One repeat more is known of.
LEMMA OneRepeat ==
  ASSUME NEW run, race.rep \in Nat,
         race.timeout \in BOOLEAN, race.noInternal \in BOOLEAN, race.success \in BOOLEAN,
         DOMAIN race = DOMAIN NoRace
  PROVE  LET next == Repeated(race, run)
         IN  /\ DOMAIN next = DOMAIN NoRace /\ next.rep = race.rep + 1
             /\ next.success \in BOOLEAN /\ next.timeout \in BOOLEAN /\ next.noInternal \in BOOLEAN
             /\ ~next.timeout => ~race.timeout /\ ~TimedOut(run)
             /\ ~next.timeout /\ ~next.noInternal => ~race.noInternal /\ Internal(run)
<1> DEFINE next == Repeated(race, run)
<1>1. CASE TimedOut(run)
  <2>1. next = [race EXCEPT !.rep = @ + 1, !.timeout = TRUE]
    BY <1>1 DEF Repeated
  <2>2. DOMAIN next = DOMAIN NoRace
    BY <2>1
  <2>3. next.rep = race.rep + 1 /\ next.timeout = TRUE
    BY <2>1 DEF NoRace
  <2>4. next.success = race.success /\ next.noInternal = race.noInternal
    BY <2>1 DEF NoRace
  <2> QED
    BY <2>2, <2>3, <2>4
<1>2. CASE ~TimedOut(run)
  <2>1. next.rep = race.rep + 1 /\ next.timeout = race.timeout /\ next.success = TRUE
    BY <1>2 DEF Repeated
  <2>2. next.noInternal = (race.noInternal \/ ~Internal(run))
    BY <1>2 DEF Repeated
  <2>3. DOMAIN next = DOMAIN NoRace
    BY <1>2 DEF Repeated, NoRace
  <2> QED
    BY <1>2, <2>1, <2>2, <2>3
<1> QED
  BY <1>1, <1>2

LEMMA RaceRepeatIInv == IInv /\ RaceRepeat => IInv'
<1> SUFFICES ASSUME IInv, RaceRepeat PROVE IInv'
  OBVIOUS
<1> DEFINE run == call.race[race.rep + 1]
<1>1. /\ UNCHANGED <<call, phase, at, s, late, stopped, ran, ltlfsynt, exit>>
      /\ phase = "race" /\ race' = Repeated(race, run) /\ call.formulaWritten
  BY DEF RaceRepeat, RacesLeft, measured, outputs, loop
<1>2. ~stopped /\ exit = -1
  BY <1>1 DEF IInv, Phases, Swept, Sweeping
<1>3. case' = case
  BY <1>1 DEF case, CaseAt
<1>4. /\ DOMAIN race' = DOMAIN NoRace /\ race'.rep = race.rep + 1 /\ race.rep \in Nat
      /\ race'.success \in BOOLEAN /\ race'.timeout \in BOOLEAN /\ race'.noInternal \in BOOLEAN
      /\ ~race'.timeout => ~race.timeout /\ ~TimedOut(run)
      /\ ~race'.timeout /\ ~race'.noInternal => ~race.noInternal /\ Internal(run)
  BY <1>1, OneRepeat DEF IInv, TypeOK
<1>5. TypeOK'
  BY <1>1, <1>4 DEF IInv, TypeOK
<1>6. Phases'
  BY <1>1, <1>2, SameCell DEF IInv, Phases, Swept
<1>7. Covered'
  BY <1>1, <1>3, SameCall DEF IInv, Covered, Wanted
<1>8. NothingAhead'
  BY <1>1, SameCall DEF IInv, NothingAhead
<1>9. RaceSoFar'
  <2>1. \A j \in 1 .. race'.rep : j \in 1 .. race.rep \/ j = race.rep + 1
    BY <1>4
  <2>2. ~race'.timeout => \A j \in 1 .. race'.rep : ~TimedOut(call.race[j])
    BY <1>4, <2>1 DEF IInv, RaceSoFar
  <2>3. ~race'.timeout /\ ~race'.noInternal => \A j \in 1 .. race'.rep : Internal(call.race[j])
    BY <1>4, <2>1 DEF IInv, RaceSoFar
  <2>4. race'.rep > 0
    BY <1>4
  <2> QED
    BY <1>1, <2>2, <2>3, <2>4 DEF RaceSoFar
<1>10. StoppedShort'
  BY <1>1, <1>2 DEF StoppedShort
<1>11. RaceHasItsSubjects' /\ RaceUncensored'
  BY <1>1, SameCell DEF IInv
<1> QED
  BY <1>5, <1>6, <1>7, <1>8, <1>9, <1>10, <1>11 DEF IInv

LEMMA GridDoneIInv == IInv /\ GridDone => IInv'
<1> SUFFICES ASSUME IInv, GridDone PROVE IInv'
  OBVIOUS
<1>1. /\ UNCHANGED <<call, at, s, late, stopped, race, ran, ltlfsynt, exit>>
      /\ phase = "case" /\ phase' = "summary" /\ ~CasesLeft
  BY DEF GridDone, measured, outputs, loop
<1>2. ~stopped /\ exit = -1
  BY <1>1 DEF IInv, Phases, Swept, Sweeping
<1>3. TypeOK'
  BY <1>1 DEF IInv, TypeOK, Ended
<1>4. Phases'
  BY <1>1, <1>2, SameCell DEF IInv, Phases, Swept, Sweeping
<1>5. Covered'
  BY <1>1, SameCall DEF IInv, Covered, Wanted
<1>6. NothingAhead'
  BY <1>1, SameCall DEF IInv, NothingAhead
<1>7. StoppedShort' /\ RaceSoFar'
  BY <1>1, <1>2 DEF IInv, StoppedShort, RaceSoFar
<1>8. RaceHasItsSubjects' /\ RaceUncensored'
  BY <1>1, SameCell DEF IInv
<1> QED
  BY <1>3, <1>4, <1>5, <1>6, <1>7, <1>8 DEF IInv

LEMMA WritingIInv ==
  IInv /\ (Summarise \/ NoDirectory \/ OpenFails \/ Write \/ Export) => IInv'
<1>1. ASSUME IInv, Summarise PROVE IInv'
  <2>1. exit' = exit /\ exit # 2
    BY <1>1 DEF Summarise, IInv, Phases
  <2> QED
    BY <1>1, <2>1, Afterwards DEF Summarise, Ended, measured
<1>2. ASSUME IInv, NoDirectory \/ OpenFails PROVE IInv'
  BY <1>2, Afterwards DEF NoDirectory, OpenFails, Ended, measured
<1>3. ASSUME IInv, Write PROVE IInv'
  <2>1. exit' = exit /\ exit # 2
    BY <1>3 DEF Write, IInv, Phases
  <2> QED
    BY <1>3, <2>1, Afterwards DEF Write, Ended, measured
<1>4. ASSUME IInv, Export PROVE IInv'
  BY <1>4, Afterwards DEF Export, Ended, measured
<1> QED
  BY <1>1, <1>2, <1>3, <1>4

LEMMA NextIInv == IInv /\ [Next]_vars => IInv'
<1> SUFFICES ASSUME IInv, [Next]_vars PROVE IInv'
  OBVIOUS
<1>1. CASE UNCHANGED vars
  <2>1. UNCHANGED <<call, phase, at, s, late, stopped, race, ran, ltlfsynt, exit>>
    BY <1>1 DEF vars, loop, measured, outputs
  <2> QED
    BY <2>1, SameProgress DEF IInv, TypeOK
<1>2. CASE Next
  BY <1>2, UsageIInv, StartSweepIInv, BudgetEndsIInv, StopEarlyIInv, SkipCaseIInv, TakeCaseIInv,
     SkipSubjectIInv, RunSubjectIInv, NoRaceForTierIInv, RaceSkippedIInv, StartRaceIInv,
     RaceRepeatIInv, EndRaceIInv, GridDoneIInv, WritingIInv DEF Next
<1> QED
  BY <1>1, <1>2

-----------------------------------------------------------------------------
\* At every moment of an invocation the subjects have been run on exactly the cases
\* before the one at hand in the order of the nested loops.
THEOREM InductiveInvariant == Spec => []IInv
<1> QED
  BY InitIInv, NextIInv, PTL DEF Spec

\* The loops' variables and the race's accumulators have the types they have in main.
THEOREM TypeCorrect == Spec => []TypeOK
<1>1. IInv => TypeOK
  BY DEF IInv
<1> QED
  BY InductiveInvariant, <1>1, PTL

\* What was run on a case was run on every case of a smaller n, and the flag
\* stopped_early tells the sweeps that left a cell out from those that did not.
LEMMA Broad == IInv => PartialIsBroad
<1> SUFFICES ASSUME IInv PROVE PartialIsBroad
  OBVIOUS
<1> USE DEF IInv
<1>1. ASSUME NEW x \in ran, NEW c \in Cases, c.n < x[1].n, NEW sub \in subjects
      PROVE  <<c, sub>> \in ran
  <2>1. PICK p \in Positions, q \in subjects :
          x = <<CaseAt(p), q>> /\ (Precedes(p, at) \/ p = at)
    BY <1>1 DEF NothingAhead
  <2>2. PICK r \in Positions : c = CaseAt(r) /\ r.n >= call.nMin
    BY <1>1, CasePosition
  <2>3. r.n < p.n
    BY <1>1, <2>1, <2>2 DEF CaseAt
  <2>4. p.n <= at.n
    BY <2>1, Order DEF TypeOK, Positions
  <2>5. Precedes(r, at)
    BY <2>3, <2>4, Order DEF TypeOK, Positions
  <2>6. exit # 2
    BY <1>1 DEF Phases
  <2>7. Wanted(CaseAt(r))
    BY <1>1, <2>2 DEF Cases
  <2> QED
    BY <2>2, <2>5, <2>6, <2>7 DEF Covered
<1>2. ASSUME Swept, ~stopped, NEW c \in Cases, NEW sub \in subjects
      PROVE  <<c, sub>> \in ran
  <2>1. PICK r \in Positions : c = CaseAt(r) /\ r.n >= call.nMin /\ r.n <= call.nMax
    BY <1>2, CasePosition
  <2>2. Precedes(r, at)
    <3>1. call.nMax < at.n
      BY <1>2, NumbersAreWhole DEF Phases, CasesLeft, TypeOK, Positions
    <3>2. r.n < at.n
      BY <2>1, <3>1, NumbersAreWhole DEF TypeOK, Positions
    <3> QED
      BY <3>2, Order DEF TypeOK
  <2>3. Wanted(CaseAt(r))
    BY <1>2, <2>1 DEF Cases
  <2> QED
    BY <1>2, <2>1, <2>2, <2>3 DEF Covered, Swept
<1> QED
  BY <1>1, <1>2 DEF PartialIsBroad, StoppedShort

THEOREM PartialSweepIsBroad == Spec => []PartialIsBroad
<1> QED
  BY InductiveInvariant, Broad, PTL

\* No row of the race stands alone, wherever the budget ended.
THEOREM RaceComparable == Spec => []RaceHasItsSubjects
<1>1. IInv => RaceHasItsSubjects
  BY DEF IInv
<1> QED
  BY InductiveInvariant, <1>1, PTL

\* A row of the race that hides a repeat that timed out is marked as such.
THEOREM NotCensored == Spec => []RaceUncensored
<1>1. IInv => RaceUncensored
  BY DEF IInv
<1> QED
  BY InductiveInvariant, <1>1, PTL

-----------------------------------------------------------------------------
(***************************************************************************)
(* What the summary says.  The rows of the report are those of the cells that *)
(* were run, and what is kept of a subject's progress on a family is the      *)
(* largest n whose realizable member it completed.                          *)
(***************************************************************************)
ResultOf(c, sub) == call.results[<<c.family, sub>>][c.n][c.realizable]

Measures(rr) == rr.successes > 0 /\ DOMAIN rr.min # {}

\* The realizable cases of the family f that sub completed.
Done(f, sub) ==
  {c \in Cases : /\ <<c, sub>> \in ran /\ c.family = f /\ c.realizable
                 /\ Measures(ResultOf(c, sub))}

Figures(c, rr) ==
  [completed |-> TRUE, n |-> c.n, best |-> WallTotal(rr),
   construction |-> StageSum(rr, ConstructionKeys),
   states |-> Metric(rr, "product_states"), roots |-> Metric(rr, "product_mtdfa_roots")]

IsLargest(c, cs) == c \in cs /\ \A d \in cs : d.n <= c.n

IsProgress(f, sub, p) ==
  \/ Done(f, sub) = {} /\ p = NoProgress
  \/ \E c \in Done(f, sub) : IsLargest(c, Done(f, sub)) /\ p = Figures(c, ResultOf(c, sub))

OnlyWanted == ran \subseteq Cases \X subjects

TimingsOf(x) == Timings(x[1], x[2], ResultOf(x[1], x[2])) \cup Markers(x[1], x[2], ResultOf(x[1], x[2]))
StructuralsOf(x) == Structurals(x[1], x[2], ResultOf(x[1], x[2]))

RowsOfCells ==
  /\ timing = UNION {TimingsOf(x) : x \in ran}
  /\ structural = UNION {StructuralsOf(x) : x \in ran}

ProgressIsLargest ==
  phase # "args" /\ exit # 2 =>
    /\ DOMAIN progress = families \X subjects
    /\ \A f \in families, sub \in subjects : IsProgress(f, sub, progress[<<f, sub>>])

\* Every case behind the one at hand has its row of the race.
RacedBehind ==
  exit # 2 => \A p \in Positions :
    p.n >= call.nMin /\ Precedes(p, at) /\ Wanted(CaseAt(p)) =>
      \E r \in ltlfsynt : r.family = CaseAt(p).family

NotSummarised == phase \in {"args", "summary"} \cup Sweeping => summary = {}

SInv ==
  /\ OnlyWanted /\ RowsOfCells /\ ProgressIsLargest /\ RacedBehind
  /\ NotSummarised /\ SummaryIsOfOneN

-----------------------------------------------------------------------------
LEMMA NoTimes ==
  ASSUME NEW rr, ~HasTimes(rr)
  PROVE  WallTotal(rr) = 0
<1> DEFINE any(t) == CHOOSE x \in t : TRUE
           step(t, g) == IF t = {} THEN 0 ELSE rr.min[any(t)] + g[t \ {any(t)}]
           iter == CHOOSE g : g = [t \in SUBSET {} |-> step(t, g)]
<1>1. StageKeys \cap DOMAIN rr.min = {}
  BY DEF HasTimes, StageKeys, MetricKeys
<1>2. WallTotal(rr) = MapThenSumSet(LAMBDA key : rr.min[key], {})
  BY <1>1 DEF WallTotal, StageSum
<1>3. MapThenSumSet(LAMBDA key : rr.min[key], {}) = iter[{}]
  BY DEF MapThenSumSet, MapThenFoldSet
<1>4. iter[{}] = 0
  <2> DEFINE zero == [t \in SUBSET {} |-> 0]
  <2>1. zero = [t \in SUBSET {} |-> step(t, zero)]
    OBVIOUS
  <2>2. iter = [t \in SUBSET {} |-> step(t, iter)]
    BY <2>1
  <2> QED
    BY <2>2
<1> QED
  BY <1>2, <1>3, <1>4

LEMMA RowMeans ==
  ASSUME NEW c, NEW sub, NEW key, NEW value
  PROVE  LET row == Row(c, sub, key, value)
         IN  IsOf(row, c) /\ row.subject = sub /\ row.key = key /\ row.value = value /\ ~row.marker
  BY DEF Row, IsOf

LEMMA MarkerRowMeans ==
  ASSUME NEW c, NEW sub, NEW key, NEW value
  PROVE  LET row == MarkerRow(c, sub, key, value)
         IN  IsOf(row, c) /\ row.subject = sub /\ row.key = key /\ row.marker
  BY DEF MarkerRow, Row, IsOf

\* What the rows of one cell say of it.
LEMMA CellRows ==
  ASSUME NEW c, NEW sub, NEW rr, rr.successes \in Nat, "wall_total" \notin DOMAIN rr.min
  PROVE  /\ \A row \in Markers(c, sub, rr) :
              IsOf(row, c) /\ row.subject = sub /\ row.marker /\ row.key # "wall_total"
         /\ \A row \in Timings(c, sub, rr) \cup Structurals(c, sub, rr) :
              IsOf(row, c) /\ row.subject = sub /\ ~row.marker
         /\ Timings(c, sub, rr) \cup Structurals(c, sub, rr) # {} <=> Measures(rr)
         /\ \A row \in Timings(c, sub, rr) :
              HasTimes(rr) /\ (row.key = "wall_total" => row.value = WallTotal(rr))
         /\ Measures(rr) /\ HasTimes(rr) =>
              \E row \in Timings(c, sub, rr) : row.key = "wall_total" /\ row.value = WallTotal(rr)
<1>1. ASSUME NEW row \in Markers(c, sub, rr)
      PROVE  IsOf(row, c) /\ row.subject = sub /\ row.marker /\ row.key # "wall_total"
  <2>1. PICK key \in {"TIMEOUT", "PARTIAL_TIMEOUT", "FAILED", "PARTIAL_FAILED"} :
          \E value : row = MarkerRow(c, sub, key, value)
    BY <1>1 DEF Markers
  <2>2. key # "wall_total"
    OBVIOUS
  <2>3. PICK value : row = MarkerRow(c, sub, key, value)
    BY <2>1
  <2> QED
    BY <2>2, <2>3, MarkerRowMeans
<1>2. ASSUME NEW row \in Timings(c, sub, rr)
      PROVE  /\ IsOf(row, c) /\ row.subject = sub /\ ~row.marker /\ HasTimes(rr)
             /\ row.key = "wall_total" => row.value = WallTotal(rr)
  <2>1. /\ HasTimes(rr)
        /\ \/ \E key \in DOMAIN rr.min : row = Row(c, sub, key, rr.min[key])
           \/ row = Row(c, sub, "wall_total", WallTotal(rr))
    BY <1>2 DEF Timings
  <2>2. CASE row = Row(c, sub, "wall_total", WallTotal(rr))
    BY <2>1, <2>2, RowMeans
  <2>3. CASE \E key \in DOMAIN rr.min : row = Row(c, sub, key, rr.min[key])
    <3>1. PICK key \in DOMAIN rr.min : row = Row(c, sub, key, rr.min[key])
      BY <2>3
    <3>2. row.key # "wall_total"
      BY <3>1, RowMeans
    <3> QED
      BY <2>1, <3>1, <3>2, RowMeans
  <2> QED
    BY <2>1, <2>2, <2>3
<1>3. ASSUME NEW row \in Structurals(c, sub, rr)
      PROVE  IsOf(row, c) /\ row.subject = sub /\ ~row.marker
  <2>1. PICK key : row = Row(c, sub, key, rr.min[key])
    BY <1>3 DEF Structurals
  <2> QED
    BY <2>1, RowMeans
<1>4. Timings(c, sub, rr) \cup Structurals(c, sub, rr) # {} => Measures(rr)
  BY DEF Timings, Structurals, HasTimes, Measures
<1>5. ASSUME Measures(rr), HasTimes(rr)
      PROVE  Row(c, sub, "wall_total", WallTotal(rr)) \in Timings(c, sub, rr)
  BY <1>5 DEF Timings, Measures
<1>6. ASSUME Measures(rr), ~HasTimes(rr)
      PROVE  Structurals(c, sub, rr) # {}
  BY <1>6 DEF Structurals, Measures, HasTimes
<1> QED
  BY <1>1, <1>2, <1>3, <1>4, <1>5, <1>6, RowMeans

\* What is assumed of the result of a wanted cell.
LEMMA ResultMeans ==
  ASSUME TypeOK, NEW c \in Cases, NEW sub \in subjects
  PROVE  /\ c = [n |-> c.n, realizable |-> c.realizable, family |-> c.family]
         /\ c.n \in Nat /\ c.realizable \in BOOLEAN /\ c.family \in families
         /\ ResultOf(c, sub).successes \in Nat
         /\ "wall_total" \notin DOMAIN ResultOf(c, sub).min
         /\ HasTimes(ResultOf(c, sub)) => WallTotal(ResultOf(c, sub)) \in Nat \ {0}
         /\ sub = Baseline /\ Measures(ResultOf(c, sub)) => HasTimes(ResultOf(c, sub))
<1>1. c \in [n : call.nMin .. call.nMax, realizable : BOOLEAN, family : families] /\ Wanted(c)
  BY DEF Cases
<1>2. call \in Calls /\ call.nMin \in Int /\ call.nMax \in Int
  BY NumbersAreWhole DEF TypeOK
<1>3. c.family \in ToSet(FamilyRegistry) /\ sub \in ToSet(SubjectRegistry)
  BY <1>1 DEF families, subjects, Selected
<1>4. c.n \in call.nMin .. call.nMax /\ c.n >= Floor[c.family] /\ Floor[c.family] \in Nat
  BY <1>1, <1>3, NumbersAreWhole DEF Wanted
<1>5. c.n \in Nat /\ c.realizable \in BOOLEAN
  BY <1>1, <1>2, <1>4
<1>6. /\ ResultOf(c, sub).successes \in Nat /\ "wall_total" \notin DOMAIN ResultOf(c, sub).min
      /\ HasTimes(ResultOf(c, sub)) => WallTotal(ResultOf(c, sub)) \in Nat \ {0}
      /\ sub = Baseline /\ DOMAIN ResultOf(c, sub).min # {} => HasTimes(ResultOf(c, sub))
  BY <1>2, <1>3, <1>4, <1>5, ResultsAreMeasured DEF ResultOf
<1> QED
  BY <1>1, <1>5, <1>6 DEF Measures

LEMMA CellMeans ==
  ASSUME TypeOK, OnlyWanted, NEW x \in ran
  PROVE  x[1] \in Cases /\ x[2] \in subjects /\ x = <<x[1], x[2]>>
  BY DEF OnlyWanted

\* Rows that are no markers stand for the n that the subject completed.
LEMMA CompletedMeans ==
  ASSUME TypeOK, OnlyWanted, RowsOfCells, NEW r, r.family \in families,
         NEW sub \in subjects, NEW n
  PROVE  Completed(r, sub, n) <=> \E c \in Done(r.family, sub) : c.n = n
<1>1. ASSUME Completed(r, sub, n)
      PROVE  \E c \in Done(r.family, sub) : c.n = n
  <2>1. PICK row \in timing \cup structural :
          row.family = r.family /\ row.subject = sub /\ row.realizable /\ ~row.marker /\ row.n = n
    BY <1>1 DEF Completed
  <2>2. PICK x \in ran : row \in TimingsOf(x) \cup StructuralsOf(x)
    BY <2>1 DEF RowsOfCells
  <2> DEFINE c == x[1]
             rr == ResultOf(c, x[2])
  <2>3. c \in Cases /\ x[2] \in subjects /\ x = <<c, x[2]>>
    BY CellMeans
  <2>4. rr.successes \in Nat /\ "wall_total" \notin DOMAIN rr.min
    BY <2>3, ResultMeans
  <2>5. row \in Markers(c, x[2], rr) \/ row \in Timings(c, x[2], rr) \cup Structurals(c, x[2], rr)
    BY <2>2 DEF TimingsOf, StructuralsOf
  <2> HIDE DEF rr, c
  <2>6. /\ row \in Timings(c, x[2], rr) \cup Structurals(c, x[2], rr)
        /\ IsOf(row, c) /\ row.subject = x[2] /\ Measures(rr)
    BY <2>1, <2>4, <2>5, CellRows
  <2>7. x[2] = sub /\ c.family = r.family /\ c.realizable /\ c.n = n
    BY <2>1, <2>6 DEF IsOf
  <2> QED
    BY <2>3, <2>6, <2>7 DEF Done, rr
<1>2. ASSUME NEW c \in Done(r.family, sub), c.n = n
      PROVE  Completed(r, sub, n)
  <2> DEFINE x == <<c, sub>>
             rr == ResultOf(c, sub)
  <2>1. /\ c \in Cases /\ x \in ran /\ c.family = r.family /\ c.realizable /\ Measures(rr)
    BY DEF Done
  <2>2. rr.successes \in Nat /\ "wall_total" \notin DOMAIN rr.min
    BY <2>1, ResultMeans
  <2>3. x[1] = c /\ x[2] = sub
    OBVIOUS
  <2>4. Timings(c, sub, rr) \subseteq timing /\ Structurals(c, sub, rr) \subseteq structural
    BY <2>1, <2>3 DEF RowsOfCells, TimingsOf, StructuralsOf
  <2> HIDE DEF rr
  <2>5. PICK row \in Timings(c, sub, rr) \cup Structurals(c, sub, rr) :
          IsOf(row, c) /\ row.subject = sub /\ ~row.marker
    BY <2>1, <2>2, CellRows
  <2>6. row.family = r.family /\ row.realizable /\ row.n = n /\ ~row.marker
    BY <1>2, <2>1, <2>5 DEF IsOf
  <2> QED
    BY <2>4, <2>5, <2>6 DEF Completed
<1> QED
  BY <1>1, <1>2

\* The one wall_total of a completed case, if its subject measures times.
LEMMA TotalMeans ==
  ASSUME TypeOK, OnlyWanted, RowsOfCells, NEW f, NEW sub \in subjects, NEW c \in Done(f, sub)
  PROVE  Total(f, sub, c.n) =
           IF HasTimes(ResultOf(c, sub)) THEN {WallTotal(ResultOf(c, sub))} ELSE {}
<1> DEFINE rr == ResultOf(c, sub)
           IsTotal(x) == x.family = f /\ x.subject = sub /\ x.realizable /\ x.n = c.n /\ x.key = "wall_total"
<1>1. c \in Cases /\ <<c, sub>> \in ran /\ c.family = f /\ c.realizable /\ Measures(rr)
  BY DEF Done
<1>2. /\ rr.successes \in Nat /\ "wall_total" \notin DOMAIN rr.min
      /\ c = [n |-> c.n, realizable |-> c.realizable, family |-> c.family] /\ c.realizable \in BOOLEAN
  BY <1>1, ResultMeans
<1>3. Timings(c, sub, rr) \subseteq timing
  <2>1. TimingsOf(<<c, sub>>) \subseteq timing
    BY <1>1 DEF RowsOfCells
  <2> QED
    BY <2>1 DEF TimingsOf
<1>4. ASSUME NEW row \in timing, IsTotal(row)
      PROVE  row \in Timings(c, sub, rr)
  <2>1. PICK x \in ran : row \in TimingsOf(x)
    BY <1>4 DEF RowsOfCells
  <2> DEFINE d == x[1]
             dd == ResultOf(d, x[2])
  <2>2. d \in Cases /\ x[2] \in subjects
    BY CellMeans
  <2>3. /\ dd.successes \in Nat /\ "wall_total" \notin DOMAIN dd.min
        /\ d = [n |-> d.n, realizable |-> d.realizable, family |-> d.family] /\ d.realizable \in BOOLEAN
    BY <2>2, ResultMeans
  <2>4. row \in Timings(d, x[2], dd) \cup Markers(d, x[2], dd)
    BY <2>1 DEF TimingsOf
  <2> HIDE DEF d, dd
  <2>5. row \in Timings(d, x[2], dd) /\ IsOf(row, d) /\ row.subject = x[2]
    BY <1>4, <2>3, <2>4, CellRows
  <2>6. x[2] = sub /\ d.family = c.family /\ d.n = c.n
    BY <1>1, <1>4, <2>5 DEF IsOf
  <2>7. d.realizable = TRUE /\ c.realizable = TRUE
    BY <1>1, <1>2, <1>4, <2>3, <2>5 DEF IsOf
  <2>8. d = c
    BY <1>2, <2>3, <2>6, <2>7
  <2> QED
    BY <2>5, <2>6, <2>8 DEF dd
<1> HIDE DEF rr
<1>5. \A row \in Timings(c, sub, rr) : IsTotal(row) <=> row.key = "wall_total"
  BY <1>1, <1>2, CellRows DEF IsOf
<1>6. Total(f, sub, c.n) = {row.value : row \in {x \in timing : IsTotal(x)}}
  BY DEF Total
<1>7. \A v : v \in Total(f, sub, c.n) <=> \E row \in Timings(c, sub, rr) : row.key = "wall_total" /\ v = row.value
  BY <1>3, <1>4, <1>5, <1>6
<1>8. \A v : v \in Total(f, sub, c.n) <=> HasTimes(rr) /\ v = WallTotal(rr)
  BY <1>1, <1>2, <1>7, CellRows
<1>9. Total(f, sub, c.n) = IF HasTimes(rr) THEN {WallTotal(rr)} ELSE {}
  BY <1>8
<1> QED
  BY <1>9 DEF rr

\* The unrealizable member comes first, so a completed case has a race behind it.
LEMMA TierIsKnown ==
  ASSUME IInv, OnlyWanted, RacedBehind, exit # 2, NEW f, NEW sub \in subjects, NEW c \in Done(f, sub)
  PROVE  RowTier(f) = Some(Tier[f])
<1>1. c \in Cases /\ <<c, sub>> \in ran /\ c.family = f /\ c.realizable
  BY DEF Done
<1>2. PICK p \in Positions : c = CaseAt(p) /\ p.n >= call.nMin
  BY <1>1, CasePosition DEF IInv
<1>3. p.pol = 1
  BY <1>1, <1>2 DEF CaseAt
<1>4. Precedes(p, at) \/ p = at
  <2>1. PICK q \in Positions, u \in subjects : <<c, sub>> = <<CaseAt(q), u>> /\ (Precedes(q, at) \/ q = at)
    BY <1>1 DEF IInv, NothingAhead
  <2>2. CaseAt(q) = CaseAt(p)
    BY <1>2, <2>1
  <2> QED
    BY <2>1, <2>2, CaseAtIsOneToOne
<1> DEFINE q == [p EXCEPT !.pol = 0]
<1>5. q \in Positions /\ q.n = p.n /\ q.pol = 0 /\ q.f = p.f
  BY DEF Positions
<1> HIDE DEF q
<1>6. Precedes(q, at)
  BY <1>3, <1>4, <1>5 DEF Precedes, Positions, IInv, TypeOK
<1>7. CaseAt(q).family = f /\ Wanted(CaseAt(q))
  BY <1>1, <1>2, <1>5 DEF CaseAt, Cases, Wanted
<1>8. \E r \in ltlfsynt : r.family = f
  BY <1>2, <1>5, <1>6, <1>7 DEF RacedBehind
<1> QED
  BY <1>8 DEF RowTier

-----------------------------------------------------------------------------
\* The row of one subject on one family, when the table is made.
LEMMA OneSummaryRow ==
  ASSUME IInv, SInv, phase = "summary", NEW f \in families, NEW sub \in subjects
  PROVE  RowIsOfOneN(SummaryRow(f, sub))
<1> DEFINE r == SummaryRow(f, sub)
           p == progress[<<f, sub>>]
           done == Done(f, sub)
<1>1. TypeOK /\ OnlyWanted /\ RowsOfCells /\ RacedBehind /\ exit # 2
  BY DEF IInv, SInv, Phases
<1>2. \A u \in subjects : IsProgress(f, u, progress[<<f, u>>])
  BY <1>1 DEF SInv, ProgressIsLargest
<1>3. done \subseteq Cases
  BY DEF Done
<1>4. r.family = f /\ r.subject = sub
  BY DEF SummaryRow
<1>5. CASE done = {} /\ p = NoProgress
  <2>1. ~p.completed
    BY <1>5 DEF NoProgress
  <2>2. ~r.completed
    BY <2>1 DEF SummaryRow
  <2>3. \A c \in Cases : ~Completed(r, sub, c.n)
    BY <1>1, <1>4, <1>5, CompletedMeans
  <2> QED
    BY <1>4, <2>2, <2>3 DEF RowIsOfOneN, r
<1>6. ASSUME NEW c \in done, IsLargest(c, done), p = Figures(c, ResultOf(c, sub))
      PROVE  /\ r.completed /\ r.tier = Some(Tier[f]) /\ r.n = c.n
             /\ Completed(r, sub, c.n)
             /\ \A d \in Cases : Completed(r, sub, d.n) => d.n <= c.n
             /\ Total(f, sub, c.n) = IF r.best = 0 THEN {} ELSE {r.best}
             /\ r.speedup.some =>
                  /\ Total(f, Baseline, c.n) = {r.speedup.value[1]}
                  /\ Total(f, sub, c.n) = {r.speedup.value[2]}
  <2> DEFINE rr == ResultOf(c, sub)
             b == progress[<<f, Baseline>>]
  <2>1. p.completed /\ p.n = c.n /\ p.best = WallTotal(rr)
    BY <1>6 DEF Figures
  <2>2. /\ r.completed /\ r.tier = RowTier(f) /\ r.n = c.n /\ r.best = WallTotal(rr)
        /\ r.speedup = Speedup(f, p)
    BY <2>1 DEF SummaryRow
  <2>3. RowTier(f) = Some(Tier[f])
    BY <1>1, TierIsKnown
  <2> HIDE DEF r
  <2>4. \A n : Completed(r, sub, n) <=> \E d \in done : d.n = n
    BY <1>1, <1>4, CompletedMeans
  <2>5. \A d \in Cases : Completed(r, sub, d.n) => d.n <= c.n
    BY <1>6, <2>4 DEF IsLargest
  <2>6. HasTimes(rr) => WallTotal(rr) # 0
    BY <1>1, <1>3, ResultMeans
  <2>7. ~HasTimes(rr) => WallTotal(rr) = 0
    BY NoTimes
  <2>8. Total(f, sub, c.n) = IF WallTotal(rr) = 0 THEN {} ELSE {WallTotal(rr)}
    BY <1>1, <2>6, <2>7, TotalMeans
  <2>9. ASSUME r.speedup.some
        PROVE  /\ Total(f, Baseline, c.n) = {r.speedup.value[1]}
               /\ Total(f, sub, c.n) = {r.speedup.value[2]}
    <3>1. /\ Baseline \in subjects /\ b.completed /\ b.n = c.n /\ p.best > 0
          /\ r.speedup = Some(<<b.best, p.best>>)
      BY <2>1, <2>2, <2>9 DEF Speedup, None
    <3>2. r.speedup.value[1] = b.best /\ r.speedup.value[2] = WallTotal(rr) /\ WallTotal(rr) # 0
      BY <2>1, <2>6, <2>7, <3>1 DEF Some
    <3>3. PICK d \in Done(f, Baseline) : b = Figures(d, ResultOf(d, Baseline))
      BY <1>2, <3>1 DEF IsProgress, NoProgress
    <3>4. d.n = c.n /\ b.best = WallTotal(ResultOf(d, Baseline))
      BY <3>1, <3>3 DEF Figures
    <3>5. HasTimes(ResultOf(d, Baseline))
      BY <1>1, <3>1, ResultMeans DEF Done
    <3>6. Total(f, Baseline, d.n) = {WallTotal(ResultOf(d, Baseline))}
      BY <1>1, <3>1, <3>5, TotalMeans
    <3> QED
      BY <2>8, <3>2, <3>4, <3>6
  <2> QED
    BY <2>2, <2>3, <2>4, <2>5, <2>8, <2>9
<1>7. CASE \E c \in done : IsLargest(c, done) /\ p = Figures(c, ResultOf(c, sub))
  <2>1. PICK c \in done : IsLargest(c, done) /\ p = Figures(c, ResultOf(c, sub))
    BY <1>7
  <2>2. c \in Cases
    BY <1>3
  <2> HIDE DEF r, p, done
  <2> QED
    BY <1>4, <1>6, <2>1, <2>2 DEF RowIsOfOneN, r
<1> QED
  BY <1>2, <1>5, <1>7 DEF IsProgress

LEMMA InitSInv == Init => SInv
<1> SUFFICES ASSUME Init PROVE SInv
  OBVIOUS
<1>1. /\ ran = {} /\ timing = {} /\ structural = {} /\ summary = {}
      /\ phase = "args" /\ at = FirstCase
  BY DEF Init
<1>2. OnlyWanted /\ RowsOfCells /\ ProgressIsLargest /\ NotSummarised
  BY <1>1 DEF OnlyWanted, RowsOfCells, ProgressIsLargest, NotSummarised
<1>3. RacedBehind
  <2>1. \A p \in Positions : p.n >= call.nMin => ~Precedes(p, at)
    BY <1>1, InitIInv, NumbersAreWhole DEF IInv, TypeOK, FirstCase, Positions, Precedes
  <2> QED
    BY <2>1 DEF RacedBehind
<1>4. SummaryIsOfOneN
  BY <1>1 DEF SummaryIsOfOneN
<1> QED
  BY <1>2, <1>3, <1>4 DEF SInv

\* What is said of the cells depends on them and on the command line only.
LEMMA SameCells ==
  ASSUME UNCHANGED <<call, ran>>
  PROVE  /\ families' = families /\ subjects' = subjects /\ Cases' = Cases
         /\ OnlyWanted' = OnlyWanted
         /\ UNCHANGED <<timing, structural>> => RowsOfCells' = RowsOfCells
         /\ \A f, sub : Done(f, sub)' = Done(f, sub)
         /\ \A f, sub, p : IsProgress(f, sub, p)' = IsProgress(f, sub, p)
<1>1. families' = families /\ subjects' = subjects /\ Cases' = Cases
  BY SameCall
<1>2. \A c, sub : ResultOf(c, sub)' = ResultOf(c, sub)
  BY DEF ResultOf
<1>3. \A f, sub : Done(f, sub)' = Done(f, sub)
  BY <1>1, <1>2 DEF Done
<1>4. \A f, sub, p : IsProgress(f, sub, p)' = IsProgress(f, sub, p)
  BY <1>2, <1>3 DEF IsProgress
<1>5. OnlyWanted' = OnlyWanted
  BY <1>1 DEF OnlyWanted
<1>6. UNCHANGED <<timing, structural>> => RowsOfCells' = RowsOfCells
  BY <1>2 DEF RowsOfCells, TimingsOf, StructuralsOf
<1> QED
  BY <1>1, <1>3, <1>4, <1>5, <1>6

LEMMA SameSummary ==
  ASSUME SummaryIsOfOneN, UNCHANGED <<call, timing, structural, summary>>
  PROVE  SummaryIsOfOneN'
<1>1. Cases' = Cases
  BY SameCall
<1>2. \A r : RowIsOfOneN(r)' = RowIsOfOneN(r)
  BY <1>1 DEF RowIsOfOneN, Completed, Total
<1> QED
  BY <1>2 DEF SummaryIsOfOneN

\* A step that runs no cell, goes to no other case and ends no race.
LEMMA SameMeasures ==
  ASSUME SInv, UNCHANGED <<call, at, ran, timing, structural, progress, ltlfsynt, summary>>,
         exit' # 2 => exit # 2,
         phase' # "args" /\ exit' # 2 => phase # "args",
         phase' \in {"args", "summary"} \cup Sweeping => phase \in {"args", "summary"} \cup Sweeping
  PROVE  SInv'
<1>1. OnlyWanted' /\ RowsOfCells' /\ ProgressIsLargest'
  BY SameCells DEF SInv, ProgressIsLargest
<1>2. RacedBehind' /\ NotSummarised'
  BY SameCall DEF SInv, RacedBehind, NotSummarised
<1>3. SummaryIsOfOneN'
  BY SameSummary DEF SInv
<1> QED
  BY <1>1, <1>2, <1>3 DEF SInv

LEMMA StartSweepSInv ==
  ASSUME IInv, SInv, StartSweep
  PROVE  SInv'
<1>1. /\ UNCHANGED <<call, at, ran, timing, structural, ltlfsynt, summary, exit>>
      /\ progress' = [fs \in families \X subjects |-> NoProgress]
      /\ phase = "args" /\ phase' = "case"
  BY DEF StartSweep, loop, outputs
<1>2. ran = {}
  BY <1>1 DEF IInv, Phases
<1>3. OnlyWanted' /\ RowsOfCells'
  BY <1>1, SameCells DEF SInv
<1>4. ProgressIsLargest'
  <2>1. \A f, sub : Done(f, sub) = {}
    BY <1>2 DEF Done
  <2>2. \A f \in families, sub \in subjects : progress'[<<f, sub>>] = NoProgress
    BY <1>1
  <2>3. \A f \in families, sub \in subjects : IsProgress(f, sub, progress'[<<f, sub>>])
    BY <2>1, <2>2 DEF IsProgress
  <2> QED
    BY <1>1, <2>3, SameCells DEF ProgressIsLargest
<1>5. RacedBehind' /\ NotSummarised' /\ SummaryIsOfOneN'
  BY <1>1, SameCall, SameSummary DEF SInv, RacedBehind, NotSummarised
<1> QED
  BY <1>3, <1>4, <1>5 DEF SInv

\* A subject ran on the case at hand.
LEMMA RunSubjectSInv ==
  ASSUME IInv, SInv, RunSubject
  PROVE  SInv'
<1> DEFINE rr == ResultOf(case, subject)
           x == <<case, subject>>
<1>1. /\ UNCHANGED <<call, phase, at, ltlfsynt, summary, exit>>
      /\ phase = "subject" /\ subject \in subjects /\ ran' = ran \cup {x}
      /\ timing' = timing \cup Timings(case, subject, rr) \cup Markers(case, subject, rr)
      /\ structural' = structural \cup Structurals(case, subject, rr)
      /\ progress' = [progress EXCEPT ![<<case.family, subject>>] = Advanced(@, case, rr)]
  BY DEF RunSubject, outputs, ResultOf
<1>2. case \in Cases /\ exit = -1
  BY <1>1, CaseIsOfCases DEF IInv, Phases, Sweeping
<1>3. /\ families' = families /\ subjects' = subjects /\ Cases' = Cases
      /\ \A c, sub : ResultOf(c, sub)' = ResultOf(c, sub)
  BY <1>1, SameCall DEF ResultOf
<1>4. x[1] = case /\ x[2] = subject
  OBVIOUS
<1>5. OnlyWanted'
  BY <1>1, <1>2, <1>3 DEF SInv, OnlyWanted
<1>6. RowsOfCells'
  <2>1. \A y : TimingsOf(y)' = TimingsOf(y) /\ StructuralsOf(y)' = StructuralsOf(y)
    BY <1>3 DEF TimingsOf, StructuralsOf
  <2>2. /\ TimingsOf(x) = Timings(case, subject, rr) \cup Markers(case, subject, rr)
        /\ StructuralsOf(x) = Structurals(case, subject, rr)
    BY <1>4 DEF TimingsOf, StructuralsOf
  <2> HIDE DEF rr, x
  <2>3. timing' = UNION {TimingsOf(y) : y \in ran'}
    BY <1>1, <2>2 DEF SInv, RowsOfCells
  <2>4. structural' = UNION {StructuralsOf(y) : y \in ran'}
    BY <1>1, <2>2 DEF SInv, RowsOfCells
  <2> QED
    BY <2>1, <2>3, <2>4 DEF RowsOfCells
<1>7. ProgressIsLargest'
  <2>1. /\ DOMAIN progress = families \X subjects
        /\ \A f \in families, sub \in subjects : IsProgress(f, sub, progress[<<f, sub>>])
    BY <1>1, <1>2 DEF SInv, ProgressIsLargest
  <2>2. /\ case.n \in Nat /\ case.family \in families /\ case.realizable \in BOOLEAN
        /\ rr.successes \in Nat
    BY <1>1, <1>2, ResultMeans DEF IInv
  <2>3. DOMAIN progress' = families \X subjects
    BY <1>1, <2>1
  <2>4. ASSUME NEW f \in families, NEW sub \in subjects, <<f, sub>> # <<case.family, subject>>
        PROVE  IsProgress(f, sub, progress[<<f, sub>>])'
    <3>1. progress'[<<f, sub>>] = progress[<<f, sub>>]
      BY <1>1, <2>1, <2>4
    <3>2. Done(f, sub)' = Done(f, sub)
      BY <1>1, <1>3, <2>4 DEF Done
    <3> QED
      BY <1>3, <2>1, <3>1, <3>2 DEF IsProgress
  <2>5. ASSUME NEW f \in families, NEW sub \in subjects, f = case.family, sub = subject
        PROVE  IsProgress(f, sub, progress[<<f, sub>>])'
    <3> DEFINE p == progress[<<f, sub>>]
               done == Done(f, sub)
               counts == Measures(rr) /\ case.realizable
    <3>1. progress'[<<f, sub>>] = Advanced(p, case, rr)
      BY <1>1, <2>1, <2>5
    <3>2. Done(f, sub)' = IF counts THEN done \cup {case} ELSE done
      BY <1>1, <1>2, <1>3, <2>5 DEF Done
    <3>3. Advanced(p, case, rr) = IF counts /\ case.n >= p.n THEN Figures(case, rr) ELSE p
      BY <2>2 DEF Advanced, Figures, Measures
    <3>4. IsProgress(f, sub, p)
      BY <2>1
    <3>5. \A d \in done : d.n \in Nat
      BY ResultMeans DEF IInv, Done
    <3> HIDE DEF p, done, counts, rr
    <3>6. CASE ~counts
      <4>1. progress'[<<f, sub>>] = p /\ Done(f, sub)' = done
        BY <3>1, <3>2, <3>3, <3>6
      <4> QED
        BY <1>3, <3>4, <4>1 DEF IsProgress, done
    <3>7. CASE counts /\ done = {} /\ p = NoProgress
      <4>1. Done(f, sub)' = {case} /\ IsLargest(case, {case})
        BY <2>2, <3>2, <3>7 DEF IsLargest
      <4>2. progress'[<<f, sub>>] = Figures(case, rr)
        BY <2>2, <3>1, <3>3, <3>7 DEF NoProgress
      <4> QED
        BY <1>3, <2>5, <4>1, <4>2 DEF IsProgress, rr
    <3>8. ASSUME counts, NEW c \in done, IsLargest(c, done), p = Figures(c, ResultOf(c, sub))
          PROVE  IsProgress(f, sub, progress[<<f, sub>>])'
      <4>1. p.n = c.n /\ c.n \in Nat
        BY <3>5, <3>8 DEF Figures
      <4>2. Done(f, sub)' = done \cup {case}
        BY <3>2, <3>8
      <4>3. CASE case.n >= c.n
        <5>1. progress'[<<f, sub>>] = Figures(case, rr)
          BY <3>1, <3>3, <3>8, <4>1, <4>3
        <5>2. IsLargest(case, done \cup {case})
          BY <2>2, <3>5, <3>8, <4>1, <4>3 DEF IsLargest
        <5> QED
          BY <1>3, <2>5, <4>2, <5>1, <5>2 DEF IsProgress, rr
      <4>4. CASE ~(case.n >= c.n)
        <5>1. progress'[<<f, sub>>] = p
          BY <3>1, <3>3, <4>1, <4>4
        <5>2. IsLargest(c, done \cup {case})
          BY <2>2, <3>8, <4>1, <4>4 DEF IsLargest
        <5> QED
          BY <1>3, <3>8, <4>2, <5>1, <5>2 DEF IsProgress, done
      <4> QED
        BY <4>3, <4>4
    <3> QED
      BY <3>4, <3>6, <3>7, <3>8 DEF IsProgress, p, done
  <2> QED
    BY <1>3, <2>3, <2>4, <2>5 DEF ProgressIsLargest
<1>8. RacedBehind' /\ NotSummarised'
  BY <1>1, SameCall DEF SInv, RacedBehind, NotSummarised
<1>9. SummaryIsOfOneN'
  BY <1>1 DEF SInv, NotSummarised, Sweeping, SummaryIsOfOneN
<1> QED
  BY <1>5, <1>6, <1>7, <1>8, <1>9 DEF SInv

\* The case at hand is done with: it was not wanted, or its race has left a row.
LEMMA LaterSInv ==
  ASSUME IInv, SInv, UNCHANGED <<call, ran, timing, structural, progress, summary, exit>>,
         at' = Later(at), ltlfsynt \subseteq ltlfsynt', phase \in Sweeping, phase' = "case",
         Wanted(case) => \E r \in ltlfsynt' : r.family = case.family
  PROVE  SInv'
<1>1. \A q \in Positions : Precedes(q, at') <=> Precedes(q, at) \/ q = at
  BY LaterIsNext DEF IInv, TypeOK
<1>2. phase # "args"
  BY DEF Sweeping
<1>3. OnlyWanted' /\ RowsOfCells' /\ ProgressIsLargest'
  BY <1>2, SameCells DEF SInv, ProgressIsLargest
<1>4. RacedBehind'
  <2>1. ASSUME exit # 2, NEW p \in Positions, p.n >= call.nMin, Precedes(p, at'), Wanted(CaseAt(p))
        PROVE  \E r \in ltlfsynt' : r.family = CaseAt(p).family
    <3>1. CASE Precedes(p, at)
      BY <2>1, <3>1 DEF SInv, RacedBehind
    <3>2. CASE p = at
      BY <2>1, <3>2 DEF case
    <3> QED
      BY <1>1, <2>1, <3>1, <3>2
  <2> QED
    BY <2>1, SameCall DEF RacedBehind
<1>5. NotSummarised'
  BY DEF SInv, NotSummarised
<1>6. SummaryIsOfOneN'
  BY SameSummary DEF SInv
<1> QED
  BY <1>3, <1>4, <1>5, <1>6 DEF SInv

LEMMA NextCaseSInv ==
  ASSUME IInv, SInv, NEW row, NextCase(row), phase \in {"subject", "race"}, IsOf(row, case)
  PROVE  SInv'
<1>1. /\ UNCHANGED <<call, ran, timing, structural, progress, summary, exit>>
      /\ at' = Later(at) /\ ltlfsynt' = ltlfsynt \cup {row} /\ phase' = "case"
  BY DEF NextCase, measured, outputs
<1>2. row.family = case.family /\ phase \in Sweeping
  BY DEF IsOf, Sweeping
<1> QED
  BY <1>1, <1>2, LaterSInv

LEMMA SummariseSInv ==
  ASSUME IInv, SInv, Summarise
  PROVE  SInv'
<1>1. /\ UNCHANGED <<call, at, ran, timing, structural, progress, ltlfsynt, exit>>
      /\ phase = "summary" /\ phase' = "write"
      /\ summary' = {SummaryRow(f, sub) : f \in families, sub \in subjects}
  BY DEF Summarise, loop, measured
<1>2. OnlyWanted' /\ RowsOfCells' /\ ProgressIsLargest' /\ RacedBehind' /\ NotSummarised'
  BY <1>1, SameCall, SameCells
     DEF SInv, ProgressIsLargest, RacedBehind, NotSummarised, Sweeping
<1>3. Cases' = Cases
  BY <1>1, SameCall
<1>4. \A r : RowIsOfOneN(r)' = RowIsOfOneN(r)
  BY <1>1, <1>3 DEF RowIsOfOneN, Completed, Total
<1>5. SummaryIsOfOneN'
  BY <1>1, <1>4, OneSummaryRow DEF SummaryIsOfOneN
<1> QED
  BY <1>2, <1>5 DEF SInv

LEMMA NextSInv == IInv /\ SInv /\ [Next]_vars => SInv'
<1> SUFFICES ASSUME IInv, SInv, [Next]_vars PROVE SInv'
  OBVIOUS
<1> DEFINE Same == UNCHANGED <<call, at, ran, timing, structural, progress, ltlfsynt, summary>>
<1>1. CASE UNCHANGED vars
  BY <1>1, SameMeasures DEF vars, loop, measured, outputs
<1>2. CASE Usage
  <2>1. Same /\ exit' = 2 /\ phase' = "done"
    BY <1>2 DEF Usage, loop, measured
  <2> QED
    BY <2>1, SameMeasures DEF Sweeping
<1>3. CASE StartSweep
  BY <1>3, StartSweepSInv
<1>4. CASE BudgetEnds \/ StopEarly \/ TakeCase \/ SkipSubject \/ StartRace \/ RaceRepeat \/ GridDone
  <2>1. Same /\ exit' = exit /\ phase \in Sweeping
    BY <1>4 DEF BudgetEnds, StopEarly, TakeCase, SkipSubject, StartRace, RaceRepeat, GridDone,
                SubjectsDone, loop, measured, outputs, Sweeping
  <2> QED
    BY <2>1, SameMeasures DEF Sweeping
<1>5. CASE SkipCase
  <2>1. /\ UNCHANGED <<call, ran, timing, structural, progress, summary, exit, ltlfsynt>>
        /\ at' = Later(at) /\ phase \in Sweeping /\ phase' = "case" /\ ~Wanted(case)
    BY <1>5 DEF SkipCase, measured, outputs, Sweeping
  <2> QED
    BY <2>1, LaterSInv
<1>6. CASE RunSubject
  BY <1>6, RunSubjectSInv
<1>7. CASE NoRaceForTier \/ RaceSkipped
  <2>1. PICK outcome \in {"n/a", "skipped"} : NextCase(LtlfsyntRow(case, outcome)) /\ phase = "subject"
    BY <1>7 DEF NoRaceForTier, RaceSkipped, SubjectsDone
  <2>2. IsOf(LtlfsyntRow(case, outcome), case)
    BY RowWithoutRace
  <2> QED
    BY <2>1, <2>2, NextCaseSInv
<1>8. CASE EndRace
  BY <1>8, RowOfRace, NextCaseSInv DEF EndRace
<1>9. CASE Summarise
  BY <1>9, SummariseSInv
<1>10. CASE NoDirectory \/ OpenFails \/ Write \/ Export
  <2>1. Same /\ phase \in {"write", "export"} /\ phase' \in {"export", "done"}
    BY <1>10 DEF NoDirectory, OpenFails, Write, Export, loop, measured
  <2>2. exit # 2
    BY <2>1 DEF IInv, Phases
  <2> QED
    BY <2>1, <2>2, SameMeasures DEF Sweeping
<1> QED
  BY <1>1, <1>2, <1>3, <1>4, <1>5, <1>6, <1>7, <1>8, <1>9, <1>10 DEF Next

-----------------------------------------------------------------------------
\* At every moment the rows are those of the cells that were run, a subject's progress
\* on a family is its largest completed realizable case, and every case behind the one
\* at hand has its row of the race.
THEOREM SummaryInvariant == Spec => []SInv
<1> QED
  BY InductiveInvariant, InitSInv, NextSInv, PTL DEF Spec

\* The summary table compares like with like: one n per row, the largest completed,
\* a speedup of two totals of that n, and the family's tier however early the sweep
\* was cut.
THEOREM SummaryComparable == Spec => []SummaryIsOfOneN
<1>1. SInv => SummaryIsOfOneN
  BY DEF SInv
<1> QED
  BY SummaryInvariant, <1>1, PTL
===============================================================================
