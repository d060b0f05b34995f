------------------------------ MODULE BenchRunner ------------------------------
(***************************************************************************)
(* RunCaseRepeated and the fork-isolated RunCaseWithTimeout it calls: each   *)
(* repeat forks a child that runs the case (perhaps through a MONA process   *)
(* of its own) and writes its rows into a pipe, while the parent polls the   *)
(* pipe against a deadline, kills what misses it, reaps the child and        *)
(* classifies how it ended.  The last step is the sweep's: which rows the    *)
(* cell leaves in the report.                                                *)
(***************************************************************************)
EXTENDS Naturals, Sequences, FiniteSets

CONSTANTS
  Repeat,  \* --repeat: runs of one case
  Chunks   \* writes that the payload of a case with rows takes

ASSUME RunnerAssumption == Repeat \in Nat \ {0} /\ Chunks \in Nat \ {0}

VARIABLES
  parent,   \* "idle", "forked", "polling", "killing", "reaping", "done"
  verdict,  \* what ended the polling: "none" (EOF), "timed_out", "poll_error"
  child,    \* "none", "forked", "running", "solving", "writing", "closed", "zombie"
  status,   \* the child's wait status: "none", "zero", "one", "signal"
  grouped,  \* the child leads a process group of its own
  mona,     \* the calls whose MONA process is alive
  led,      \* the calls whose MONA process is in its child's group
  rows,     \* what the case returned: "none", "empty" (a clean skip), "some"
  sent, pipe, buf,  \* chunks written, in the pipe, read by the parent
  expired,  \* the deadline has passed
  outcomes, \* one TimedRunResult per finished repeat
  markers   \* kinds of rows the sweep pushes for the cell

parentVars == <<parent, verdict, outcomes, markers>>
childVars == <<child, status, grouped, rows, sent>>
runnerVars == <<parent, verdict, child, status, grouped, mona, led, rows, sent, pipe, buf, expired, outcomes, markers>>

current == Len(outcomes) + 1
Alive == {"forked", "running", "solving", "writing", "closed"}
Size(r) == IF r = "some" THEN Chunks ELSE 1

\* Who keeps the write end open.  The pipe is O_CLOEXEC, so MONA does not.
Writers_NoCloexec == child \in Alive \ {"closed"} \/ current \in mona
Writers == child \in Alive \ {"closed"}

-----------------------------------------------------------------------------
RunnerInit ==
  /\ parent = "idle" /\ verdict = "none"
  /\ child = "none" /\ status = "none" /\ grouped = FALSE /\ rows = "none"
  /\ mona = {} /\ led = {}
  /\ sent = 0 /\ pipe = 0 /\ buf = 0 /\ expired = FALSE
  /\ outcomes = <<>> /\ markers = {}

RepeatsLeft == current <= Repeat

Return(o) == parent' = "idle" /\ outcomes' = Append(outcomes, o)

PipeOrForkFails ==
  /\ parent = "idle" /\ RepeatsLeft
  /\ Return("failed")
  /\ UNCHANGED <<verdict, childVars, mona, led, pipe, buf, expired, markers>>

Fork ==
  /\ parent = "idle" /\ RepeatsLeft
  /\ parent' = "forked" /\ verdict' = "none"
  /\ child' = "forked" /\ status' = "none" /\ grouped' = FALSE /\ rows' = "none"
  /\ sent' = 0 /\ pipe' = 0 /\ buf' = 0 /\ expired' = FALSE
  /\ UNCHANGED <<mona, led, outcomes, markers>>

\* setpgid's result is unchecked, in the child and in the parent.  When the
\* parent's succeeds a MONA process that is already there stays in its group.
ChildSetpgid ==
  /\ child = "forked"
  /\ child' = "running" /\ grouped' \in {TRUE, grouped}
  /\ UNCHANGED <<parentVars, status, mona, led, rows, sent, pipe, buf, expired>>

ParentSetpgid ==
  /\ parent = "forked"
  /\ parent' = "polling" /\ grouped' \in {TRUE, grouped}
  /\ UNCHANGED <<verdict, outcomes, markers, child, status, mona, led, rows, sent, pipe, buf, expired>>

-----------------------------------------------------------------------------
\* The child: run_bench_case, with MONA started and waited for by std::system.
StartMona ==
  /\ child = "running"
  /\ child' = "solving" /\ mona' = mona \cup {current}
  /\ led' = IF grouped THEN led \cup {current} ELSE led
  /\ UNCHANGED <<parentVars, status, grouped, rows, sent, pipe, buf, expired>>

MonaEnds ==
  \E c \in mona :
    /\ mona' = mona \ {c}
    /\ child' = IF c = current /\ child = "solving" THEN "running" ELSE child
    /\ UNCHANGED <<parentVars, status, grouped, led, rows, sent, pipe, buf, expired>>

CaseReturns ==
  /\ child = "running"
  /\ child' = "writing" /\ rows' \in {"empty", "some"}
  /\ UNCHANGED <<parentVars, status, grouped, mona, led, sent, pipe, buf, expired>>

Dies(s) == child' = "zombie" /\ status' = s

CaseThrows ==
  /\ child = "running" /\ Dies("one")
  /\ UNCHANGED <<parentVars, grouped, mona, led, rows, sent, pipe, buf, expired>>

\* One write() of WriteAll; the pipe holds one chunk, so the next write waits.
WriteChunk ==
  /\ child = "writing" /\ sent < Size(rows) /\ pipe = 0
  /\ sent' = sent + 1 /\ pipe' = 1
  /\ UNCHANGED <<parentVars, child, status, grouped, mona, led, rows, buf, expired>>

WriteFails ==
  /\ child = "writing" /\ sent < Size(rows) /\ Dies("one")
  /\ UNCHANGED <<parentVars, grouped, mona, led, rows, sent, pipe, buf, expired>>

WrittenAll_OneWrite == sent > 0
WrittenAll == sent = Size(rows)

Close ==
  /\ child = "writing" /\ WrittenAll
  /\ child' = "closed"
  /\ UNCHANGED <<parentVars, status, grouped, mona, led, rows, sent, pipe, buf, expired>>

ChildExits ==
  /\ child = "closed" /\ Dies("zero")
  /\ UNCHANGED <<parentVars, grouped, mona, led, rows, sent, pipe, buf, expired>>

\* A segmentation fault, or the memory cap: only the child dies of it.
ChildCrashes ==
  /\ child \in Alive /\ Dies("signal")
  /\ UNCHANGED <<parentVars, grouped, mona, led, rows, sent, pipe, buf, expired>>

Tick ==
  /\ parent = "polling" /\ ~expired
  /\ expired' = TRUE
  /\ UNCHANGED <<parentVars, childVars, mona, led, pipe, buf>>

-----------------------------------------------------------------------------
\* The parent's poll loop.  A poll that can report data or EOF does so also
\* when no time is left.
Read ==
  /\ parent = "polling" /\ pipe > 0
  /\ pipe' = 0 /\ buf' = buf + pipe
  /\ UNCHANGED <<parentVars, childVars, mona, led, expired>>

ReadEof ==
  /\ parent = "polling" /\ pipe = 0 /\ ~Writers
  /\ parent' = "reaping"
  /\ UNCHANGED <<verdict, outcomes, markers, childVars, mona, led, pipe, buf, expired>>

Deadline ==
  /\ parent = "polling" /\ expired /\ pipe = 0 /\ Writers
  /\ parent' = "killing" /\ verdict' = "timed_out"
  /\ UNCHANGED <<outcomes, markers, childVars, mona, led, pipe, buf, expired>>

PollError ==
  /\ parent = "polling"
  /\ parent' = "killing" /\ verdict' = "poll_error"
  /\ UNCHANGED <<outcomes, markers, childVars, mona, led, pipe, buf, expired>>

\* kill(-pid), which reaches the group if there is one, and kill(pid).
KilledMona_ChildOnly == {}
KilledMona == IF grouped THEN {current} \cap led ELSE {}
KilledChild_GroupOnly == child \in Alive /\ grouped
KilledChild == child \in Alive

Kill ==
  /\ parent = "killing"
  /\ parent' = "reaping"
  /\ mona' = mona \ KilledMona
  /\ IF KilledChild THEN Dies("signal") ELSE UNCHANGED <<child, status>>
  /\ UNCHANGED <<verdict, outcomes, markers, grouped, led, rows, sent, pipe, buf, expired>>

\* waitpid and the classification of what it returned.
Outcome ==
  CASE verdict = "timed_out" -> "timed_out"
    [] verdict = "poll_error" -> "failed"
    [] verdict = "none" /\ status = "signal" -> "signal"
    [] verdict = "none" /\ status = "one" -> "exit_1"
    [] OTHER -> IF buf # Size(rows) THEN "truncated payload"
                ELSE IF rows = "empty" THEN "skip" ELSE "success"

Reap ==
  /\ parent = "reaping" /\ child = "zombie"
  /\ Return(Outcome) /\ child' = "none"
  /\ UNCHANGED <<verdict, markers, status, grouped, mona, led, rows, sent, pipe, buf, expired>>

-----------------------------------------------------------------------------
\* RunCaseRepeated's counters.  A clean skip is a run that returned no rows.
Count(S) == Cardinality({c \in DOMAIN outcomes : outcomes[c] \in S})
successes == Count({"success", "skip"})
timeouts == Count({"timed_out"})
failures == Count({"failed", "signal", "exit_1", "truncated payload"})

\* The rows of the cell: markers when no repeat succeeded, else the minima of
\* the successful repeats and a marker for each partial kind.
CellMarkers_TimeoutFirst ==
  IF timeouts > 0 THEN {"timeout"} ELSE IF failures > 0 THEN {"failed"} ELSE {}
CellMarkers ==
  (IF successes > 0 /\ \E c \in DOMAIN outcomes : outcomes[c] = "success" THEN {"values"} ELSE {})
    \cup (IF timeouts > 0 THEN {"timeout"} ELSE {})
    \cup (IF failures > 0 THEN {"failed"} ELSE {})

Report ==
  /\ parent = "idle" /\ ~RepeatsLeft
  /\ parent' = "done" /\ markers' = CellMarkers
  /\ UNCHANGED <<verdict, outcomes, childVars, mona, led, pipe, buf, expired>>

\* What the parent does of itself, and the calls that may fail it, which need not.
ParentMoves ==
  \/ Fork \/ ParentSetpgid
  \/ Read \/ ReadEof \/ Deadline
  \/ Kill \/ Reap \/ Report
Parent == ParentMoves \/ PipeOrForkFails \/ PollError
Child ==
  \/ ChildSetpgid \/ StartMona \/ MonaEnds \/ CaseReturns \/ CaseThrows
  \/ WriteChunk \/ WriteFails \/ Close \/ ChildExits \/ ChildCrashes

RunnerNext == Parent \/ Child \/ Tick

RunnerSpec == RunnerInit /\ [][RunnerNext]_runnerVars

\* The parent runs, time passes, and a child that has closed the pipe exits:
\* nothing is between the close and _exit.  The case itself may hang, and no call
\* fails only because it could.
RunnerFairSpec ==
  RunnerSpec /\ WF_runnerVars(ParentMoves) /\ WF_runnerVars(Tick) /\ WF_runnerVars(ChildExits)

-----------------------------------------------------------------------------

\* "A deadline miss must kill that whole tree": a MONA process that survives
\* its call was left by a child that crashed, or never joined a group.
OnlyCrashesLeaveMona ==
  \A c \in mona : c < current => outcomes[c] = "signal" \/ c \notin led

\* A child that exits 0 has handed over its whole payload, so a finished case
\* is never discarded as a truncated one.
ExitZeroIsComplete ==
  parent = "reaping" /\ verdict = "none" /\ status = "zero" => buf = Size(rows)

\* The comment on O_CLOEXEC: a run is reported as a timeout only when the
\* child itself was still at work when the deadline was found to have passed.
TimeoutMeansRunning ==
  [][verdict' = "timed_out" /\ verdict # "timed_out" => child \in Alive]_runnerVars

\* "Never a silent absence": a repeat that timed out and a repeat that failed
\* each leave a marker of their own kind beside whatever else the cell holds.
EveryMissFlagged ==
  parent = "done" =>
    \A c \in DOMAIN outcomes :
      /\ outcomes[c] = "timed_out" => "timeout" \in markers
      /\ outcomes[c] \in {"failed", "signal", "exit_1", "truncated payload"} => "failed" \in markers
      /\ outcomes[c] = "success" => "values" \in markers

\* A case that hangs, or whose child could not get a group, never hangs the
\* sweep: RunCaseRepeated returns.
Returns == <>(parent = "done")
===============================================================================
