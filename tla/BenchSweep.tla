------------------------------ MODULE BenchSweep ------------------------------
(***************************************************************************)
(* main of ltlf-ek-bench: from the command line over the sweep of the        *)
(* registry (every case by every subject, then the race against ltlfsynt)    *)
(* under a wall-clock budget, to the summary table and the report on disk.   *)
(* A call of RunCaseRepeated is one step here; BenchRunner is its detail.    *)
(***************************************************************************)
EXTENDS Integers, Sequences, FiniteSets, SequencesExt

CONSTANTS
  FamilyRegistry, SubjectRegistry,  \* the names in bench_families() and bench_subjects()
  Floor, Tier,                      \* n_floor and comparability tier of each family
  Calls   \* command lines, each with what the subjects and ltlfsynt will do

\* No two entries of a registry have one name.
IsRegistry(r) ==
  /\ r \in Seq(STRING) /\ r # <<>>
  /\ \A i, j \in DOMAIN r : r[i] = r[j] => i = j

ASSUME RegistriesAreNamed == IsRegistry(FamilyRegistry) /\ IsRegistry(SubjectRegistry)
ASSUME NumbersAreWhole ==
  /\ \A f \in ToSet(FamilyRegistry) : Floor[f] \in Nat
  /\ \A c \in Calls : c.nMin \in Int /\ c.nMax \in Int /\ c.repeat \in Int
  /\ \A c \in Calls : c.formulaWritten \in BOOLEAN

VARIABLES
  call,      \* the element of Calls that this invocation is
  phase,     \* "args", "case", "subject", "race", "summary", "write", "export", "done"
  at, s,     \* the loops: n, polarity and position in the families, and in the subjects
  late,      \* steady_clock::now() >= deadline
  stopped,   \* stopped_early
  race,      \* the accumulators of the race's repeats
  ran,       \* the cells RunCaseRepeated was called for
  timing, structural, ltlfsynt,  \* the rows of the report, as sets
  progress,  \* (family, subject) -> SubjectProgress
  summary,   \* the summary rows
  report,    \* the file at --out: "none", "truncated", "whole"
  workbook,  \* the file at --xlsx: "none", "written", "csv", "failed"
  printed,   \* the report went to stderr
  exit       \* the exit code, -1 while running

loop == <<at, s, late, stopped>>
measured == <<ran, timing, structural, progress>>
outputs == <<summary, report, workbook, printed, exit>>
vars == <<call, phase, loop, race, measured, ltlfsynt, outputs>>

-----------------------------------------------------------------------------
\* A comma-separated list is the set of its names; the registry gives the order,
\* and a loop over the selected entries is one over the registry that skips the rest.
Selected(registry, names) ==
  IF names = {"all"} THEN ToSet(registry) ELSE ToSet(registry) \cap names
Unknown(registry, names) == names # {"all"} /\ ~names \subseteq ToSet(registry)

families == Selected(FamilyRegistry, call.families)
subjects == Selected(SubjectRegistry, call.subjects)

\* ParseArgs' own refusals, and what an --out or --xlsx path may be.
BadNumbers(c) == c.nMin > c.nMax \/ c.repeat < 1
BadPath(place) == place \in {"outside", "tmp", "tmpdir"}

UsageError(c) ==
  \/ BadNumbers(c) \/ BadPath(c.out) \/ BadPath(c.xlsx)
  \/ Unknown(FamilyRegistry, c.families) \/ Unknown(SubjectRegistry, c.subjects)
  \/ c.families = {} \/ c.subjects = {}

\* The nested loops: n outermost, then the polarity, then the families.
FirstCase == [n |-> call.nMin, pol |-> 0, f |-> 1]
CasesLeft == at.n <= call.nMax

\* The polarity outermost.
Later_PolarityFirst(p) ==
  IF p.f < Len(FamilyRegistry) THEN [p EXCEPT !.f = @ + 1]
  ELSE IF p.n < call.nMax \/ p.pol = 1 THEN [p EXCEPT !.n = @ + 1, !.f = 1]
  ELSE [n |-> call.nMin, pol |-> 1, f |-> 1]
Later(p) ==
  IF p.f < Len(FamilyRegistry) THEN [p EXCEPT !.f = @ + 1]
  ELSE IF p.pol = 0 THEN [p EXCEPT !.pol = 1, !.f = 1]
  ELSE [n |-> p.n + 1, pol |-> 0, f |-> 1]

CaseAt(p) == [n |-> p.n, realizable |-> p.pol = 1, family |-> FamilyRegistry[p.f]]
case == CaseAt(at)

\* A family that was selected starts at its floor.
Wanted(c) == c.family \in families /\ c.n >= Floor[c.family]

Cases ==
  {c \in [n : call.nMin .. call.nMax, realizable : BOOLEAN, family : families] : Wanted(c)}

subject == SubjectRegistry[s]

-----------------------------------------------------------------------------
\* What one cell leaves behind.  rr is a RepeatedResult: the minima by key, and
\* how many repeats succeeded, timed out and failed.
StageKeys == {"automaton_construction", "product_construction", "game_solving", "aggregation"}
MetricKeys == {"product_states", "product_mtdfa_roots"}
ConstructionKeys == {"automaton_construction", "product_construction"}

StageSum(rr, keys) == MapThenSumSet(LAMBDA key : rr.min[key], keys \cap DOMAIN rr.min)
WallTotal(rr) == StageSum(rr, StageKeys)

Row(c, sub, key, value) ==
  [family |-> c.family, n |-> c.n, realizable |-> c.realizable, subject |-> sub,
   key |-> key, value |-> value, marker |-> FALSE]
MarkerRow(c, sub, key, count) == [Row(c, sub, key, count) EXCEPT !.marker = TRUE]

Markers(c, sub, rr) ==
  LET name(whole, partly) == IF rr.successes = 0 THEN whole ELSE partly
  IN  {MarkerRow(c, sub, name("TIMEOUT", "PARTIAL_TIMEOUT"), rr.timeouts) : x \in {1} \cap 1 .. rr.timeouts}
      \cup {MarkerRow(c, sub, name("FAILED", "PARTIAL_FAILED"), rr.failures) : x \in {1} \cap 1 .. rr.failures}

HasTimes(rr) == DOMAIN rr.min \ MetricKeys # {}

Timings(c, sub, rr) ==
  IF rr.successes = 0 \/ ~HasTimes(rr) THEN {}
  ELSE {Row(c, sub, key, rr.min[key]) : key \in DOMAIN rr.min \ MetricKeys}
       \cup {Row(c, sub, "wall_total", WallTotal(rr))}

Structurals(c, sub, rr) ==
  IF rr.successes = 0 THEN {}
  ELSE {Row(c, sub, key, rr.min[key]) : key \in DOMAIN rr.min \cap MetricKeys}

None == [some |-> FALSE]
Some(x) == [some |-> TRUE, value |-> x]
Metric(rr, key) == IF key \in DOMAIN rr.min THEN Some(rr.min[key]) ELSE None

NoProgress == [completed |-> FALSE, n |-> 0]

\* The bookkeeping of the summary: the realizable member of the largest n that
\* completed.
Advanced(p, c, rr) ==
  IF rr.successes > 0 /\ c.realizable /\ DOMAIN rr.min # {} /\ c.n >= p.n
  THEN [completed |-> TRUE, n |-> c.n, best |-> WallTotal(rr),
        construction |-> StageSum(rr, ConstructionKeys),
        states |-> Metric(rr, "product_states"), roots |-> Metric(rr, "product_mtdfa_roots")]
  ELSE p

Baseline == "mtdfa-product"

\* A run that was timed took some time, no stage or metric is called wall_total, and
\* the baseline never measures sizes only.
ASSUME ResultsAreMeasured ==
  \A c \in Calls, f \in ToSet(FamilyRegistry), sub \in ToSet(SubjectRegistry) :
    \A n \in c.nMin .. c.nMax, realizable \in BOOLEAN : n >= Floor[f] =>
      LET rr == c.results[<<f, sub>>][n][realizable]
      IN  /\ rr.successes \in Nat /\ "wall_total" \notin DOMAIN rr.min
          /\ HasTimes(rr) => WallTotal(rr) \in Nat \ {0}
          /\ sub = Baseline /\ DOMAIN rr.min # {} => HasTimes(rr)

-----------------------------------------------------------------------------
\* The race.  A run of ltlfsynt is its exit code (-1: the shell was killed), the
\* word it printed and the kinds of --verbose lines with a time: "stage", "cut".
\* `timeout` exits with 124; the verdict needs the word and the code that belongs
\* to it; the internal time needs every timed line whole.
TimedOut(run) == run.exit \in {124, -1}
Verdict(run) ==
  IF <<run.exit, run.word>> \in {<<0, "REALIZABLE">>, <<1, "UNREALIZABLE">>} THEN run.word ELSE "none"
Internal(run) == run.chatter = {"stage"}

NoRace == [rep |-> 0, times |-> <<>>, internal |-> <<>>, noInternal |-> FALSE,
           verdict |-> "none", success |-> FALSE, timeout |-> FALSE]

Repeated(acc, run) ==
  IF TimedOut(run) THEN [acc EXCEPT !.rep = @ + 1, !.timeout = TRUE]
  ELSE [rep |-> acc.rep + 1, times |-> Append(acc.times, run.ns),
        internal |-> IF Internal(run) THEN Append(acc.internal, run.ns) ELSE acc.internal,
        noInternal |-> acc.noInternal \/ ~Internal(run),
        verdict |-> Verdict(run), success |-> TRUE, timeout |-> acc.timeout]

EkVerdict(c) == IF c.realizable THEN "REALIZABLE" ELSE "UNREALIZABLE"

LtlfsyntRow(c, status) ==
  [family |-> c.family, n |-> c.n, realizable |-> c.realizable, tier |-> Tier[c.family],
   status |-> status, ns |-> None, median |-> None, internal |-> None,
   verdict |-> "none", mismatch |-> FALSE]

Sorted(times) == SortSeq(times, LAMBDA a, b : a < b)
Median(times) ==
  LET v == Sorted(times)
      mid == Len(v) \div 2 + 1
  IN  IF Len(v) % 2 = 1 THEN v[mid] ELSE (v[mid - 1] + v[mid]) \div 2

\* Forgets that some repeats timed out.
RaceRow_PosesAsOk(c, acc) ==
  IF ~acc.success THEN LtlfsyntRow(c, IF acc.timeout THEN "timeout" ELSE "error")
  ELSE IF acc.verdict = "none" THEN LtlfsyntRow(c, "error")
  ELSE [LtlfsyntRow(c, "ok") EXCEPT
          !.ns = Some(Min(ToSet(acc.times))), !.median = Some(Median(acc.times)),
          !.internal = IF acc.noInternal THEN None ELSE Some(Median(acc.internal)),
          !.verdict = acc.verdict, !.mismatch = acc.verdict # EkVerdict(c)]
RaceRow(c, acc) ==
  IF ~acc.success THEN LtlfsyntRow(c, IF acc.timeout THEN "timeout" ELSE "error")
  ELSE IF acc.verdict = "none" THEN LtlfsyntRow(c, "error")
  ELSE [LtlfsyntRow(c, IF acc.timeout THEN "partial_timeout" ELSE "ok") EXCEPT
          !.ns = Some(Min(ToSet(acc.times))), !.median = Some(Median(acc.times)),
          !.internal = IF acc.timeout \/ acc.noInternal THEN None ELSE Some(Median(acc.internal)),
          !.verdict = acc.verdict, !.mismatch = acc.verdict # EkVerdict(c)]

-----------------------------------------------------------------------------
Init ==
  /\ call \in Calls
  /\ phase = "args" /\ at = FirstCase /\ s = 1 /\ late = FALSE /\ stopped = FALSE
  /\ race = NoRace /\ ran = {}
  /\ timing = {} /\ structural = {} /\ ltlfsynt = {}
  /\ progress = <<>> /\ summary = {}
  /\ report = "none" /\ workbook = "none" /\ printed = FALSE /\ exit = -1

Usage ==
  /\ phase = "args" /\ UsageError(call)
  /\ phase' = "done" /\ exit' = 2
  /\ UNCHANGED <<call, loop, race, measured, ltlfsynt, summary, report, workbook, printed>>

StartSweep ==
  /\ phase = "args" /\ ~UsageError(call)
  /\ phase' = "case"
  /\ progress' = [fs \in families \X subjects |-> NoProgress]
  /\ UNCHANGED <<call, loop, race, ran, timing, structural, ltlfsynt, outputs>>

\* The budget runs out, at any moment of the sweep.
BudgetEnds ==
  /\ phase \in {"case", "subject", "race"} /\ ~late /\ late' = TRUE
  /\ UNCHANGED <<call, phase, at, s, stopped, race, measured, ltlfsynt, outputs>>

SubjectsLeft == s <= Len(SubjectRegistry)

\* Leaves the loop over the subjects only.
StopEarly_RacesAnyway ==
  /\ \/ phase = "case" /\ CasesLeft /\ Wanted(case)
     \/ phase = "subject" /\ SubjectsLeft /\ subject \in subjects
  /\ late
  /\ IF phase = "case" THEN phase' = "summary" /\ UNCHANGED s
     ELSE s' = Len(SubjectRegistry) + 1 /\ UNCHANGED phase
  /\ stopped' = TRUE
  /\ UNCHANGED <<call, at, late, race, measured, ltlfsynt, outputs>>
\* The deadline is read before each case and before each subject, and stops
\* every loop.
StopEarly ==
  /\ \/ phase = "case" /\ CasesLeft /\ Wanted(case)
     \/ phase = "subject" /\ SubjectsLeft /\ subject \in subjects
  /\ late
  /\ phase' = "summary" /\ stopped' = TRUE
  /\ UNCHANGED <<call, at, s, late, race, measured, ltlfsynt, outputs>>

SkipCase ==
  /\ phase = "case" /\ CasesLeft /\ ~Wanted(case)
  /\ at' = Later(at)
  /\ UNCHANGED <<call, phase, s, late, stopped, race, measured, ltlfsynt, outputs>>

TakeCase ==
  /\ phase = "case" /\ CasesLeft /\ Wanted(case) /\ ~late
  /\ phase' = "subject" /\ s' = 1
  /\ UNCHANGED <<call, at, late, stopped, race, measured, ltlfsynt, outputs>>

SkipSubject ==
  /\ phase = "subject" /\ SubjectsLeft /\ subject \notin subjects
  /\ s' = s + 1
  /\ UNCHANGED <<call, phase, at, late, stopped, race, measured, ltlfsynt, outputs>>

RunSubject ==
  /\ phase = "subject" /\ SubjectsLeft /\ subject \in subjects /\ ~late
  /\ LET rr == call.results[<<case.family, subject>>][case.n][case.realizable]
     IN  /\ timing' = timing \cup Timings(case, subject, rr) \cup Markers(case, subject, rr)
         /\ structural' = structural \cup Structurals(case, subject, rr)
         /\ progress' = [progress EXCEPT ![<<case.family, subject>>] = Advanced(@, case, rr)]
  /\ ran' = ran \cup {<<case, subject>>}
  /\ s' = s + 1
  /\ UNCHANGED <<call, phase, at, late, stopped, race, ltlfsynt, outputs>>

NextCase(row) ==
  /\ ltlfsynt' = ltlfsynt \cup {row}
  /\ phase' = "case" /\ at' = Later(at) /\ race' = NoRace
  /\ UNCHANGED <<call, s, late, stopped, measured, outputs>>

SubjectsDone == phase = "subject" /\ ~SubjectsLeft

NoRaceForTier ==
  /\ SubjectsDone /\ Tier[case.family] # "t1"
  /\ NextCase(LtlfsyntRow(case, "n/a"))

\* Where ltlfsynt was found to run: the flag, the build's default or the path.
ltlfsyntBinary == IF call.runnable = {} THEN "" ELSE CHOOSE b \in call.runnable : TRUE

RaceSkipped ==
  /\ SubjectsDone /\ Tier[case.family] = "t1" /\ ltlfsyntBinary = ""
  /\ NextCase(LtlfsyntRow(case, "skipped"))

StartRace ==
  /\ SubjectsDone /\ Tier[case.family] = "t1" /\ ltlfsyntBinary # ""
  /\ phase' = "race" /\ race' = NoRace
  /\ UNCHANGED <<call, loop, measured, ltlfsynt, outputs>>

\* No repeat is run when the formula could not be written to its file.
RacesLeft == call.formulaWritten /\ race.rep < call.repeat

RaceRepeat ==
  /\ phase = "race" /\ RacesLeft
  /\ race' = Repeated(race, call.race[race.rep + 1])
  /\ UNCHANGED <<call, phase, loop, measured, ltlfsynt, outputs>>

EndRace ==
  /\ phase = "race" /\ ~RacesLeft
  /\ NextCase(RaceRow(case, race))

GridDone ==
  /\ phase = "case" /\ ~CasesLeft
  /\ phase' = "summary"
  /\ UNCHANGED <<call, loop, race, measured, ltlfsynt, outputs>>

-----------------------------------------------------------------------------
\* The summary table.  The tier of a family is known from its ltlfsynt rows.

\* Compares the best times whatever their n.
Speedup_AnyN(f, p) ==
  LET b == progress[<<f, Baseline>>]
  IN  IF Baseline \in subjects /\ b.completed /\ p.best > 0
      THEN Some(<<b.best, p.best>>) ELSE None
Speedup(f, p) ==
  LET b == progress[<<f, Baseline>>]
  IN  IF Baseline \in subjects /\ b.completed /\ b.n = p.n /\ p.best > 0
      THEN Some(<<b.best, p.best>>) ELSE None

RowTier(f) == IF \E r \in ltlfsynt : r.family = f THEN Some(Tier[f]) ELSE None

SummaryRow(f, sub) ==
  LET p == progress[<<f, sub>>]
  IN  IF ~p.completed THEN [family |-> f, subject |-> sub, tier |-> RowTier(f), completed |-> FALSE]
      ELSE [family |-> f, subject |-> sub, tier |-> RowTier(f), completed |-> TRUE, n |-> p.n, best |-> p.best,
            construction |-> p.construction, speedup |-> Speedup(f, p), states |-> p.states, roots |-> p.roots]

Summarise ==
  /\ phase = "summary"
  /\ summary' = {SummaryRow(f, sub) : f \in families, sub \in subjects}
  /\ phase' = "write"
  /\ UNCHANGED <<call, loop, race, measured, ltlfsynt, report, workbook, printed, exit>>

\* create_directories throws before anything is written or printed.
NoDirectory ==
  /\ phase = "write"
  /\ phase' = "done" /\ exit' = 1
  /\ UNCHANGED <<call, loop, race, measured, ltlfsynt, summary, report, workbook, printed>>

OpenFails ==
  /\ phase = "write"
  /\ phase' = "done" /\ exit' = 1 /\ printed' = TRUE
  /\ UNCHANGED <<call, loop, race, measured, ltlfsynt, summary, report, workbook>>

\* Neither the insertion into the stream nor its closing is checked.
Write ==
  /\ phase = "write"
  /\ report' \in {"truncated", "whole"}
  /\ phase' = "export"
  /\ UNCHANGED <<call, loop, race, measured, ltlfsynt, summary, workbook, printed, exit>>

\* The exporter reads the report; whatever becomes of it, the exit code is 0.
Export ==
  /\ phase = "export"
  /\ workbook' \in IF call.xlsx = "none" THEN {"none"}
                  ELSE IF report = "whole" THEN {"written", "csv", "failed"} ELSE {"failed"}
  /\ phase' = "done" /\ exit' = 0
  /\ UNCHANGED <<call, loop, race, measured, ltlfsynt, summary, report, printed>>

Next ==
  \/ Usage \/ StartSweep
  \/ BudgetEnds \/ StopEarly
  \/ SkipCase \/ TakeCase \/ SkipSubject \/ RunSubject
  \/ NoRaceForTier \/ RaceSkipped \/ StartRace \/ RaceRepeat \/ EndRace
  \/ GridDone \/ Summarise
  \/ NoDirectory \/ OpenFails \/ Write \/ Export

Spec == Init /\ [][Next]_vars

-----------------------------------------------------------------------------
Swept == phase \notin {"args", "case", "subject", "race"} /\ exit # 2

\* A sweep cut by its budget has covered the smaller n of every family by every
\* subject before it spent time on a larger one, and stopped_early is set exactly
\* when some cell of the grid was not run.
PartialIsBroad ==
  /\ \A x \in ran : \A c \in Cases :
       c.n < x[1].n => \A sub \in subjects : <<c, sub>> \in ran
  /\ Swept => (stopped <=> \E c \in Cases, sub \in subjects : <<c, sub>> \notin ran)

\* The race never runs for a case that the budget cut between two subjects: a row
\* of the race always has the rows of every subject to be compared with.
RaceHasItsSubjects ==
  \A r \in ltlfsynt : \A sub \in subjects :
    <<[n |-> r.n, realizable |-> r.realizable, family |-> r.family], sub>> \in ran

\* A row of figures of sub on the realizable case of r's family; its total.
Completed(r, sub, n) ==
  \E row \in timing \cup structural :
    /\ row.family = r.family /\ row.subject = sub /\ row.realizable /\ ~row.marker
    /\ row.n = n
Total(f, sub, n) ==
  {row.value : row \in {x \in timing : /\ x.family = f /\ x.subject = sub /\ x.realizable
                                      /\ x.n = n /\ x.key = "wall_total"}}
RowIsOfOneN(r) ==
  /\ r.completed <=> \E c \in Cases : Completed(r, r.subject, c.n)
  /\ r.completed =>
       /\ r.tier = Some(Tier[r.family])
       /\ Completed(r, r.subject, r.n)
       /\ \A c \in Cases : Completed(r, r.subject, c.n) => c.n <= r.n
       /\ Total(r.family, r.subject, r.n) = IF r.best = 0 THEN {} ELSE {r.best}
       /\ r.speedup.some =>
            /\ Total(r.family, Baseline, r.n) = {r.speedup.value[1]}
            /\ Total(r.family, r.subject, r.n) = {r.speedup.value[2]}

\* The figures of a summary row are those of one n, the largest whose realizable
\* member the subject completed, and a speedup divides two totals of that n.  However
\* early the sweep was cut, the row has the tier of its family, which is only known
\* from the race's rows.
SummaryIsOfOneN == \A r \in summary : RowIsOfOneN(r)

\* A row of the race that poses as ok, or gives ltlfsynt's internal time, rests on
\* a sample of every repeat: a row of fast survivors says so.
RaceUncensored ==
  \A r \in ltlfsynt :
    /\ r.status = "ok" => \A j \in 1 .. call.repeat : ~TimedOut(call.race[j])
    /\ r.internal.some => \A j \in 1 .. call.repeat : ~TimedOut(call.race[j]) /\ Internal(call.race[j])

\* What the header of the file says of its exit codes: an invocation that ends well
\* has its measurements in the report, one that does not has printed them.
MeasurementsNotLost == phase = "done" /\ exit < 2 => report = "whole" \/ printed
=============================================================================
