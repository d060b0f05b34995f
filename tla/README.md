# LTLf synthesis with external knowledge: a TLA+ verification project

The repository (C++20 on Spot and BuDDy) decides and solves LTLf synthesis
problems in which part of the variables are *known*: their values are not chosen
by a player of the game but emitted by deterministic finite-state transducers,
the external knowledge. This directory holds TLA+ models of its components, the
TLC configurations that check them on small instances, and TLAPS proofs for
every value of the constants. Paths below are those of the repository with the
prefix `src/` that `PROJECT.json` uses.

    tlc -workers 2 -config MCOtfProduct.cfg MCOtfProduct     # one run
    tlapm OtfProduct_proofs.tla                              # the proofs of one module

## 1. The system

### 1.1 Inventory

| component | source | state | operations |
|---|---|---|---|
| Problem: partition, letters, knowledge | `variables.cpp`, `consistency.cpp`, `output_labeled_transducer.cpp`, `include/ltlf_ek/transducer.hpp` | a `VariablePartition`; one state per transducer | emitted region of a state (λ), successor on a letter (δ), agreement of a vector with a letter |
| `OtfMtdfaProduct` | `otf_mtdfa_product.cpp`, `progression.cpp`, `solve_mtdfa.cpp` | interned product states, FIFO of states to expand, product rows, the online game | expand a state, intern its successors, feed the game, stop early, pad, re-solve |
| `DfaProduct` | `dfa_product.cpp`, `product.cpp`, `detail/acceptance.cpp`, `solve_dfa.cpp`, `ltlf_to_dfa.cpp` | product graph, worklist, materialised automaton | explore, materialise, project to the free variables, split, solve and read off a controller |
| Front end of Method 1 | `ltlf_to_nfa.cpp`, `past_ltlf_to_dfa.cpp`, `mona_dfa.cpp`, `reverse_dfa_to_nfa.cpp` | three temporary files, a MONA process, the automaton under construction | encode the mirror image, run MONA, parse its table, strip its leading state, reverse |
| `NfaProduct`, `MtnfaProduct` | `nfa_product.cpp`, `nfa_to_dfa.cpp`, `mtnfa*.cpp`, `state_set_pool.cpp` | the goal NFA, product NFA, subsets | complete, product, determinise, solve |
| `ltlf-ek-synth` | `ltlf_ek_synth.cpp`, `synthesis.cpp` | none beyond one call | run one method, or check a given controller, or check the controller a method returns |
| `MtdfaProduct` | `mtdfa_product.cpp`, `emits_dfa.cpp` | MTDFAs of the goal and of the agreement with each transducer | build, conjoin, solve |
| Controller verifier | `verify_controller.cpp`, `product.cpp` | explicit product with the controller, per-state info, the Bad set, the witness walk | build, shrink, decide, extract |
| Dependency analysis (`ltlf-ek-deps`) | `detail/dependency_core.cpp`, `dependent_inputs.cpp`, `dependent_outputs.cpp` | live states, live regions, dependent and undetermined sets | backward liveness, functionality test, greedy accumulation, construction of the transducer |
| Artifacts of `ltlf-ek-deps` | `ltlf_ek_deps.cpp` | a part file, a transducer file, a temp file beside each | stage, rename in order, discard, clear the stale transducer |
| Produced-trace equivalence | `produced_trace_equivalence.cpp` | visited pairs with their predecessors, the worklist, the first pair that differs | walk the product of a transducer and a declared formula, reconstruct a witness |
| Window sources | `window_source.cpp` | none | generate one family of transducers and formulas |
| Turn order | `turn_order.cpp`, `role.cpp` | order of BDD variables | register roles, check |
| Bench runner (`ltlf-ek-bench`), one cell | `ltlf_ek_bench.cpp`, `mona_dfa.cpp` | one forked child at a time, its pipe, its process group, a MONA process | fork, poll against the deadline, kill, reap, classify, aggregate the repeats |
| Bench runner, the sweep | `ltlf_ek_bench.cpp` | rows and per-family progress, the budget's deadline, the report and the workbook | run the grid, race `ltlfsynt`, stop early, summarise, write, export |
| Benchmark collector | `bench.cpp` | stack of active scopes and timers | open and close scopes and timers |
| HPC sweep pipeline | `scripts/hpc/*`, `scripts/merge_sweep.py` | an env file, an image and a clone on the login node, array jobs, the copied parts, the report | build, sync, submit, status, fetch, merge, and run, which is all of them |
| Rebase tickets | `.github/workflows/scripts/rebase.sh` | an issue comment, a branch, a ticket issue | open, update, close |
| File formats, families, reports | `cli.cpp`, `transducer_io.cpp`, `bench_suite.cpp`, `scripts/*.py` | none that outlives a call | parse, print, tabulate |
| Spot, BuDDy, MONA | external | | translation, MTDFA algebra, game solving |

### 1.2 How they interact

Everything but the bench runner, the pipeline and the tickets is sequential:
one call of `Method::synthesize(goal, taus, vars)` runs on one thread, builds a
product of the goal's automaton with the transducers, solves a game on it and
returns a controller or "unrealizable", or throws. The five methods are meant to
be interchangeable. The verifier checks a controller against the same problem by
a construction of its own and shares only `product.cpp` with one of the methods.
`ltlf-ek-deps` computes variables whose values are determined by the history and
writes them as a transducer file and a part file, which are the inputs of
`ltlf-ek-synth`. `ltlf-ek-bench` forks a child for each run of each method,
collects its rows through a pipe and kills it on its deadline; the child of a
method that uses MONA starts a process of its own with `std::system`.
`ek-hpc.sh` runs `ltlf-ek-bench` as an array job on a cluster, one task per group
of families, and merges the parts their reports are.

### 1.3 What is hard

* **Order inside one call.** The on-the-fly construction interns, enqueues,
  pushes rows and solves a game at the same time; the row of a state must land at
  the index given when the state was *discovered*, the verdict is read from a
  product that is not finished, and the unfinished part is then padded.
* **Agreement of independent algorithms.** An explicit graph, an on-the-fly MTDFA
  and a greatest fixpoint all claim to decide the same game, and treat dead ends,
  the empty word, accepting states without edges and undefined knowledge each in
  their own way.
* **Processes.** Parent and child both call `setpgid`, the deadline races with
  the last bytes of a finished child, and a child may die in any state while a
  grandchild runs on.
* **Files.** Two files must change together, and each of the system calls that
  change them can fail; `run_mona` may leave three temporary files behind.
* **A goal read backwards.** Method 1 encodes the goal's mirror image, another program
  compiles it and prints a positional table with one state too many, and the result is
  reversed: one position or one letter off changes the goal silently.
* **A pipeline over days.** `ek-hpc.sh` may be interrupted between any two of its
  steps, keeps what it knows in one file written key by key, and acts on an image and
  on jobs that go on without it.

`PROJECT.json` lists the hazards one by one, each at its line, with the
properties that would catch it.

### 1.4 What makes each component correct

* Synthesis methods: one answer, a controller exactly when the system wins the
  game of the problem; refusal only of the inputs that are documented
  (`SynthesisContract`).
* On-the-fly product: indices agree with rows, the product is closed when solved,
  only reachable states are interned, an early verdict is the final one.
* Explicit product: exactly the reachable states, and a controller that holds.
* Front end of Method 1: the NFA accepts exactly the words that satisfy the goal, and
  the temporary files go, whatever fails.
* NFA methods: determinizing the product (or fusing the two) keeps one vector per subset and
  every letter the knowledge allows.
* `MtdfaProduct`: the two agreement automata together accept the consistent words.
* Produced-trace equivalence: the verdict decides all non-empty words, the
  counterexample is genuine and shortest, the reconstruction ends.
* Verifier: the verdict is that of the game, a rejection comes with a play that
  refutes the controller.
* Bench runner: it always returns, it leaves no MONA process behind except in the
  cases it cannot help, a finished run is never discarded, no miss is silent; a sweep
  cut short is complete for the smaller sizes, its race and its summary compare like
  with like, and its measurements are not lost.
* HPC pipeline: a report is of one sweep, a run that succeeds has reported the
  commit it was asked for, and a run ends.
* `ltlf-ek-deps`: files are whole, a part file never points at a transducer that
  is not there, success leaves a matching pair.

## 2. Modules

| module | models | state and actions |
|---|---|---|
| `SynthesisProblem` | the problem and the reference game | operators only |
| `SynthesisContract` | the promise of `Method::synthesize` | `problem`, `result`; `Answer` |
| `Interning` | the numbering of states on discovery | operators only |
| `TwaGraph` | Spot's explicit automata: acceptance as marks on edges | operators only |
| `SolveMtdfa`, `SolveDfa` | the two game solvers | operators only |
| `OtfProduct` | `BuildProduct`, the online game, `otf_solve_fused`, `solve_mtdfa` | see 2.2 |
| `ExplicitProduct` | `ProductState` and its successor, shared by the next two | operators only |
| `DfaProduct` | `build_product_symbolic`, materialisation, `solve_dfa` | see 2.3 |
| `LtlfGoal` | LTLf formulas as trees, and their meaning on finite words | operators only |
| `MirrorEncoding` | `encode_mirror`, and MONA's table for what it writes | operators only |
| `ReversalPasses` | the passes of `reverse_dfa_to_nfa` | operators only |
| `MonaDfa` | `mona_output_to_dfa`, `past_ltlf_to_dfa` | operators only |
| `GoalFrontEnd` | `ltlf_to_nfa` and all it calls | see 2.8 |
| `NfaGoal` | problems whose goal is an NFA, `StateSetPool::set_union` | operators only |
| `NfaProduct` | `build_product_nondet`, `nfa_to_dfa`, `NfaProduct::synthesize` | see 2.8 |
| `MtnfaProduct` | `mtnfa_product_to_mtdfa`, `mtnfa_to_mtdfa` | see 2.8 |
| `AgreementAutomata` | `emits_dfa` | operators only |
| `MtdfaProduct` | `MtdfaProduct::synthesize` | see 2.9 |
| `TraceEquivalence` | `produced_trace_equivalent` | see 2.10 |
| `DfaMethods` | a case of a sweep under `DfaProduct` and then `MtdfaProduct` | `RunDfa`, `RunMtdfa` |
| `Method1` | the two forms of Method 1 on one problem | `StepNfa`, `StepMtnfa` |
| `NfaMethods` | one goal: the front end, then either form of Method 1 | `RunFront`, `Return`, `RunNfa`, `RunMtnfa` |
| `Strategies` | the controllers `solve_dfa` and `solve_mtdfa` read off, `controller_as_transducer` | operators only |
| `SynthTool` | `main` of `ltlf-ek-synth` | see 2.11 |
| `VerifyController` | `build_product`, `verify_controller`, `extract_witness` | see 2.4 |
| `BenchRunner` | `RunCaseWithTimeout`, `RunCaseRepeated`, the rows of a cell | see 2.5 |
| `BenchSweep` | `main` of `ltlf-ek-bench`, with the `ltlfsynt` race | see 2.12 |
| `HpcPipeline` | `ek-hpc.sh`, `build-image.sh`, what `merge_sweep.py` refuses | see 2.13 |
| `DepsCommit` | `CommitArtifacts`, `RemoveStaleTransducer`, the order in `main` | see 2.6 |
| `DependencyCore` | `run_dependency_analysis` for both roles | see 2.7 |
| `SampleProblems` | problems for TLC | |
| `MC*` | instances for TLC | |
| `SynthesisProblem_proofs`, `OtfProduct_proofs`, `SynthTool_proofs`, `Method1_proofs`, `Deps_proofs`, `TraceEquivalence_proofs`, `Bench_proofs`, `HpcPipeline_proofs` | theorems, see 4 | |

`SynthesisProblem` is extended by all models of the methods and by the contract;
`OtfProduct`, `DfaProduct`, `NfaProduct`, `MtnfaProduct` and `MtdfaProduct` each
instantiate `SynthesisContract` with its variables `problem` and `result` and are
shown to implement it, so that they agree with the reference game and, on every
problem two of them accept, with each other. `DfaMethods` composes two methods on one
problem; as the sweep does, they run one after the other, and as they share only
their arguments no interleaving is lost. `SynthTool` adds the verifier to these two, on given
controllers and on theirs; `NfaMethods` composes the front end with both forms of Method 1.

### 2.1 The problem and the reference game

A letter assigns all variables. The model keeps its three parts: `i` over
`input_free`, `o` over `output_free`, `k` over all known variables. A BDD is
the set of letters that satisfy it; an MTBDD row is a function of the letters. The
goal is given by its *progression*: the row of a formula maps a letter to `false`,
`true`, or a residual formula with the bit "the word may stop here". This is what
the code asks Spot for, so the construction of the rows is not modelled; the
properties hold for every progression, and TLC runs a family of them.

The reference game is stated independently of all the algorithms, as sets closed
under moves: the environment picks `i`, the system picks the rest among the
letters all transducers agree on, and wins by stopping on an accepting letter. A
play of length 0 does not count. Where the environment has a choice that no
agreeing letter has, the system loses.

Two preconditions are part of the problems, as the code's are checked before the
methods run (`validate_product_inputs`, `require_turn_order_aps`): all known
variables are emitted by some transducer, and the environment's variables are
above the system's in the BDD order. The first is assumed only where a controller is
checked, and only in the form in which that needs it: for each `(i, o)` the knowledge
leaves at most one `k` (`KnowledgeAnswersEachChoice`), and with a given controller there is
one letter for each `i` (`ControllersAnswerOnce`; the buckets keep the first).

### 2.2 `OtfProduct`

`stateIndex`, `pending` and `rows` are `state_index`, `pending` and `out->states`;
`decided` is what the game says of index 0 after a row has been fed. `Expand` is
one iteration of the loop: mask the progression row by the agreeing letters,
relabel every leaf, intern the new keys, push the row, feed the game. The order
in which one row interns its new keys depends on the BDD order; the model allows
all. `FinishBuild` counts and pads. `ThrowNondeterministic` is the overlap check,
which the code runs only when some letter is emitted at that vector. `SolveFused`
and `SolveBuilt` are the two callers; `online` picks one. The backpropagation of
Spot's game is external: a root is won (lost) if it is in the least set closed
under the propagation, whatever order Spot propagates in.

### 2.3 `DfaProduct`

`nodes`, `worklist` and `product` are the product graph, the worklist and the Spot
automaton. `Explore` is one iteration: group the agreeing letters by their
successor, add the new states. `Materialize` puts the mark of an accepting state
on its edges, and gives an accepting state without edges a self-loop on `false`
(`ensure_acceptance_readable`). `Solve` projects the guards to the free
variables, splits on the inputs, completes, and solves.

### 2.4 `VerifyController`

The controller is one more transducer. `Explore` is one iteration of
`build_product`, `BuildInfo` the bucketing by `i`, `Shrink` one round of the
greatest fixpoint, `Decide` the verdict at the virtual start, `Follow`
and `WitnessDeadEnd` the steps of `extract_witness` (the code
follows the least bad choice; the model any of them).

### 2.5 `BenchRunner`

Three processes: the parent (`parent`, `verdict`, `buf`), the child (`child`,
`status`, `rows`, `sent`) and MONA processes (`mona`, `led`: of which calls one is
alive, and of which it was started inside the child's group), with the pipe between
parent and child. `setpgid` may fail or come late on either side, since the
code looks at neither result. The payload takes `Chunks` writes through a pipe
that holds one; so the child can be blocked in the middle, and a write of it can fail, after
which it exits with 1 (`WriteFails`). A child may crash anywhere. `Kill` is `kill(-pid)` followed by `kill(pid)`. `Outcome` is the
classification after `waitpid`, `CellMarkers` the aggregation over the repeats.

Abstracted: the fork of MONA inside `std::system` is one step; SIGKILL takes
effect at once; process ids are not reused; values, minima and medians are
reduced to the kinds of rows; a clean skip may also happen after MONA ran.

### 2.6 `DepsCommit`

A file is the invocation that wrote it, the dependent set it declares, and
whether it is whole. `Stage` opens, writes, closes and checks one temp file,
`Install` is one rename, `RemoveStaleTransducer` the clearing of a leftover
transducer. Every call can fail (`OpenFails`, the late failure inside `Stage`,
`InstallFails`, `RemoveFails`), and the process can be killed between any two.
Invocations with the same paths follow one another; the flags are the same for
all of them.

### 2.7 `DependencyCore`

One call of the analysis: refuse, seed the backward search with the accepting
states, propagate until the queue is empty (in any order), throw when the initial
state is not live, compute the regions, try the variables of the role in
lexicographic order against the accumulated set, repartition, emit. The automaton is
given (its translation is Spot's): complete, deterministic, and perhaps with edges on
`bddfalse`, which do occur. A variable is its rank, a letter the set of variables that hold.

What the code never computes is stated beside it: `Extendable` (a state from which
some word leads to acceptance), `Determined` (two continuations that look the same to the
role and keep acceptance in reach agree on the dependent variables), and the game
`Wins` with and without the transducer.

### 2.8 Method 1: `GoalFrontEnd`, `NfaProduct`, `MtnfaProduct`

`GoalFrontEnd` is one call of `ltlf_to_nfa`. `Encode` refuses or encodes the goal;
`CreateSource`, `CreateOut`, `CreateErr`, `RunMona`, `ReadOutput` are `run_mona`, each of
which can fail, and `Throw` removes the files whose destructors then run; `Parse` and
`Strip` are `mona_output_to_dfa` and `StripMonaPreludeState` with their refusals;
`TurnEdges`, `Ensure`, `DropUnreachable` and `DropDead` are the four passes of
`reverse_dfa_to_nfa`, of which the purges are Spot's. Nothing enters the initial state of a
DFA that is never returned to, so the accepting state may have no edge; `Ensure` is why it
then survives the purge. `Kill` may come at any moment.

A goal is a tree; `Formulas` has the goals and their subformulas, and `Depth` how deep each is
(`FormulasAreTrees`), so that what is defined along a tree is a recursive function on `Formulas`:
`HoldsAt`, the meaning of goals, and `Trans`, the clause `encode_mirror` writes, as the set of
positions of the string at which it holds. `Future` and `Past` are their steps, one case to an
operator: strict and weak bounds and quantifiers are those of the text. MONA is external: the constant
`MonaAutomaton` gives what it builds for each goal that is encoded, and `MonaCompiles` assumes that
this is a complete deterministic automaton of the clause's language. `MonaTable` is the table it
prints of that automaton, with the leading state MONA adds, and `MonaOutputs` is what
may be found in the file after exit 0: the table, the table with its variables in
another order or with a leading state of another shape, or nothing. That MONA exits with 0
and leaves a table cut off in the middle is assumed not to happen: the parser
checks the header and the ranges of the states, not the number of the lines.

`Return` hands the NFA to the method that asked for it.
`NfaGoal` reads such an NFA as a problem of 2.1: its residual goals are sets of
NFA states. `NfaProduct` completes the NFA (`Complete`), builds the
nondeterministic product (`Explore`, `ThrowNondeterministic`), materialises and
determinises it (`Materialize`, `Determinize`, `FinishDeterminize`: `interned` is
`nfa_to_dfa`'s map of subsets) and solves. `MtnfaProduct` fuses product and
determinization: a key is a set of goal states with one state per transducer,
`Expand` is one iteration of the loop. The pool's set-terminals are the sets
they name, so the reference counts of the pool are not modelled. Without
transducers the same module is `mtnfa_to_mtdfa`, which the run includes.

### 2.9 `MtdfaProduct`

`Expand` is one iteration of `emits_dfa`, for `t_in` first and then for `t_out`
(`Current`); `Lift` ends one of the two automata, `LiftRefused` is
`twadfa_to_mtdfa` on overlapping edges, after their narrowing to the emitted
letters. `Multiply` is Spot's product of the goal with both, over all pairs instead of the
reachable ones, which the least fixpoint of `Winning` does not tell apart. The
minimization that the method offers is Spot's and left out.

### 2.10 `TraceEquivalence`

`Expand` is one iteration of the walk. The blocks of letters that lead to one pair
are one block here; the order in which one pair's successors are tried follows the
automata's edges in the code and is any order in the model. `parent` is the map
of predecessors, with `NoPair` for `std::nullopt`; `FoundDivergent` and
`Reconstruct` are the loop over them, in which `bdd_satone` picks some letter of the
block. A pair that consists of the two initial states is visited only
when a word leads back to it.

### 2.11 `SynthTool`, `Strategies`

One invocation: `Synthesize` runs a method, `CheckGiven` is `--model-check` with a
`--controller` file, which runs no method; `SelfCheckDfa` and `SelfCheckMtdfa` are
`--model-check` alone, in which the controller the method returned is made a
transducer (`ControllerAsTransducer`) and given to the verifier (`Verify`). That Spot wins a
game with a strategy that comes closer to acceptance in every step is how the external
solvers are modelled (`DfaRounds`, `MtdfaRounds`, `Nearer`): any strategy of theirs wins, and
which of the winning ones it is makes no difference to what the code does with it.

### 2.12 `BenchSweep`

The loops of `main` with their budget. `at` is the position of the three nested loops, over n,
the polarity and the families (`FirstCase`, `Later`), and `s` that of the loop over the
subjects; `SkipCase` and `SkipSubject` pass over what the command line did not select or a
family is too small for. `TakeCase`, `RunSubject`, then the race against
`ltlfsynt` for a comparable family (`StartRace`, `RaceRepeat`, `EndRace`) or one of the rows
that stand for no race. `BudgetEnds` may come at any moment; the deadline is read only where
`StopEarly` is enabled. What a subject and a repeat of the race do is given with the call
(`Calls`), for each polarity, so that a cell is one step; `instantiate`, which throws below a
family's floor, is only called from it on. `Summarise` builds the summary from `progress`;
`NoDirectory`, `OpenFails`, `Write` and `Export` are the ways the two files can come out.
Rows are sets of records; names, times and sizes are small values.

### 2.13 `HpcPipeline`

`proc` is the subcommand that runs: the stages it still has and where it is in the first.
`Begin` is the operator's next subcommand, `Stop` an interruption or a failing call between
any two steps; `Return` ends a stage. Each stage has an action for the case that it finds
itself done (`BuildSkips`, `SubmitSkips`, `StatusKnown`, `FetchSkips`, `MergeSkips`) and one
for each of its effects, each `put` by itself. On the cluster `Checkout`, `BuildInstalls` and
`BuildFails` are `build-image.sh`, which goes on when its caller is gone, in a clone that all
builds share; `TaskStep` is SLURM. A task runs the image that is there when it starts. `Copies`
says what a copy of its part can be: a task that started may have written none of it, half or
all, and one that completed half or all, since the write is not checked; and a copy may be cut
off (`FetchCut`). `Asks` is one look of `status`: within a run it is repeated while tasks are
pending or running, typed by itself it exits with 2 then (`StatusPending`).

Abstracted: `sync` (where no script was copied, `sbatch` refuses) and the choice of node, date and
report name; all jobs end on one day, so their reports have one name; a part is the commit
that ran it, or cut. A second build of a commit takes the place of a first one that nobody
waits for: `disturbed` holds already then, and the two would install one commit or, through the
clone, what either may install here.

Of the jobs `Followed` are the recorded one and the one about to be; nobody ever asks for
another, whose tasks are therefore forgotten (`RecordJob`).

`disturbed` records that a build was interrupted before it was recorded, that an image
was replaced under pending tasks, or that a submission was interrupted between the two
records of its job. After any of these a later run may report another commit than it was
asked for, as section 5 tells; `RunReportsItsCommit` excludes them. Every other interruption
is within the property, that between `sbatch` and the first record included; and
`ReportIsOneSweep` holds in all cases, since the parts name their commit. A part cut off in its
copy makes `merge` refuse for good, until someone deletes it.

## 3. Runs

| run | checks | instance | shows |
|---|---|---|---|
| `otf` | `IndexIsDequeueOrder`, `InternedReachable`, `EarlyVerdictSound`, `WinSurvivesPadding`, `ImplementsContract` | 1500 problems with 2 transducers, 4 with 5; online and not | the construction keeps its bookkeeping in all interning orders, and both ways of solving answer as the reference game does |
| `synth_tool` | `NodesAreReachable`, `ConsEmerges`, `SelfCheckIsSafe`, `VerdictCorrect`, `ImplementsContract`, `MtdfaImplementsContract` | 1800 problems, words up to length 2; 288 of them also with `--model-check`, with 6 given controllers each | the explicit method explores exactly what is reachable, the consistency filter emerges from the two agreement automata, both answer as the reference game does, what they synthesize is SAFE, and the verifier's verdicts and witnesses are right |
| `nfa_methods` | `GoalLanguage`, `OnlyKillsLeaveFiles`, `AgreeingLettersKept`, `KeysAreReachable`, `ImplementsContract`, `MtnfaImplementsContract` | 27 goals over 2 or 3 propositions, words up to length 4; those with an NFA of at most 3 states with every kind of knowledge and none | the front end keeps the goal's language and its files, product before determinization loses no allowed letter, the fused construction prunes as the explicit one does, both answer as the reference game does |
| `equivalence` | `VerdictComplete`, `WitnessShortest`, `Answers` | 6 transducers against 100 small DFAs and against their own exact or cut languages | verdict, witness and termination of the walk |
| `bench` | `OnlyCrashesLeaveMona`, `ExitZeroIsComplete`, `EveryMissFlagged`, `TimeoutMeansRunning`, `Returns` | 3 repeats, 2 chunks | the races of parent, child and MONA |
| `sweep` | `PartialIsBroad`, `RaceHasItsSubjects`, `SummaryIsOfOneN`, `RaceUncensored` | 2 families, 3 subjects, 2 sizes, 2 repeats; 25 combinations of results, 98 of races, 8 command lines | however the budget cuts the sweep and whatever the cells and repeats do, the report compares like with like |
| `deps` | `TargetsWhole`, `PartIsCovered`, `SuccessIsConsistent` | 3 dependent sets, 3 invocations | failures and kills between any two file operations |
| `dependencies` | `LiveIsExtendable`, `DependentIsDetermined`, `DependentIsMaximal`, `TransducerCommits`, `RealizabilityPreserved` | 972 automata of 3 states over 3 variables in both roles, 5 other calls | the search is exact, the greedy result determined and maximal, and the transducer changes no verdict |
| `hpc` | `ReportIsOneSweep`, `RunReportsItsCommit`, `RunEnds` | 2 commits, 2 tasks, 2 jobs, 3 subcommands | interruptions, failing tasks, cut copies and builds that overlap; every subcommand ends |
| `bench_report` | `MeasurementsNotLost` | the sweep's instance | finding 1 |
| `deps_staging` | `NoStagingFileSurvives` | 2 invocations | finding 2 |
| `deps_lone` | `LoneTransducerIsInert` | 2 invocations | finding 3 |

The runs spend their properties on behaviour; types are part of the
inductive invariants in the modules of proofs. Every
property of a passing run has a mutant in `PROJECT.json`, a plausible fault of the code that the
run then reports; the faulty bodies stand in the modules, under the name of the definition
with a suffix after an underscore.

### 3.1 Bounds

*Problems.* Two values for each of `i`, `o`, `k` (8 letters), three formulas, two of
which share a row so that states are fused; the row of the initial formula takes
every pair of leaves for one input and three pairs for the other, which covers
wins, losses and undetermined states at the first row, cycles and immediate
stops. The transducers cover a delay of one letter, an undefined λ, an undefined
δ, overlapping guards that are reached and that are not reached, overlapping
guards where nothing is emitted (where one method must not throw and the other
does), and a transducer that reacts to the output. One family has
more transducers than `MaxTaus`.

*Goals.* Every operator of the encoder occurs, alone and under another one. The
instance of `MonaAutomaton` is the minimal automaton, built from words: `RepLength` (3) letters
reach every state of these goals and `TestLength` (1) letter tells two of them apart, which
`MonaCompiles` and `GoalLanguage` would report if it were not so, as they compare words of up to 4
letters. An NFA of at most `MaxNfa` (3) states is then used with all kinds of knowledge; it
has subsets with and without the accepting state and of more than one state, and the game is
won, lost and lost by knowledge. Goals with a larger one only
pass the front end. `MaskedOverlap` overlaps only where
nothing is emitted, where the methods may differ in refusing.

*Controllers.* Two states, in which `o` is constant, follows `i`, or is missing for one
`i`: controllers that win at once, later and never, and that leave the environment
unanswered at the start or after one letter. The problems that are model-checked are those whose
first row is one of two leaves for `i0` (`MCModelChecked`), which include goals that loop.

*Equivalence.* Three states of the formula's automaton let it return to its initial
state after one letter and after two; a word of two letters is the shortest
that leads through a pair that was found twice.

*Bench.* Three repeats are what it takes for a cell to hold a success, a timeout
and a failure at once; two chunks are what it takes for a child to be blocked in
the middle of its payload and for a payload to be cut.

*Sweep.* Two sizes and two families of which one starts at the second size and is not
raced: the least for a cut that leaves a family without rows, between the members of a pair
and between two subjects. Two repeats let the race's last one differ from its first in
exit code, word and log.

*HPC.* Two tasks are what it takes for parts to differ, two jobs for a stale record, two
commits for a wrong one; three subcommands for one that is interrupted, one that acts on
what it left, and one that trusts what it finds.

*Deps.* Three invocations are what it takes for a leftover of one to be seen by the
next-but-one; two different non-empty dependent sets let two part files disagree.

*Dependencies.* Three variables are what it takes for two that are each dependent and
not together, beside one that is observed; three states for a live state next to a
dead one and an accepting one. The proofs remove both bounds.

All runs say `CHECK_DEADLOCK FALSE`: every modelled call returns and then the
behaviour stops, and the operator of the pipeline types no more than `MaxCommands` subcommands.

### 3.2 Fairness

`TraceEquivalence` assumes weak fairness of `Next`: one thread that
runs until it returns. `BenchRunner` assumes weak fairness of
the parent's own moves (`ParentMoves`; not of the failures of its calls, so that what ends a
wait is the end of the pipe or the deadline), of the clock, and of the exit of a child that
has already closed its pipe (only `_exit` follows). Nothing else is assumed of the child: the
case may hang, MONA may hang, a child may stop in the middle of its payload. `HpcPipeline` assumes
weak fairness of the cluster (a build ends, a task that was submitted starts and ends, by a
failure or SLURM's time limit if not by itself), of the script's steps, and of its dying
where a call is refused whatever is tried (`Refused`); not of the operator. No other module
claims liveness: each is one terminating loop over a finite set.

## 4. Proofs

TLAPS checks the following for all values of the constants. A module of proofs extends the
modules it is about; `SynthesisProblem_proofs` holds the lemmas that several of them need.

### 4.1 The synthesis methods

**`SynthesisProblem_proofs`** — from `LettersFinite` and `ProblemsWellFormed` (finitely many
letters, well-typed problems). Progressions lead to residual formulas and `Delta` to
vectors; `PositionMeans` says what a move of the reference game is. Induction is over
*sets* of naturals (`SetInduction`, from the least element), as the library's
theorems take a predicate. From it: a monotone step on a finite set, iterated as often as the
set has members, gives its least fixpoint (`LeastFixpoint`); both solvers compute one, and
`SystemWins` is one (`SystemWinsMeans`).

**`OtfProduct_proofs`** — in two parts.

* `InductiveInvariant`: `IInv` joins `TypeOK` and `IndexIsDequeueOrder` with: the keys that
  are interned come from residual formulas and vectors reached by agreeing words
  (`StoredKeys`); every terminal of a row is an index that has been given
  (`TargetsInterned`), which is what makes the product closed once it is padded and
  which `RootsExist` does not imply, as that speaks of finished products only; and a
  recorded win is one of the rows. From it `TypeCorrect`, `DequeueOrder`,
  `OnlyReachableInterned`, `PaddingKeepsWin`, and `ProductIsClosed`: the product that is
  solved is complete. The heart of `DequeueOrder` is that interning appends.
* `GameOfTheRows`: every row is the row of the key with its index, index 0 is the initial
  position's, the verdict on record is current, and once the loop has ended the
  verdict, or the rows, tell who wins. Two simulations carry it: a set of roots that is
  closed under the propagation of wins maps to positions from which the system forces
  acceptance, and the positions not known to be lost are a place the environment need not
  leave. So `EarlyVerdictsHold` (a verdict given on *some* of the rows is final),
  and `OtfImplementsContract`: whatever the interning order, online or not, the method
  answers as the reference game does.

**`SynthTool_proofs`** — about every behaviour of the tool (`ToolSpec`), in four parts.

* *The explicit method.* `AttractorIsLeast` (what `solve_dfa` computes), `DfaInvariant`
  (nodes are reached, each one expanded has its groups and successors, and nothing else is on
  the worklist), `MaterializedMeans` (with the marks on edges and the `false` self-loop the
  arena still says which states accept), `ArenaIsGame`; hence `ProductIsReachable` and
  `DfaImplementsContract`. `ToolKeepsDfaProduct` has both for the tool, whose other
  steps touch none of the method's state.
* *The verifier.* `ToolInvariant`: the graph is closed, the buckets hold the one letter per
  input, the shrinking set contains every trap, and the witness is a play of agreeing
  letters through states of `bad`. `ToolVerdict` is `VerdictCorrect`: no trap wins
  (`NoTrapWins`), and outside the greatest trap the system is forced to win
  (`TrapLoses`), so a controller is accepted exactly when it makes the system win, and
  the witness of a rejection never accepts and gets stuck or comes back. It uses
  `ControllersAnswerOnce`, which `build_verifier_graph` takes for granted
  (`src/src/verify_controller.cpp:64`: the first letter of a bucket is kept, since there is at most
  one).
* *Method 3.* `MtdfaInvariant`: a search in progress has expanded what is reached and
  not waiting, a finished one is `AgreementAutomaton` of its transducer, and the rows are the
  product of them all. In it a letter leads on exactly when λ allows it and δ is defined
  (`LiftedMeans`, where the absence of overlap makes the `CHOOSE` of an edge the code's
  first one), a leaf is the residual goal with the vector δ leads to (`ProductCellMeans`),
  and the least fixpoint of `solve_mtdfa` is the reference game (`ProductIsGame`). Hence
  `MtdfaMeetsContract`: `MtdfaImplementsContract`, also when the lift refuses, since
  edges that overlap after narrowing overlap before. `ToolConsEmerges` carries the same
  from letters to words: reading a word in all the agreement automata together
  leads, as long as it is consistent with every transducer, to the states the transducers are in, and is
  refused from the first letter that is not (`Together`, by induction over its length;
  `MaxWordIsNatural`). The rest uses
  `MtdfaProblems`: there is at least one transducer (the code passes both always), a goal has
  finitely many residuals, and the name `Fulfilled` is none of theirs.
* *The self-check.* `SelfChecksPass` is `SelfCheckIsSafe`. A controller may allow several outputs
  for one input, so the verifier's invariant for given controllers (one letter per input) does
  not apply; the argument is a rank. A state's rank is the round of the game in which it was
  won (`NearerMeans`), and the strategy moves from a round to an earlier one, whatever the
  known part of the letter is (`DfaControllerGuides`, `MtdfaControllerGuides`).
  `controller_as_transducer` keeps that (`ControllerMeans`, `MachineGuides`): in the product with
  the controller every choice of the environment has an answer, and *every* answer accepts or
  has a lower rank (`Guided`). Of the states of a guided play that the verifier takes for bad the
  nearest to acceptance would have a nearer one, so there is none (`GuidedSafe`). It cannot throw
  either: a method with a controller has looked at every state the verifier reaches and found no
  two edges for one letter (`Orderly`, `MachineIsOrderly`; after acceptance too, where the
  verifier goes on and the strategy does not). It uses `KnowledgeAnswersEachChoice`: both
  players' choices leave one value of the known variables at most, as `parse_transducer`
  refuses any other λ (`src/src/transducer_io.cpp:198`). Without it the machine, which
  reads `(i, o)` only, could not commit to a known part.

As both methods implement one contract, they agree wherever neither throws.

**`Method1_proofs`** — about `FormsSpec`, every interleaving of the two forms of Method 1 on one
problem, from `GoalsAreNfas` (the goal's NFA is finite and its initial state is not accepting) and
`SinkIsNew` (the sink `spot::complete_here` adds is no state of it). The problem's residual goals
are sets of NFA states, so a position of the reference game is such a set with one state per
transducer.

* *The fused form.* `FusedInvariant`: each key is a position that agreeing words reach
  and each row is that position's, every successor has a key, and a throw has met two entries
  of one transducer that overlap. Masking before relabelling or after it is the same, because
  the mask is the union of the letters (`FusedRow`). Hence `FusedIsReachable` (`KeysAreReachable`)
  and `FusedMeetsContract`, since the rows are the reference game's.
* *The explicit form.* `NfaInvariant` says of each stage what its automaton is: completed, it
  has the same successors, and the sink besides (`CompletedMeans`); the product has the pairs
  that words lead to, with the letters that agree in the guards (`NondetGuardsMean`,
  `GraphIsProduct`); the subsets reached in `k` rounds are the positions reached by
  `k` letters, with the sinks of the goal taken away (`SubsetRound`, `SubsetStateMeans`); and
  determinized it is the game (`DeterminizedIsGame`). `ThrowMeansOverlap` is the converse of
  the exception. Hence `LettersAreKept` (`AgreeingLettersKept`) and `NfaMeetsContract`.

So determinizing the product, and multiplying determinized sets, answer alike on every problem.

Its last part is about `CaseSpec`, a run of the front end and then of a method (`CaseIsForms`: it is
a behaviour of `FormsSpec`, so all of the above holds of it), for all formulas and any names. It uses
`FormulasAreTrees` (operands are less deep, and as many as the operator has); `GoalsAreNamed`: the
declared variables are the goal's propositions, and every valuation of these is some letter's (the
first half is what `SelectSeq` computes, whose definition in the library is recursive); and
`MonaCompiles`: MONA's automaton is deterministic and complete and accepts, of the words of up to
`MaxWord` valuations, those the formula it was given describes.

* `FrontEndKeeps`: `FrontInv` says what each step has in hand. What MONA left is one of
  `MonaOutputs`; past the parser and the check of the leading state it can only be MONA's own table
  (`OnlyTheTable`, used by `StripGivesGoalDfa`): a table with its variables in another order is
  another table unless the order is the same, and without its leading state, or with one that reads
  something, the table is refused. Afterwards the automaton is what the passes so far make of
  it. Hence `FilesAreRemoved` (`OnlyKillsLeaveFiles`).
* `LanguageHolds` (`GoalLanguage`), in four steps. *The mirror*: a recursion over trees that
  only looks at operands has a solution (`TreeRecursion`, by induction over the depth), so that
  `HoldsAt` and `Trans` obey their equations (`HoldsIsDefined`, `ClausesAreDefined`); operator by
  operator, the clause holds at the mirrored position (`StepsMirror`, `UntilMirrors` and the like,
  `ClauseMirrors`); so the encoded formula says of the reversed word what the goal says of the word
  (`MirrorIsEncoded`). *The table*: parsed, its guards are the letters that read as the
  valuations (`GuardsMean`), a line of "X" stands for all (`LinesOfState`), and without the leading
  state it is MONA's automaton (`TableIsDfa`, `StrippedReads`). *The reversal*: `ReadsBackwards` is
  what `EnsureInit`, the two purges and Spot's reading of acceptance off the edges preserve
  (`ReversedReads`, `UnreachableIsIdle`, `NothingIsDead`). *The runs*: the sets of states the NFA
  goes through are those from which MONA's automaton, reading the word from its end, arrives in its
  accepting states (`RunsMeet`). The empty word satisfies no goal, and the fresh initial state
  accepts nothing.

### 4.2 The dependency tool

**`Deps_proofs`**, its second part — from `DepsAssumption`:

* `CommitInvariant`: besides the three properties, what is known in each phase:
  the staged files below `next` are whole and of this invocation, the
  part file is installed only after the transducer, and while the stale
  transducer is being cleared the part file on disk is the one just installed.
* `CommitTypeCorrect`, `NothingTruncated`, `KeystoneLast`, `SuccessLeavesAPair`.

**`Deps_proofs`**, its first part — from `CallsWellFormed` (the automaton is complete and
deterministic, the four groups of the partition are disjoint):

* `InductiveInvariant`: beside types and control, during the search the live states
  are a part of `Extendable` closed backwards except at the queue; afterwards they are
  `Extendable` and the regions are those of that set; the accumulated set passes the
  test, and every variable rejected so far fails it *against the set as it is now*.
* `SearchIsExact`: the states that are not live are closed under all letters.
* `AccumulatedIsDetermined`, `NothingMissed`: the cofactor test of the code, on regions
  projected for `t_in`, is the criterion on the automaton (`TestIsCriterion`), and a
  rejection is monotone in the set (`RejectedStaysRejected`), which is why one
  pass is enough.
* `EmittedCommits`: an observation cannot be answered both inside the region and by the
  default.
* `VerdictsPreserved`: for `t_out` a letter the transducer forbids leaves the states from
  which the system can win; for `t_in` it leaves the language of the negated goal, so the
  system has won, and λ does not see the outputs of its step.

### 4.3 Produced-trace equivalence

**`TraceEquivalence_proofs`** — from `LettersFinite` and `QuestionsWellFormed` (transducer and
formula have finitely many states, the sink is not one of the transducer's).

* `WalkInvariant`: the walk is breadth-first. Every visited pair has a depth, its predecessor has
  been visited and is one block of letters nearer to the start (`Pointers`); the worklist
  is in the order of the depths and holds two of them at most, whatever does not wait has had
  all its successors visited, and no visited pair differs in finality (`Walked`). Once one does,
  no shorter word leads to one that does (`NoneShorter`), and the witness
  spells, from its end, the way to it (`Spelt`).
* `VerdictDecides` is `VerdictComplete`: a walk that ends has visited the pairs that non-empty
  words lead to and nothing else (`ReachableIsLeast`: the model computes that set as a fixpoint).
  The initial pair is not visited by being initial, only if a word leads back to it.
* `WitnessTellsApart` is `WitnessShortest`: a run of the product on a word is the pair of the
  runs of its sides (`ProducesMeans`, `SatisfiesMeans`), so transducer and formula differ
  on the witness, and on no shorter word that is not empty.

### 4.4 The benchmark and the pipeline

**`Bench_proofs`**, its first part — from `RunnerAssumption` (at least one repeat and one chunk):

* `RunnerInvariant`: the parent has a child between fork and reaping only and knows why
  it stopped polling (`RunnerPhases`); a wait status belongs to a child that has ended
  (`ChildEnded`); every
  chunk written is in the pipe or in the parent's buffer (`PayloadAccounted`);
  and the child waits for the MONA of its own group (`MonaIsWaitedFor`). The last is needed for
  `NoMonaForgotten`: without it a child could exit, or a kill find its group gone, while its
  MONA runs.
* `RunnerTypeCorrect`, `NoMonaForgotten`, `NothingTruncated`, `NoSilentMiss`, and the action property
  `NoFinishedRunTimesOut`.

**`Bench_proofs`**, its second part — from `RegistriesAreNamed` (a name occurs once in a registry),
`NumbersAreWhole` (the command line's numbers are integers, floors natural) and
`ResultsAreMeasured` (whoever was timed took some time, no key is called `wall_total`, the
baseline measures times), for any sizes:

* `InductiveInvariant`: the subjects have run on exactly the wanted cases before the
  position of the loops (`Covered`, `NothingAhead`), a sweep that stopped left
  something out (`StoppedShort`), and the accumulators of a race say what its repeats
  so far were (`RaceSoFar`). The positions are ordered as the three loops are nested
  (`Precedes`), and no wanted case lies between a position and the next.
* `TypeCorrect`, `PartialSweepIsBroad`, `RaceComparable`, `NotCensored`.
* `SummaryInvariant`, on top of it: the rows are those of the cells that ran
  (`RowsOfCells`), a subject's progress on a family has the figures of its largest
  completed realizable case (`ProgressIsLargest`), and each case behind the loops has its row
  of the race (`RacedBehind`). Hence `SummaryComparable`, which is `SummaryIsOfOneN`: the
  unrealizable member of a pair comes first, so a completed case has a race behind it
  and the tier is known (`TierIsKnown`); and the total of a speedup is the one
  `wall_total` row of its cell (`TotalMeans`), which needs `ResultsAreMeasured`: a cell
  timed at 0 ns would have the row and still count as untimed in the speedup.

**`HpcPipeline_proofs`** — from `BoundsArePositive` and `CommitsAreHashes` (a commit is none of
the words that stand for its absence):

* `InductiveInvariant`: a subcommand's place belongs to its stage (`Placed`); a whole part is
  of the commit its task ran, in the copies and in the report (`PartsAreResults`); as
  long as nothing was lost sight of, the image is the recorded one and the tasks of the
  last job run it (`Undisturbed`); and what the stages a run is through have established
  (`RunSoFar`). The commit of a task that has started never changes, so that a part once
  copied whole stays right whatever is interrupted.
* `TypeCorrect`, `NeverMixed`, `RunKeepsItsPromise`; the last for every interruption but those
  that `disturbed` records (2.13).

### 4.5 Only model-checked

* Liveness (`Answers`, `Returns`, `RunEnds`): outside the prover's reach. Every invariant and
  every action property of the runs that pass is a theorem.
* What `MonaCompiles` assumes of MONA, and `GoalsAreNamed` of the library's `SelectSeq`: TLC
  evaluates both for the goals of `nfa_methods`.

## 5. Findings

1. `bench_report`: `main` creates the directory of the report only after the sweep, outside
   the branch that prints the report (`src/src/ltlf_ek_bench.cpp:1330`); when that
   throws, every measurement is gone. The write of the report is not checked either
   (line 1435): a full disk leaves a truncated report and exit code 0. The header of the file
   (line 14) says that the measurements are "not silently lost".
2. `deps_staging`: when the stream fails at its final flush, the temp file that
   failed is not yet among those `CommitArtifacts` discards
   (`src/src/ltlf_ek_deps.cpp:283`), so a truncated `.ltlf-ek-deps.tmp` stays, while
   `src/tests/ltlf_ek_deps_test.cpp:404` says that no staging file may survive.
3. `deps_lone`: when the second rename fails, the new transducer stands beside an
   older part file that points at it (`src/src/ltlf_ek_deps.cpp:292`); the comment at
   line 257 calls a lone transducer inert, which is true only of a first invocation.

Seen on the way, with no run of their own:

* `ek-hpc.sh build` takes the recorded commit and the presence of the image file for proof
  (`src/scripts/hpc/ek-hpc.sh:68`). A build that was interrupted goes on at the login node, and in
  the one clone all builds share its checkout can come under a later build, which installs that
  commit and records its own. The next build says that the image is already built, and so does
  the wizard (`src/scripts/hpc/wizard.sh:224`), whose banner says that it may be stopped any time.
* `EK_JOB` and `EK_JOB_IMAGE` are two writes (line 117). Interrupted between them, a new job stays
  beside the image of the old one; once the old commit is built again, `submit` says
  that this job is already submitted for it, and a run waits for that job and reports it.
* A cell whose repeats were all skipped has `successes = repeat`, although the comment at
  `src/src/ltlf_ek_bench.cpp:1074` says that all its counters are 0 (it leaves no row either way).

## 6. Plan

Of the proofs nothing is left but liveness. What would say more is a model of MONA's own
construction, of which `MonaCompiles` would be a theorem.

### Not modelled

* `bench_suite.cpp`, `window_source.cpp`: generators of formulas and transducers, which are
  data of the modelled methods.
* `transducer_io.cpp`, the parsing of flags and partition files, the JSON and the workbook:
  text, with no state between calls. Two invocations of `ltlf-ek-deps` at once on the same
  paths: the tool promises nothing about them.
* `bench.cpp`, `turn_order.cpp`: a stack of spans under one scope, and the order of variables
  on a shared dictionary, which the modelled products take for granted as
  `require_turn_order_aps` enforces it.
* The reports' scripts, the paper's, and the workflow that opens rebase tickets: outside the
  program.
* The inside of Spot, BuDDy, MONA, SLURM and Apptainer.
