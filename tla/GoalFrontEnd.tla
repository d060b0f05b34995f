------------------------------ MODULE GoalFrontEnd ------------------------------
(***************************************************************************)
(* ltlf_to_nfa, the front end of Method 1: encode the goal's mirror image,    *)
(* let MONA compile it (three temporary files, one external process), parse   *)
(* the table it prints, drop its leading state, and reverse the automaton.   *)
(* Any step may throw; the process may be killed at any moment.              *)
(***************************************************************************)
EXTENDS MonaDfa

CONSTANTS MonaAutomaton,  \* what MONA builds for each goal that is encoded: an automaton
          MaxWord         \* the longest word the properties look at

VARIABLES
  arg,     \* the argument
  mona,    \* the automaton MONA would build for it
  phase,   \* the next step: "encode", "source", "out", "err", "mona", "read", "parse",
           \* "strip", "reverse", "ensure", "unreachable", "dead"; then "done",
           \* "threw" or "killed"
  files,   \* the temporary files of run_mona that exist
  printed, \* what MONA left in the file for its output
  past,    \* the DFA of the mirror image
  built    \* the NFA

vars == <<arg, mona, phase, files, printed, past, built>>

-----------------------------------------------------------------------------
NoTable == [lines |-> {}]
NoAutomaton == [states |-> {}]

\* What MONA may leave on exit 0: its table; the table with its variables in an
\* order of its own, or with a leading state that reads something; nothing.
Unlike(t) == {[t EXCEPT !.lines = {x \in @ : x.src # Prelude} \cup {[x EXCEPT !.bits[1] = "1"] : x \in {y \in @ : y.src = Prelude}}],
              [t EXCEPT !.lines = {x \in @ : x.src # Prelude}]}
MonaOutputs(m, order) ==
  {NoTable, MonaTable(m, order)}
    \cup (IF Len(order) < 2 THEN {} ELSE {MonaTable(m, Reverse(order))})
    \cup (IF order = <<>> THEN {} ELSE Unlike(MonaTable(m, order)))

-----------------------------------------------------------------------------
Init ==
  /\ arg \in Goals
  /\ mona = IF Encodable(arg) THEN MonaAutomaton[arg] ELSE NoAutomaton
  /\ phase = "encode"
  /\ files = {} /\ printed = NoTable /\ past = <<>> /\ built = <<>>

\* An exception leaves run_mona through the destructors of the files it has.  (A
\* name with an underscore is a faulty variant of the definition that follows it.)
Throw_NoDestructors ==
  /\ phase' = "threw"
  /\ UNCHANGED <<arg, mona, files, printed, past, built>>
Throw ==
  /\ phase' = "threw" /\ files' = {}
  /\ UNCHANGED <<arg, mona, printed, past, built>>

Encode ==
  /\ phase = "encode" /\ Encodable(arg)
  /\ phase' = "source"
  /\ UNCHANGED <<arg, mona, files, printed, past, built>>

EncodeThrows == phase = "encode" /\ ~Encodable(arg) /\ Throw

\* mkstemp, and the write of the source; a file whose write fails is removed at once.
CreateFile(name, next) ==
  /\ phase = name
  /\ phase' = next /\ files' = files \cup {name}
  /\ UNCHANGED <<arg, mona, printed, past, built>>

CreateSource == CreateFile("source", "out")
CreateOut == CreateFile("out", "err")
CreateErr == CreateFile("err", "mona")

CreateFails == phase \in {"source", "out", "err"} /\ Throw

RunMona ==
  /\ phase = "mona"
  /\ phase' = "read" /\ printed' \in MonaOutputs(mona, VarOrder(arg))
  /\ UNCHANGED <<arg, mona, files, past, built>>

\* The shell reports a nonzero exit.
MonaFails == phase = "mona" /\ Throw

\* run_mona returns the text; its files are removed.
ReadOutput ==
  /\ phase = "read" /\ printed # NoTable
  /\ phase' = "parse" /\ files' = {}
  /\ UNCHANGED <<arg, mona, printed, past, built>>

ReadThrows == phase = "read" /\ printed = NoTable /\ Throw

Parse ==
  /\ phase = "parse" /\ Accepts(VarOrder(arg), printed)
  /\ phase' = "strip" /\ past' = Parsed(VarOrder(arg), printed)
  /\ UNCHANGED <<arg, mona, files, printed, built>>

ParseThrows == phase = "parse" /\ ~Accepts(VarOrder(arg), printed) /\ Throw

Strip ==
  /\ phase = "strip" /\ HasPrelude(past)
  /\ phase' = "reverse" /\ past' = Stripped(past)
  /\ UNCHANGED <<arg, mona, files, printed, built>>

StripThrows == phase = "strip" /\ ~HasPrelude(past) /\ Throw

Pass(from, to, g) == phase = from /\ phase' = to /\ built' = g /\ UNCHANGED <<arg, mona, files, printed, past>>

TurnEdges == Pass("reverse", "ensure", Reversed(past))
Ensure == Pass("ensure", "unreachable", EnsureInit(past, built))
DropUnreachable == Pass("unreachable", "dead", PurgeUnreachable(built, FreshInit))
DropDead == Pass("dead", "done", PurgeDead(built))

\* The benchmark's deadline, or the user: no destructor runs.
Kill ==
  /\ phase \notin {"done", "threw", "killed"}
  /\ phase' = "killed"
  /\ UNCHANGED <<arg, mona, files, printed, past, built>>

Next ==
  \/ Encode \/ EncodeThrows
  \/ CreateSource \/ CreateOut \/ CreateErr \/ CreateFails
  \/ RunMona \/ MonaFails
  \/ ReadOutput \/ ReadThrows
  \/ Parse \/ ParseThrows
  \/ Strip \/ StripThrows
  \/ TurnEdges \/ Ensure \/ DropUnreachable \/ DropDead
  \/ Kill

Spec == Init /\ [][Next]_vars

-----------------------------------------------------------------------------
Reach(S, l) == {e.dst : e \in {x \in built.edges : x.src \in S /\ l \in x.guard}}

NfaAccepts(w) ==
  LET after[k \in 0 .. Len(w)] == IF k = 0 THEN {FreshInit} ELSE Reach(after[k - 1], w[k])
  IN  \E s \in after[Len(w)] : StateIsAccepting(Out(built, s))

\* A letter that looks like v to the goal.
LetterOf(v) == CHOOSE l \in Letter : \A name \in Support(arg) : l \in Region[name] <=> name \in v

\* The NFA accepts the words that satisfy the goal, read forwards: neither the
\* mirror clauses, nor MONA's leading letter or a table it never should print, nor
\* the purges and the way Spot reads acceptance add a word or lose one; and not
\* the empty word, whose acceptance the determinizations never read.
GoalLanguage ==
  phase = "done" =>
    \A w \in WordsOver(SUBSET Support(arg), MaxWord) :
      NfaAccepts([m \in DOMAIN w |-> LetterOf(w[m])]) <=> Satisfies(w, arg)

\* Whatever fails, no temporary file outlives run_mona, unless the process is killed.
OnlyKillsLeaveFiles ==
  files # {} => phase \in {"out", "err", "mona", "read", "killed"}
===============================================================================
