----------------------------- MODULE MCBenchSweep -----------------------------
(***************************************************************************)
(* Two families, one comparable with ltlfsynt from n = 1 and one that is     *)
(* not, with floor 2, by two subjects, for n from 1 to 2.  The calls vary    *)
(* what the subjects do, or what the repeats of the race do, or the command  *)
(* line.                                                                     *)
(***************************************************************************)
EXTENDS BenchSweep

MCFamilies == <<"hidden", "slippery">>
MCSubjects == <<"otf", "mtdfa-product", "sizes">>
MCFloor == [hidden |-> 1, slippery |-> 2]
MCTier == [hidden |-> "t1", slippery |-> "t3"]

Result(min, successes, timeouts, failures) ==
  [min |-> min, successes |-> successes, timeouts |-> timeouts, failures |-> failures]
Timed(t) == Result([product_construction |-> t, game_solving |-> 1, product_states |-> t], 2, 0, 0)
Sizes == Result([product_states |-> 3], 2, 0, 0)
Skips == Result(<<>>, 2, 0, 0)
TimesOut == Result(<<>>, 0, 2, 0)
Crash == Result(<<>>, 0, 1, 1)
Partly(t) == Result([game_solving |-> t], 1, 1, 0)

\* What a subject does for n = 1 and n = 2, on the realizable and the unrealizable case.
YesNo(yes, no) == [realizable \in BOOLEAN |-> IF realizable THEN yes ELSE no]
Both(result) == YesNo(result, result)
Profiles(t) == {<<Both(Timed(t)), YesNo(Timed(t + 1), TimesOut)>>, <<Both(Timed(t)), YesNo(TimesOut, Timed(t + 1))>>,
                <<YesNo(TimesOut, Crash), Both(Partly(t))>>, <<Both(Skips), Both(Skips)>>,
                <<Both(Partly(t)), Both(Crash)>>}
Usual == <<Both(Timed(2)), Both(Timed(4))>>

Run(code, says, lines, time) == [exit |-> code, word |-> says, chatter |-> lines, ns |-> time]
Realizable(ns) == Run(0, "REALIZABLE", {"stage"}, ns)
Runs(ns) == {Realizable(ns), Run(1, "UNREALIZABLE", {"stage"}, ns), Run(124, "", {"stage"}, ns),
             Run(0, "REALIZABLE", {"stage", "cut"}, ns), Run(1, "UNREALIZABLE", {}, ns),
             Run(137, "", {"stage"}, ns), Run(-1, "", {}, ns)}

Base == [families |-> {"all"}, subjects |-> {"all"}, nMin |-> 1, nMax |-> 2, repeat |-> 2,
         out |-> "repo", xlsx |-> "none", runnable |-> {"flag", "path"}, formulaWritten |-> TRUE,
         race |-> <<Realizable(3), Realizable(5)>>,
         results |-> [fs \in ToSet(MCFamilies) \X ToSet(MCSubjects) |-> 
                        IF fs[2] = "sizes" THEN <<Both(Sizes), Both(Sizes)>> ELSE Usual]]

SubjectsVary ==
  {[Base EXCEPT !.results = [@ EXCEPT !["hidden", "otf"] = a, !["hidden", "mtdfa-product"] = b]] :
     a \in Profiles(2), b \in Profiles(5)}
RacesVary ==
  {[Base EXCEPT !.subjects = {"otf"}, !.race = <<a, b>>, !.formulaWritten = w] :
     a \in Runs(3), b \in Runs(5), w \in BOOLEAN}
LinesVary ==
  {[Base EXCEPT !.xlsx = "repo", !.families = {"slippery"}],
   [Base EXCEPT !.runnable = {}, !.subjects = {"otf"}],
   [Base EXCEPT !.subjects = {"otf", "mtnfa"}], [Base EXCEPT !.families = {}],
   [Base EXCEPT !.nMin = 3], [Base EXCEPT !.repeat = 0],
   [Base EXCEPT !.out = "tmp"], [Base EXCEPT !.xlsx = "outside"]}

MCCalls == SubjectsVary \cup RacesVary \cup LinesVary
===============================================================================
