----------------------------- MODULE MCWorkflow -----------------------------
(* The projects and command lines TLC runs the workflows on. *)
EXTENDS Workflow

File(name, kind) ==
  [name |-> name, kind |-> kind, preferred |-> FALSE, host |-> FALSE, negative |-> FALSE,
   scoped |-> TRUE, status |-> "pass", warned |-> FALSE, unmatched |-> FALSE, leaks |-> <<>>,
   peak |-> 0, titles |-> <<>>]
PassFile == [File("a.pass", "steps") EXCEPT !.preferred = TRUE]
HostFile == [File("b.host", "steps") EXCEPT !.host = TRUE, !.scoped = FALSE]
FailFile == [File("c.fail", "steps") EXCEPT !.negative = TRUE, !.status = "fail",
                                            !.titles = <<"assertion", "assertion">>]
WarnFile == [PassFile EXCEPT !.warned = TRUE]
LeakFile == [PassFile EXCEPT !.leaks = <<1, 2>>, !.peak = 3]
PeakFile == [PassFile EXCEPT !.peak = 3]
OddFile  == [PassFile EXCEPT !.unmatched = TRUE]
Nodes    == [File("d", "distributed") EXCEPT !.preferred = TRUE]
Checkers == File("d.checkers", "distributed")

Default ==
  [command |-> "full", strict |-> TRUE, allow |-> FALSE, scoped |-> FALSE,
   files |-> <<PassFile, HostFile, FailFile, Checkers, Nodes>>, skip |-> {}, required |-> {},
   topology |-> FALSE, git |-> "clean", env |-> <<>>, doctor_runs |-> 1, fuzz_time |-> 2,
   fail_on_leak |-> FALSE, leak_budget |-> None, max_faults |-> 1,
   backends |-> [proc |-> "scripted", fs |-> "virtual_overlay", http |-> "scripted"]]
With(files) == [Default EXCEPT !.files = files]
GateOn(files) == [With(files) EXCEPT !.command = "gate"]

FullSetups ==
  {Default,
   [With(<<WarnFile, Checkers>>) EXCEPT !.strict = FALSE, !.git = "broken"],
   [With(<<WarnFile>>) EXCEPT !.git = "dirty", !.max_faults = 0],
   [With(<<FailFile>>) EXCEPT !.allow = TRUE, !.git = "none"],
   [With(<<HostFile, FailFile>>) EXCEPT !.scoped = TRUE, !.max_faults = 0],
   [With(<<PassFile, File("e", "suites")>>) EXCEPT !.max_faults = 0],
   [With(<<LeakFile>>) EXCEPT !.leak_budget = 2],
   [With(<<PeakFile>>) EXCEPT !.fail_on_leak = TRUE],
   [With(<<OddFile>>) EXCEPT !.env = <<"env">>, !.max_faults = 0],
   [With(<<PassFile>>) EXCEPT !.topology = TRUE], With(<<Nodes>>),
   [Default EXCEPT !.topology = TRUE, !.skip = {"fuzz", "ci"}],
   [Default EXCEPT !.topology = TRUE, !.skip = {"topology_coverage"}, !.max_faults = 0],
   [With(<<>>) EXCEPT !.git = "broken", !.max_faults = 0]}
Broken(file) == [file EXCEPT !.status = "fail", !.negative = TRUE]
TwoFaults == {[With(<<PassFile>>) EXCEPT !.max_faults = 2],
              [With(<<PassFile, Broken(HostFile), Broken(Nodes)>>) EXCEPT !.max_faults = 2]}

GateSetups ==
  {GateOn(<<PassFile, HostFile>>),
   [GateOn(<<PassFile, HostFile>>) EXCEPT !.scoped = TRUE, !.max_faults = 2],
   [GateOn(<<FailFile>>) EXCEPT !.strict = FALSE, !.max_faults = 3],
   GateOn(<<PassFile, FailFile>>),
   [GateOn(<<HostFile>>) EXCEPT !.scoped = TRUE],
   GateOn(<<Nodes, File("e", "bad")>>)}

Ask(options) ==
  [strict |-> TRUE, flake_runs |-> <<>>, flake_budget |-> None, perf |-> None, max_p99 |-> None]
    @@ options
FlakeRun(id, titles) == [id |-> id, status |-> "fail", titles |-> titles]
FlakeRuns == <<FlakeRun("r1", <<"a", "b">>), FlakeRun("r2", <<"b", "a">>), FlakeRun("r3", <<"a">>)>>
CiSetups ==
  {[With(<<f>>) EXCEPT !.command = "ci", !.max_faults = 0] @@ [options |-> o] :
     f \in {PassFile, LeakFile},
     o \in {[flake_runs |-> SubSeq(FlakeRuns, 1, n), flake_budget |-> b] @@ Ask(<<>>)
              : n \in 0..3, b \in {None, 50}}
           \cup {[perf |-> p, max_p99 |-> 5] @@ Ask(<<>>) : p \in {None, 5, 6}}}

MCSetups == FullSetups \cup TwoFaults \cup GateSetups \cup CiSetups
MaskSetups ==
  {[With(<<PassFile>>) EXCEPT !.topology = TRUE, !.required = {"topology_coverage"}]}
=============================================================================
