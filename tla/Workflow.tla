------------------------------ MODULE Workflow ------------------------------
(***************************************************************************)
(* `fozzy full` and `fozzy gate` (src/src/cli_workflows/runner): one main  *)
(* thread runs the other commands one after the other on the scenarios of  *)
(* a project, judges each answer (Checks) and reports the steps.           *)
(*                                                                         *)
(* A command answers as a healthy one would, or, at most MaxFaults times   *)
(* in an execution, with something else, with an error, or not at all.     *)
(* full runs the long ones in a thread of their own and stops waiting for  *)
(* them at a deadline; the thread is left running.  The others, and all of *)
(* gate's, are called directly.                                            *)
(***************************************************************************)
EXTENDS Reports

CONSTANT Setups  \* the projects and command lines to run

VARIABLES
  setup,    \* the project and the command line
  pc,       \* the name of the next step, "finish" or "exited"
  steps,    \* what was pushed: [name, status]
  waiting,  \* the step whose thread has not answered yet, or None
  aborted,  \* abort_requested
  run,      \* what later steps need of earlier ones
  temps,    \* the temporary files named so far, to be removed at the end
  disk,     \* the temporary files there are
  worker,   \* a thread nobody waits for any more, or None
  faulty,   \* the steps that were answered wrongly or not at all
  unnoticed, \* those answered wrongly where their checks do not look
  exit      \* the exit code, None before the end

workflow_vars ==
  <<setup, pc, steps, waiting, aborted, run, temps, disk, worker, faulty, unnoticed, exit>>

-----------------------------------------------------------------------------
(* The steps, in order. *)
PrepareNames == <<"clean_tree", "usage", "version", "init", "discover_scenarios",
                  "topology_coverage">>
DeterministicNames == <<"doctor_deep", "test_det", "run_record_trace">>
TraceNames ==
  <<"trace_verify", "replay", "ci", "shrink", "replay_shrunk", "artifacts_ls",
    "artifacts_export", "artifacts_pack", "artifacts_diff", "report_show", "report_query",
    "report_query_paths", "report_flaky", "memory_top", "memory_graph", "memory_diff",
    "profile_top", "profile_diff", "profile_explain">>
CorpusNames == <<"corpus_add", "corpus_list", "corpus_minimize", "corpus_export",
                 "corpus_import">>
ExtendedNames == <<"fuzz", "explore">> \o CorpusNames \o <<"host_backends_run", "env">>
FullMenu == PrepareNames \o DeterministicNames \o TraceNames \o ExtendedNames
GateTraceNames == <<"trace_verify", "replay", "ci", "profile_top", "profile_diff",
                    "profile_explain">>
GateMenu == <<"clean_tree", "discover", "scope_match", "doctor_deep", "test_det_strict",
              "run_record_trace">> \o GateTraceNames

Full == setup.command = "full"
Gate == setup.command = "gate"
Menu == IF Full THEN FullMenu ELSE GateMenu
After(name) ==
  LET i == SelectInSeq(Menu, LAMBDA n : n = name)
  IN  IF i = Len(Menu) THEN "finish" ELSE Menu[i + 1]
Names(entries) == [i \in DOMAIN entries |-> entries[i].name]

-----------------------------------------------------------------------------
(* The scenarios: files in the order of their paths.  A file's name says   *)
(* which steps prefer it; a scenario's outcome is the same in every run.   *)
(* What is found depends on the directory the scan starts in.              *)
Files(kind) == {i \in DOMAIN setup.files : run.cwd # "init" /\ setup.files[i].kind = kind}
Scoped(found) == {i \in found : setup.scoped => setup.files[i].scoped}
Unreadable == Files("suites") \cup Files("bad") # {}

FirstOr(found, default) == IF found = {} THEN default ELSE setup.files[Min(found)]
Preferred(found) == FirstOr({i \in found : setup.files[i].preferred}, FirstOr(found, None))

Primary     == Preferred(Scoped(Files("steps")))
HostStep    == FirstOr({i \in Scoped(Files("steps")) : setup.files[i].host}, None)
Distributed == Preferred(Scoped(Files("distributed")))
TestTargets ==
  LET all == Scoped(Files("steps"))
      positive == {i \in all : ~setup.files[i].negative}
  IN  IF Gate THEN {setup.files[i] : i \in all}
      ELSE IF positive = {} THEN {Primary} ELSE {setup.files[i] : i \in positive}

-----------------------------------------------------------------------------
(* Pushing steps.  An answer is ok with a value, or an error; a wrong one  *)
(* uses up a fault.                                                        *)
Faults == Cardinality(faulty) + Cardinality(unnoticed)
MayFail == Faults < setup.max_faults

Answers(good, bad) ==
  {[ok |-> TRUE, value |-> good, fault |-> FALSE]}
  \cup IF MayFail THEN {[ok |-> TRUE, value |-> b, fault |-> TRUE] : b \in bad}
                       \cup {[ok |-> FALSE, fault |-> TRUE]}
       ELSE {}
Blamed(name, answer) == faulty' = IF answer.fault THEN faulty \cup {name} ELSE faulty

Push(name, status) == Append(steps, [name |-> name, status |-> status])
SkipAll(names) == steps \o [i \in DOMAIN names |-> [name |-> names[i], status |-> "skipped"]]

(* The temporary files a command writes, and those named before it runs.   *)
WrittenBy(name) ==
  CASE name = "init"              -> {"init"}
    [] name = "run_record_trace"  -> {"trace"}
    [] name = "shrink"            -> {"min"}
    [] name = "artifacts_export"  -> {"artifacts_zip"}
    [] name = "artifacts_pack"    -> {"pack_zip"}
    [] name = "fuzz"              -> {"fuzz_trace", "fuzz_corpus"}
    [] name = "corpus_add"        -> {"corpus"}
    [] name = "corpus_export"     -> {"corpus_zip"}
    [] name = "corpus_import"     -> {"import"}
    [] name = "host_backends_run" -> {"host_trace"}
    [] OTHER                      -> {}
\* mutant: the archive and the import of the corpus are named as they are made
CorpusTempsForgotten(name) ==
  temps' = temps \cup IF name \in {"corpus_export", "corpus_import"} THEN {} ELSE WrittenBy(name)
RegisterTemp(name) ==
  temps' = temps \cup IF name = "corpus_add" THEN {"corpus", "corpus_zip", "import"}
                      ELSE WrittenBy(name)
(* A command that ends well wrote its files, one that failed some of them. *)
Written(name, answer) ==
  \E files \in IF answer.ok THEN {WrittenBy(name)} ELSE SUBSET WrittenBy(name) :
    disk' = disk \cup files

AtStep(name) == pc = name /\ waiting = None

(* A step that calls its command directly. *)
Direct(name, good, bad, Status(_)) ==
  /\ AtStep(name)
  /\ RegisterTemp(name)
  /\ \E answer \in Answers(good, bad) :
       /\ steps' = Push(name, IF answer.ok THEN Status(answer.value) ELSE "failed")
       /\ Blamed(name, answer)
       /\ Written(name, answer)
  /\ pc' = After(name)
  /\ UNCHANGED <<setup, waiting, aborted, run, worker, unnoticed, exit>>

(* Steps that are pushed without running anything. *)
Skipped(names, next) ==
  /\ steps' = SkipAll(names)
  /\ pc' = next
  /\ UNCHANGED <<setup, waiting, aborted, run, temps, disk, worker, faulty, unnoticed, exit>>

(* run_with_timeout: a thread runs the command.  An error of it aborts the *)
(* workflow as a missed deadline does; nothing follows an aborted step.    *)
Supervised(name, good, bad, Status(_), Keep(_)) ==
  /\ AtStep(name)
  /\ RegisterTemp(name)
  /\ \/ \E answer \in Answers(good, bad) :
          /\ Blamed(name, answer)
          /\ Written(name, answer)
          /\ IF answer.ok
             THEN /\ steps' = Push(name, Status(answer.value))
                  /\ run' = Keep(answer.value)
                  /\ pc' = After(name)
                  /\ UNCHANGED aborted
             ELSE /\ steps' = Push(name, "failed")
                  /\ aborted' = TRUE /\ pc' = "finish"
                  /\ run' = [run EXCEPT !.classification =
                                          IF name = "shrink" THEN "tooling_failure" ELSE @]
          /\ UNCHANGED waiting
     \/ /\ MayFail
        /\ waiting' = name
        /\ faulty' = faulty \cup {name}
        /\ UNCHANGED <<pc, steps, aborted, run, disk>>
  /\ UNCHANGED <<setup, worker, unnoticed, exit>>

Stays(value) == run

(* How long a thread is waited for, in seconds; fuzzing gets its own time  *)
(* on top.                                                                 *)
\* mutant: fuzzing is trusted to keep its time
FuzzUntimed(name) == IF name = "fuzz" THEN None ELSE 45
Deadline(name) ==
  CASE name = "discover_scenarios" -> 15
    [] name = "topology_coverage"  -> 30
    [] name = "fuzz"               -> setup.fuzz_time + 45
    [] OTHER                       -> 45

(* The deadline: the thread goes on, but nobody reads what it sends. *)
GiveUp ==
  /\ waiting # None
  /\ Deadline(waiting) # None
  /\ steps' = Push(waiting, "failed")
  /\ aborted' = TRUE
  /\ worker' = waiting
  /\ run' = [run EXCEPT !.classification = IF waiting = "shrink" THEN "tooling_failure" ELSE @]
  /\ waiting' = None
  /\ pc' = "finish"
  /\ UNCHANGED <<setup, temps, disk, faulty, unnoticed, exit>>

(* The thread ends at last and has written its files. *)
WorkerEnds ==
  /\ worker # None
  /\ pc # "exited"
  /\ disk' = disk \cup WrittenBy(worker)
  /\ worker' = None
  /\ UNCHANGED <<setup, pc, steps, waiting, aborted, run, temps, faulty, unnoticed, exit>>

-----------------------------------------------------------------------------
(* What healthy commands answer, and the ways they may go wrong. *)
Strict == setup.strict
Runs == Max({2, setup.doctor_runs})

Trace(host) == [file |-> "full", content |-> "same", reported |-> TRUE, host |-> host]
Summary(status, mode, warned, host) ==
  [status |-> status, mode |-> mode, run_id |-> "id", seed |-> "expected", warned |-> warned,
   report |-> "same", manifest |-> "same", trace |-> Trace(host)]

Flipped(status) == IF status = "pass" THEN "fail" ELSE "pass"
BadSummaries(s) ==
  {[s EXCEPT !.run_id = ""], [s EXCEPT !.seed = "other"], [s EXCEPT !.mode = "Other"],
   [s EXCEPT !.status = Flipped(@)]}
Astray(s) == BadSummaries(s) \cup {[s EXCEPT !.report = "other"], [s EXCEPT !.manifest = "missing"]}
BadTraces(s) ==
  {[s EXCEPT !.trace.file = f] : f \in {"missing", "dir", "empty"}}
  \cup {[s EXCEPT !.trace.content = "other"], [s EXCEPT !.trace.reported = FALSE]}

PrimaryRun(mode) == Summary(Primary.status, mode, Primary.warned, FALSE)
TestRun ==
  Summary(IF \A f \in TestTargets : f.status = "pass" THEN "pass" ELSE "fail", "Test",
          \E f \in TestTargets : f.warned, FALSE)

Verified == [ok |-> TRUE, checksum_present |-> TRUE, checksum_valid |-> TRUE, warned |-> FALSE]
BadVerified == {[Verified EXCEPT !.ok = FALSE]}
               \cup IF Strict THEN {[Verified EXCEPT !.checksum_present = FALSE],
                                    [Verified EXCEPT !.warned = TRUE]} ELSE {}

(* The graph tells of what was freed too.                                  *)
GraphOf(file) ==
  LET alloc == <<"alloc", 1>>
      callsite == <<"callsite", 1>>
  IN  IF file.peak = 0 THEN [nodes |-> <<>>, edges |-> <<>>]
      ELSE [nodes |-> <<alloc, callsite>>,
            edges |-> <<[from |-> callsite, to |-> alloc, kind |-> "allocates"]>>]
MemoryOf(s, file) ==
  [fail_on_leak |-> s.fail_on_leak, leak_budget |-> s.leak_budget,
   summary |-> [leaked_bytes |-> FoldSeq(+, 0, file.leaks), leaked_allocs |-> Len(file.leaks),
                peak_bytes |-> file.peak],
   leaks |-> [i \in DOMAIN file.leaks |-> [id |-> i, bytes |-> file.leaks[i]]],
   graph |-> GraphOf(file)]
RecordedRun(file) ==
  [status |-> file.status, memory |-> MemoryOf(setup, file),
   warnings |-> IF file.warned /\ file.status = "pass" THEN <<"checker">> ELSE <<>>]
CiOptions == [strict |-> Strict, flake_runs |-> <<>>, flake_budget |-> None, perf |-> None,
              max_p99 |-> None]
CiOf(verify, replay) ==
  CiEvaluate(CiOptions, Ok(RecordedRun(Primary)), Ok(verify), Ok(replay)).value
HealthyCi == CiOf(Verified, RecordedRun(Primary))
BadCi ==
  {CiOf(v, RecordedRun(Primary)) : v \in BadVerified}
  \cup {CiOf(Verified, [RecordedRun(Primary) EXCEPT !.status = Flipped(@)]),
        CiOf(Verified, [RecordedRun(Primary) EXCEPT !.memory.summary.peak_bytes = @ + 1]),
        [HealthyCi EXCEPT !.checks = <<>>], [HealthyCi EXCEPT !.checks = @ \o @]}

HealthyDoctor(first) ==
  Doctor(Primary.name, [i \in 1..Runs |-> IF i = 1 THEN first ELSE "sig"], Primary.unmatched,
         setup.env)
BadDoctor ==
  {HealthyDoctor("other"), [HealthyDoctor("sig") EXCEPT !.audit.scenario = "other"],
   [HealthyDoctor("sig") EXCEPT !.audit.runs = @ + 1],
   [HealthyDoctor("sig") EXCEPT !.audit.seed = "other"],
   [HealthyDoctor("sig") EXCEPT !.audit = None],
   [HealthyDoctor("sig") EXCEPT !.audit.mismatch = 2],
   [HealthyDoctor("sig") EXCEPT !.signals = <<"clock">>]}

-----------------------------------------------------------------------------
(* prepare.rs, and the first steps of gate. *)
GitStatus == [clean |-> "passed", dirty |-> "advisory", none |-> "skipped", broken |-> "failed"]
CleanTree ==
  /\ AtStep("clean_tree")
  /\ steps' = Push("clean_tree", IF Strict THEN GitStatus[setup.git] ELSE "skipped")
  /\ pc' = IF Full THEN "policy_conflict" ELSE After("clean_tree")
  /\ UNCHANGED <<setup, waiting, aborted, run, temps, disk, worker, faulty, unnoticed, exit>>

(* A topology requirement that the step policies would hide is refused.    *)
Conflict == /\ setup.topology
            /\ \/ setup.required # {} /\ "topology_coverage" \notin setup.required
               \/ "topology_coverage" \in setup.skip
PolicyConflict ==
  /\ AtStep("policy_conflict")
  /\ steps' = IF Conflict THEN Push("policy_conflict", "failed") ELSE steps
  /\ pc' = "usage"
  /\ UNCHANGED <<setup, waiting, aborted, run, temps, disk, worker, faulty, unnoticed, exit>>

(* Compiled-in texts. *)
UsageAndVersion ==
  /\ AtStep("usage")
  /\ steps' = steps \o << [name |-> "usage", status |-> "passed"],
                          [name |-> "version", status |-> "passed"] >>
  /\ pc' = "init"
  /\ UNCHANGED <<setup, waiting, aborted, run, temps, disk, worker, faulty, unnoticed, exit>>

(* init scaffolds a project in a directory of its own, which is the whole  *)
(* process's working directory for as long as that takes.                  *)
InitCheck == Direct("init", "scaffold", {"scaffold missing"}, LAMBDA v : PassedIf(v = "scaffold"))
InitCannotReturn ==
  /\ AtStep("init") /\ MayFail
  /\ RegisterTemp("init")
  /\ disk' = disk \cup {"init"}
  /\ steps' = Push("init", "failed")
  /\ faulty' = faulty \cup {"init"}
  /\ run' = [run EXCEPT !.cwd = "init"]
  /\ pc' = After("init")
  /\ UNCHANGED <<setup, waiting, aborted, worker, unnoticed, exit>>

(* What is found is a list of files by kind and what could not be read.    *)
DiscoverStatus(found) == PassedIf(~found.errors /\ found.steps)
DiscoverScenarios ==
  Supervised("discover_scenarios",
    [errors |-> Unreadable, steps |-> Scoped(Files("steps")) # {}],
    {[errors |-> TRUE, steps |-> Scoped(Files("steps")) # {}]}, DiscoverStatus, Stays)

Suite == [hotspot |-> "h", required |-> <<"run", "fuzz">>, covered |-> <<"run", "fuzz">>,
          missing |-> <<>>, evidence |-> {"run", "fuzz"}, recommended |-> {"run", "fuzz", "replay"},
          by_policy |-> TRUE, is_covered |-> TRUE]
Coverage == [required |-> 1, covered |-> 1, uncovered |-> 0, root |-> "expected",
             warned |-> FALSE, suites |-> <<Suite>>, returned |-> 1, total |-> 1,
             truncated |-> FALSE]
BadCoverage ==
  {[Coverage EXCEPT !.covered = 0, !.uncovered = 1], [Coverage EXCEPT !.root = "other"],
   [Coverage EXCEPT !.warned = TRUE], [Coverage EXCEPT !.total = 2],
   [Coverage EXCEPT !.suites = <<[Suite EXCEPT !.evidence = {"run"}]>>],
   [Coverage EXCEPT !.suites = <<[Suite EXCEPT !.covered = <<"run">>, !.evidence = {"run"},
                                              !.missing = <<"fuzz">>]>>]}
TopologyCoverage ==
  IF setup.topology
  THEN Supervised("topology_coverage", Coverage, BadCoverage, TopologyCoverageStatus, Stays)
  ELSE AtStep("topology_coverage") /\ Skipped(<<"topology_coverage">>, "doctor_deep")

(* gate looks at the scenarios in its own thread and judges the scope.     *)
GateDiscover ==
  /\ AtStep("discover")
  /\ steps' = Push("discover", PassedIf(~Unreadable /\ Files("steps") # {}))
  /\ pc' = "scope_match"
  /\ UNCHANGED <<setup, waiting, aborted, run, temps, disk, worker, faulty, unnoticed, exit>>
ScopeMatch ==
  /\ AtStep("scope_match")
  /\ steps' = Push("scope_match", PassedIf(Primary # None))
  /\ pc' = IF Primary = None THEN "finish" ELSE "doctor_deep"
  /\ UNCHANGED <<setup, waiting, aborted, run, temps, disk, worker, faulty, unnoticed, exit>>

-----------------------------------------------------------------------------
(* The deterministic surface: the audit, the suite and the recorded run.   *)
Doctored(report) == DoctorReportStatus(report, Strict, Primary.name, Runs)
DoctorDeep ==
  /\ Full
  /\ IF Primary = None
     THEN AtStep("doctor_deep") /\ Skipped(DeterministicNames \o TraceNames, "fuzz")
     ELSE Supervised("doctor_deep", HealthyDoctor("sig"), BadDoctor, Doctored, Stays)
GateDoctor == Gate /\ Direct("doctor_deep", HealthyDoctor("sig"), BadDoctor, Doctored)

Tested(s) == RunSummaryPassStatus(s, Strict, "Test")
TestDet       == Supervised("test_det", TestRun, Astray(TestRun), Tested, Stays)
TestDetStrict == Direct("test_det_strict", TestRun, Astray(TestRun), Tested)

\* mutant: the run's summary is believed about its trace
TraceBelieved(s) == RunSummaryPassStatus(s, Strict, "Run")
Recorded(s) == RecordedTraceStatus(s, Strict, "Run")
(* full goes on with a trace that the run reported and that is there. *)
KeepTrace(s) == [run EXCEPT !.status = s.status,
                            !.trace = s.trace.reported /\ FileArtifactStatus(s.trace.file) = "passed"]
RunRecordTrace ==
  Full /\ Supervised("run_record_trace", PrimaryRun("Run"),
                     Astray(PrimaryRun("Run")) \cup BadTraces(PrimaryRun("Run")),
                     Recorded, KeepTrace)
(* gate goes on with whatever stands at the path, if anything does. *)
GateRecord ==
  /\ Gate /\ AtStep("run_record_trace")
  /\ RegisterTemp("run_record_trace")
  /\ \E answer \in Answers(PrimaryRun("Run"),
                           Astray(PrimaryRun("Run")) \cup BadTraces(PrimaryRun("Run"))) :
       /\ Blamed("run_record_trace", answer)
       /\ IF answer.ok
          THEN /\ steps' = Push("run_record_trace", Recorded(answer.value))
               /\ run' = [run EXCEPT !.status = answer.value.status,
                                     !.trace = answer.value.trace.file # "missing"]
          ELSE /\ steps' = Push("run_record_trace", "failed")
               /\ \E there \in BOOLEAN : run' = [run EXCEPT !.trace = there]
       /\ disk' = IF run'.trace THEN disk \cup {"trace"} ELSE disk
  /\ pc' = After("run_record_trace")
  /\ UNCHANGED <<setup, waiting, aborted, worker, unnoticed, exit>>

-----------------------------------------------------------------------------
(* The trace surface. *)
\* mutant: the list of skipped steps lost one
NoTraceForgets ==
  Full /\ AtStep("trace_verify") /\ ~run.trace /\ Skipped(Tail(TraceNames), "fuzz")
NoTrace     == Full /\ AtStep("trace_verify") /\ ~run.trace /\ Skipped(TraceNames, "fuzz")
GateNoTrace == Gate /\ AtStep("trace_verify") /\ ~run.trace /\ Skipped(GateTraceNames, "finish")
TraceVerify ==
  /\ run.trace
  /\ Direct("trace_verify", Verified, BadVerified, LAMBDA v : TraceVerifyStatus(v, Strict))

Replayed(s) == ReplaySummaryStatus(run.status, s, Strict, "Replay")
Replay ==
  Full /\ Supervised("replay", PrimaryRun("Replay"), Astray(PrimaryRun("Replay")), Replayed, Stays)
GateReplay ==
  /\ Gate /\ AtStep("replay")
  /\ \E answer \in Answers(PrimaryRun("Replay"), Astray(PrimaryRun("Replay"))) :
       /\ Blamed("replay", answer)
       /\ steps' = Push("replay", IF answer.ok THEN Replayed(answer.value) ELSE "failed")
       /\ run' = [run EXCEPT !.replayed = answer.ok]
  /\ pc' = After("replay")
  /\ UNCHANGED <<setup, waiting, aborted, temps, disk, worker, unnoticed, exit>>

Ci     == Full /\ Supervised("ci", HealthyCi, BadCi, CiReportStatus, Stays)
GateCi == Gate /\ Direct("ci", HealthyCi, BadCi, CiReportStatus)

(* What is shrunk keeps its class, and with it its findings. *)
Shrunk(s) == ShrinkStepStatus(run.status, s, Strict, "Replay", setup.allow)
KeepShrunk(s) ==
  [run EXCEPT !.shrunk_status = s.status,
              !.classification = ShrinkClassification(run.status, s, Strict, "Replay", setup.allow)]
Shrink ==
  Supervised("shrink", PrimaryRun("Replay"),
             BadSummaries(PrimaryRun("Replay")) \cup BadTraces(PrimaryRun("Replay")),
             Shrunk, KeepShrunk)
ReplayShrunk ==
  LET good == [PrimaryRun("Replay") EXCEPT !.status = run.shrunk_status]
  IN  Supervised("replay_shrunk", good, Astray(good),
                 LAMBDA s : ReplaySummaryStatus(run.shrunk_status, s, Strict, "Replay"), Stays)

-----------------------------------------------------------------------------
(* The read-only commands over the trace and the shrunk trace. *)
ArtifactList == <<[path |-> "trace", size |-> 2, reported |-> 2]>>
ArtifactsLs ==
  Direct("artifacts_ls", ArtifactList,
         {<<>>, ArtifactList \o ArtifactList, <<[ArtifactList[1] EXCEPT !.size = None]>>,
          <<[ArtifactList[1] EXCEPT !.size = 0]>>, <<[ArtifactList[1] EXCEPT !.reported = 1]>>},
         ArtifactsListStatus)

Archive == [file |-> "full", parses |-> TRUE, entries |-> 2]
BadZips == {[Archive EXCEPT !.file = "missing"], [Archive EXCEPT !.parses = FALSE],
            [Archive EXCEPT !.entries = 0]}
ArtifactsExport == Direct("artifacts_export", Archive, BadZips, ZipArtifactStatus)
ArtifactsPack   == Direct("artifacts_pack", Archive, BadZips, ZipArtifactStatus)

Delta == [key |-> "trace", left |-> 2, right |-> 1, changed |-> TRUE]
Deltas == [files |-> <<Delta>>, report |-> TRUE, trace |-> TRUE, left |-> "l", right |-> "r"]
ArtifactsDiff ==
  Direct("artifacts_diff", Deltas,
         {[Deltas EXCEPT !.files = <<Delta, Delta>>], [Deltas EXCEPT !.left = ""],
          [Deltas EXCEPT !.files = <<[Delta EXCEPT !.changed = FALSE]>>],
          [Deltas EXCEPT !.files = <<[Delta EXCEPT !.left = None, !.right = None]>>]},
         ArtifactsDiffStatus)

Shown == [format |-> "pretty", content |-> "text"]
ReportShow ==
  Direct("report_show", Shown, {[Shown EXCEPT !.content = ""], [Shown EXCEPT !.format = "json"]},
         ReportShowStatus)
ReportQuery ==
  Direct("report_query", Primary.status, {Flipped(Primary.status)}, ReportQueryStatus)
ReportQueryPaths ==
  Direct("report_query_paths", <<"status", "mode">>, {<<>>, <<"status", "">>, <<"mode", "mode">>},
         ReportQueryPathsStatus)

(* The trace and the shrunk trace are two runs; a shrunk one that fails    *)
(* otherwise makes the pair flaky.                                         *)
Pair(status, titles) ==
  << [id |-> "trace", status |-> Primary.status, titles |-> Primary.titles],
     [id |-> "shrunk", status |-> status, titles |-> titles] >>
ReportFlaky ==
  LET Twice(status, titles) == Flaky(Pair(status, titles), None).value
      good == Twice(Primary.status, Primary.titles)
  IN  Direct("report_flaky", good,
             {Twice(Flipped(Primary.status), Primary.titles),
              Twice(Primary.status, Primary.titles \o <<"other">>),
              [good EXCEPT !.rate = 50], [good EXCEPT !.run_count = 3]},
             FlakyReportStatus)

Loaded == LoadFromTrace(RecordedRun(Primary)).value
MemoryTopStep == Direct("memory_top", MemoryTop(Loaded, 10), {}, MemoryTopStatus)
MemoryGraphStep ==
  LET node == <<"alloc", 1>>
      edge == [from |-> node, to |-> <<"alloc", 2>>, kind |-> "freed_by"]
  IN  Direct("memory_graph", Loaded.graph,
             {[nodes |-> <<node, node>>, edges |-> <<>>], [nodes |-> <<node>>, edges |-> <<edge>>]},
             MemoryGraphStatus)
MemoryDiffStep ==
  LET good  == MemoryDiff(Loaded, Loaded)
      other == [Loaded EXCEPT !.summary.peak_bytes = @ + 1]
  IN  Direct("memory_diff", good, {MemoryDiff(Loaded, other), [good EXCEPT !.leaked = 1]},
             MemoryDiffStatus)

Top == [warnings |-> <<>>, empty |-> <<>>, rows |-> {"cpu", "latency"}]
ProfileTop ==
  Direct("profile_top", Top,
         {[Top EXCEPT !.warnings = <<"w">>], [Top EXCEPT !.empty = <<"time">>],
          [Top EXCEPT !.empty = <<"io", "io">>]}, ProfileTopStatus)

Row == [metric |-> "p99_latency_ms", domain |-> "latency", class |-> "stable", significant |-> FALSE]
DiffOf(row) == [rows |-> <<row>>, domains |-> <<"latency">>, summary |-> DerivedSummary(<<row>>)]
Stable  == DiffOf(Row)
Worse   == DiffOf([Row EXCEPT !.class = "regression", !.significant = TRUE])
(* full holds the trace against the shrunk one, which may be faster; gate  *)
(* against its replay, which must be alike, if there was one.              *)
Faster  == DiffOf([Row EXCEPT !.class = "improvement"])
BadDiffs ==
  {Worse, [Stable EXCEPT !.rows = Worse.rows], [Faster EXCEPT !.summary = Stable.summary],
   [Stable EXCEPT !.domains = <<"io">>], DiffOf([Row EXCEPT !.significant = TRUE])}
ProfileDiffStep ==
  Full /\ Direct("profile_diff", Faster, BadDiffs, LAMBDA v : ProfileDiffStatus(v, FALSE))
GateProfileDiff ==
  /\ Gate
  /\ IF run.replayed
     THEN Direct("profile_diff", Stable, BadDiffs \cup {Faster},
                 LAMBDA v : ProfileDiffStatus(v, TRUE))
     ELSE AtStep("profile_diff") /\ Skipped(<<"profile_diff">>, "profile_explain")

(* Without a second run, as in a gate whose replay failed, no metric is    *)
(* named and no regression stated.                                         *)
Explained == [cause |-> "latency", shifted |-> Full \/ run.replayed,
              stated |-> Full \/ run.replayed, evidence |-> <<"metrics", "latency">>]
ProfileExplain == Direct("profile_explain", Explained, {}, ProfileExplainStatus)

-----------------------------------------------------------------------------
(* The extended surface. *)
FuzzRun == [PrimaryRun("Fuzz") EXCEPT !.trace = Trace(FALSE)]
FuzzStep ==
  IF Primary = None THEN AtStep("fuzz") /\ Skipped(<<"fuzz">>, "explore")
  ELSE \/ Supervised("fuzz", FuzzRun, Astray(FuzzRun),
                     LAMBDA s : RunSummaryPassStatus(s, Strict, "Fuzz"), Stays)
       \/ /\ AtStep("fuzz") /\ MayFail  \* its corpus directory cannot be made
          /\ RegisterTemp("fuzz")
          /\ steps' = Push("fuzz", "failed")
          /\ faulty' = faulty \cup {"fuzz"}
          /\ pc' = "explore"
          /\ UNCHANGED <<setup, waiting, aborted, run, disk, worker, unnoticed, exit>>

ExploreStep ==
  IF Distributed = None THEN AtStep("explore") /\ Skipped(<<"explore">>, "corpus_add")
  ELSE LET good == Summary(Distributed.status, "Explore", Distributed.warned, FALSE)
       IN  Supervised("explore", good, Astray(good),
                      LAMBDA s : RunSummaryPassStatus(s, Strict, "Explore"), Stays)

SeedEntry == [path |-> "seed.bin", size |-> 1]
BadEntries == {<<>>, <<[SeedEntry EXCEPT !.size = None]>>, <<[SeedEntry EXCEPT !.size = 0]>>}
CorpusDirFails ==
  /\ AtStep("corpus_add") /\ MayFail
  /\ RegisterTemp("corpus_add")
  /\ \E files \in SUBSET {"corpus"} : disk' = disk \cup files
  /\ steps' = steps \o [i \in DOMAIN CorpusNames |-> [name |-> CorpusNames[i], status |-> "failed"]]
  /\ faulty' = faulty \cup ToSet(CorpusNames)
  /\ pc' = "host_backends_run"
  /\ UNCHANGED <<setup, waiting, aborted, run, worker, unnoticed, exit>>
CorpusAdd ==
  Direct("corpus_add", [added |-> "full"], {[added |-> None], [added |-> "empty"]},
         CorpusAddStatus)
CorpusList == Direct("corpus_list", <<SeedEntry>>, BadEntries \cup {<<SeedEntry, SeedEntry>>}, CorpusListStatus)
Minimized == [files_before |-> 1, files_after |-> 1, removed |-> 0, bytes_before |-> 1,
              bytes_after |-> 1, bytes_removed |-> 0]
CorpusMinimize ==
  Direct("corpus_minimize", Minimized,
         {[Minimized EXCEPT !.files_after = 0, !.removed = 1], [Minimized EXCEPT !.removed = 1],
          [Minimized EXCEPT !.bytes_removed = 1]}, CorpusMinimizeStatus)
CorpusExport == Direct("corpus_export", Archive, BadZips, ZipArtifactStatus)
CorpusImport ==
  Direct("corpus_import", [dir |-> TRUE, entries |-> <<SeedEntry>>],
         {[dir |-> FALSE, entries |-> <<>>]} \cup {[dir |-> TRUE, entries |-> e] : e \in BadEntries},
         CorpusImportStatus)

HostBackends ==
  IF HostStep = None THEN AtStep("host_backends_run") /\ Skipped(<<"host_backends_run">>, "env")
  ELSE LET good == Summary(HostStep.status, "Run", HostStep.warned, TRUE)
       IN  Supervised("host_backends_run", good,
                      Astray(good) \cup {[good EXCEPT !.trace.host = FALSE],
                                         [good EXCEPT !.trace.file = "missing"]},
                      LAMBDA s : HostBackendsStatus(s, Strict), Stays)

Env ==
  /\ AtStep("env")
  /\ steps' = Push("env", EnvStepStatus(setup.backends))
  /\ pc' = "finish"
  /\ UNCHANGED <<setup, waiting, aborted, run, temps, disk, worker, faulty, unnoticed, exit>>

-----------------------------------------------------------------------------
(* What the checks do not look at.  They judge the form of an answer, and  *)
(* whether a run summary is that of its run: a well-formed answer about    *)
(* something else is let through, and so is one that shows nothing.        *)
Misses(name, values, Status(_), kept) ==
  /\ AtStep(name) /\ MayFail
  /\ RegisterTemp(name)
  /\ \E value \in values : steps' = Push(name, Status(value))
  /\ run' = kept
  /\ disk' = disk \cup WrittenBy(name)
  /\ unnoticed' = unnoticed \cup {name}
  /\ pc' = After(name)
  /\ UNCHANGED <<setup, waiting, aborted, worker, faulty, exit>>

(* A summary is asked for its trace by the checks of run_record_trace and  *)
(* shrink alone; that of host_backends_run looks at what the file shows.   *)
MissedTrace ==
  \/ Misses("test_det", BadTraces(TestRun), Tested, run)
  \/ Misses("test_det_strict", BadTraces(TestRun), Tested, run)
  \/ Misses("replay", BadTraces(PrimaryRun("Replay")), Replayed, [run EXCEPT !.replayed = Gate])
  \/ Misses("replay_shrunk", BadTraces([PrimaryRun("Replay") EXCEPT !.status = run.shrunk_status]),
            LAMBDA s : ReplaySummaryStatus(run.shrunk_status, s, Strict, "Replay"), run)
  \/ Primary # None /\ Misses("fuzz", BadTraces(PrimaryRun("Fuzz")),
                              LAMBDA s : RunSummaryPassStatus(s, Strict, "Fuzz"), run)
MissedOtherTrace ==
  \/ /\ Distributed # None
     /\ LET good == Summary(Distributed.status, "Explore", Distributed.warned, FALSE)
        IN  Misses("explore", BadTraces(good),
                   LAMBDA s : RunSummaryPassStatus(s, Strict, "Explore"), run)
  \/ /\ HostStep # None
     /\ LET good == Summary(HostStep.status, "Run", HostStep.warned, TRUE)
        IN  Misses("host_backends_run",
                   {[good EXCEPT !.trace.content = "other"], [good EXCEPT !.trace.reported = FALSE]},
                   LAMBDA s : HostBackendsStatus(s, Strict), run)

MissedInTrace ==
  \/ run.trace /\ ~Strict /\ Misses("trace_verify", {[Verified EXCEPT !.checksum_present = FALSE],
                                                    [Verified EXCEPT !.warned = TRUE]},
                                    LAMBDA v : TraceVerifyStatus(v, Strict), run)
  \/ Misses("ci", {[HealthyCi EXCEPT !.checks = <<@[1]>>]}, CiReportStatus, run)
  \/ Misses("memory_top", {[MemoryTop(Loaded, 10) EXCEPT !.total = 0]}, MemoryTopStatus, run)
  \/ Misses("memory_graph", {[nodes |-> <<>>, edges |-> <<>>]} \ {Loaded.graph},
            MemoryGraphStatus, run)
  \/ LET other == [Loaded EXCEPT !.summary.peak_bytes = @ + 1]
     IN  Misses("memory_diff", {MemoryDiff(other, other)}, MemoryDiffStatus, run)
  \/ Misses("profile_top", {[Top EXCEPT !.empty = <<"io">>, !.rows = {"latency"}]},
            ProfileTopStatus, run)
  \/ /\ Full \/ run.replayed
     /\ Misses("profile_diff", {DiffOf([Row EXCEPT !.metric = "p95_latency_ms"])},
               LAMBDA v : ProfileDiffStatus(v, Gate), run)
  \/ Misses("profile_explain", {[Explained EXCEPT !.cause = "disk"],
                                [Explained EXCEPT !.evidence = <<"metrics">>]},
            ProfileExplainStatus, run)

MissedInFiles ==
  \/ Misses("artifacts_ls", {<<[path |-> "other", size |-> 1, reported |-> 1]>>},
            ArtifactsListStatus, run)
  \/ \E name \in {"artifacts_export", "artifacts_pack", "corpus_export"} :
       Misses(name, {[Archive EXCEPT !.entries = 1]}, ZipArtifactStatus, run)
  \/ Misses("artifacts_diff", {[Deltas EXCEPT !.files = <<>>]}, ArtifactsDiffStatus, run)
  \/ Misses("report_show", {[Shown EXCEPT !.content = "other"]}, ReportShowStatus, run)
  \/ Misses("report_query_paths", {<<"other">>}, ReportQueryPathsStatus, run)
  \/ Misses("corpus_list", {<<[SeedEntry EXCEPT !.path = "other.bin"]>>}, CorpusListStatus, run)
  \/ Misses("corpus_minimize", {[Minimized EXCEPT !.files_before = 2, !.files_after = 2]},
            CorpusMinimizeStatus, run)
  \/ Misses("corpus_import", {[dir |-> TRUE, entries |-> <<[SeedEntry EXCEPT !.size = 2]>>]},
            CorpusImportStatus, run)

-----------------------------------------------------------------------------
(* The end: full's policies rewrite the steps, the temporary files are     *)
(* removed, and the exit code is 1 if a step is left failed.               *)
PolicyFiltered(step) ==
  IF /\ Full /\ step.name # "policy_conflict"
     /\ \/ setup.required # {} /\ step.name \notin setup.required
        \/ step.name \in setup.skip
  THEN [step EXCEPT !.status = "skipped"] ELSE step

AnyFailed(report) == \E i \in DOMAIN report : report[i].status = "failed"

Finish ==
  /\ AtStep("finish")
  /\ steps' = [i \in DOMAIN steps |-> PolicyFiltered(steps[i])]
  /\ exit' = IF AnyFailed(steps') THEN 1 ELSE 0
  /\ disk' = disk \ temps
  /\ pc' = "reported"
  /\ UNCHANGED <<setup, waiting, aborted, run, temps, worker, faulty, unnoticed>>

(* `fozzy ci` by itself: its verdict is its exit code. *)
CiCommand ==
  /\ AtStep("ci_command")
  /\ LET ci == CiEvaluate(setup.options, Ok(RecordedRun(Primary)), Ok(Verified),
                          Ok(RecordedRun(Primary)))
     IN  exit' = IF ci = Err THEN 2 ELSE IF ci.value.ok THEN 0 ELSE 1
  /\ pc' = "reported"
  /\ UNCHANGED <<setup, steps, waiting, aborted, run, temps, disk, worker, faulty, unnoticed>>

(* The process ends, and a thread that is still running with it. *)
Exit ==
  /\ AtStep("reported")
  /\ pc' = "exited"
  /\ worker' = None
  /\ UNCHANGED <<setup, steps, waiting, aborted, run, temps, disk, faulty, unnoticed, exit>>

-----------------------------------------------------------------------------
(* None stands for what is absent: it names no step, is no file and tells  *)
(* of no memory.  The rest of a setup is what a project and a command line *)
(* can be.                                                                 *)
ASSUME AbsenceAssumption == None \notin ToSet(FullMenu)
ASSUME SetupsAssumption ==
  \A s \in Setups :
    /\ s.command \in {"full", "gate", "ci"} /\ s.git \in DOMAIN GitStatus /\ s.doctor_runs \in Nat
    /\ Len(s.files) \in Nat /\ DOMAIN s.files = 1..Len(s.files)
    /\ \A i \in DOMAIN s.files :
         /\ None \notin {s.files[i], MemoryOf(s, s.files[i]), MemoryOf(s, s.files[i]).summary}
         /\ s.files[i].name # "other" /\ s.files[i].peak \in Nat
         /\ s.files[i].titles \in Seq(STRING \ {"other"})

WorkflowInit ==
  /\ setup \in Setups
  /\ pc = IF setup.command = "ci" THEN "ci_command" ELSE "clean_tree"
  /\ steps = <<>> /\ waiting = None /\ aborted = FALSE
  /\ run = [cwd |-> "project", trace |-> FALSE, status |-> None, shrunk_status |-> None,
            replayed |-> FALSE, classification |-> None]
  /\ temps = {} /\ disk = {} /\ worker = None /\ faulty = {} /\ unnoticed = {} /\ exit = None

Step ==
  \/ CleanTree \/ PolicyConflict \/ UsageAndVersion \/ InitCheck \/ InitCannotReturn
  \/ DiscoverScenarios \/ TopologyCoverage \/ GateDiscover \/ ScopeMatch
  \/ DoctorDeep \/ GateDoctor \/ TestDet \/ TestDetStrict \/ RunRecordTrace \/ GateRecord
  \/ NoTrace \/ GateNoTrace \/ TraceVerify \/ Replay \/ GateReplay \/ Ci \/ GateCi \/ Shrink \/ ReplayShrunk
  \/ ArtifactsLs \/ ArtifactsExport \/ ArtifactsPack \/ ArtifactsDiff
  \/ ReportShow \/ ReportQuery \/ ReportQueryPaths \/ ReportFlaky
  \/ MemoryTopStep \/ MemoryGraphStep \/ MemoryDiffStep
  \/ ProfileTop \/ ProfileDiffStep \/ GateProfileDiff \/ ProfileExplain
  \/ FuzzStep \/ ExploreStep \/ CorpusDirFails \/ CorpusAdd \/ CorpusList \/ CorpusMinimize
  \/ CorpusExport \/ CorpusImport \/ HostBackends \/ Env
  \/ MissedTrace \/ MissedOtherTrace \/ MissedInTrace \/ MissedInFiles
  \/ GiveUp \/ Finish \/ CiCommand \/ Exit

WorkflowNext == Step \/ WorkerEnds

WorkflowSpec == WorkflowInit /\ [][WorkflowNext]_workflow_vars

(* The main thread runs and the deadline of a wait passes; a thread that   *)
(* was given up on need not end.                                           *)
WorkflowFairSpec == WorkflowSpec /\ WF_workflow_vars(Step)

-----------------------------------------------------------------------------
(* A workflow pushes every step of its surface exactly once and in order,  *)
(* a refused combination of policies after the first, whatever is missing  *)
(* and whatever fails, so that no step can be left out in silence; only an *)
(* aborted one, or a gate without a scenario in scope, ends early, at a    *)
(* step that failed.                                                       *)
Surface == IF Full /\ Conflict THEN <<Menu[1], "policy_conflict">> \o Tail(Menu) ELSE Menu
StepsCoverMenu ==
  pc \in {"finish", "reported", "exited"} /\ setup.command # "ci" =>
    /\ Names(steps) = SubSeq(Surface, 1, Len(steps))
    /\ pc = "finish" /\ Len(steps) < Len(Surface) => Last(steps).status = "failed"

(* Exit code 0 without step policies means that no step lost an error, a   *)
(* missed deadline or a wrong answer of a kind its check looks at (the     *)
(* sets beside the steps), but where a scenario does not pass: its steps   *)
(* were told that it did, each of them.  It says nothing of the answers    *)
(* the checks do not look at (`unnoticed`), which are let through.         *)
RanScenario ==
  IF Gate THEN {"test_det_strict", "run_record_trace", "replay"}
  ELSE {"test_det", "run_record_trace", "replay", "shrink", "report_query", "fuzz"}
       \cup (IF Distributed = None THEN {} ELSE {"explore"})
       \cup (IF HostStep = None THEN {} ELSE {"host_backends_run"})
Outcome(name) ==
  CASE name \in {"test_det", "test_det_strict"} -> TestRun.status
    [] name = "explore"                         -> Distributed.status
    [] name = "host_backends_run"               -> HostStep.status
    [] OTHER                                    -> Primary.status
GreenMeansVerified ==
  exit = 0 /\ setup.command # "ci" /\ setup.skip = {} /\ setup.required = {} =>
    faulty = {n \in RanScenario : Outcome(n) # "pass"}

(* src/cli_workflows/profile.rs:193 and its likes: exit code 0 means that  *)
(* every answer was healthy, also where the checks do not look.  It is not *)
(* so: each action that fills `unnoticed` refutes it.                      *)
GreenMeansHealthy ==
  exit = 0 /\ setup.command # "ci" /\ setup.skip = {} /\ setup.required = {} =>
    unnoticed = {} /\ GreenMeansVerified

(* Nothing is left in the temporary directory but what a thread that was   *)
(* given up on wrote after the files were removed.                         *)
OwnFilesRemoved ==
  pc \in {"reported", "exited"} => \E n \in ToSet(FullMenu) : disk \subseteq WrittenBy(n)

(* A full workflow ends although a command never answers. *)
FullEnds == Full ~> (pc = "exited")

(* CLI.md:94: --require-topology-coverage enforces that hotspots have      *)
(* coverage: exit code 0 only after the step passed.                       *)
TopologyIsEnforced ==
  Full /\ setup.topology /\ exit = 0 =>
    [name |-> "topology_coverage", status |-> "passed"] \in ToSet(steps)

=============================================================================
