# Fozzy, specified

TLA+ specifications of Fozzy (this repository, `src/`), checked with TLC and,
for the theorems listed below, proved with the TLA+ proof system. Paths of
source files are relative to the repository root.

## 1. The system and its parts

Fozzy runs scenarios (lists of steps over simulated or real capabilities),
records the choices a run made in a trace, and replays, shrinks, verifies and
reports on such traces. One command is one process; processes meet only in the
file system (`.fozzy/`, trace files, corpora).

| part (source) | state it keeps | operations | hard because |
|---|---|---|---|
| scenario engine (`src/runtime/engine`) | `ExecCtx`: generator, virtual clock, key-value store, process rules, network queue and inboxes, memory, decision log, replay cursor | run a scenario; replay its trace | a replay must take from the log exactly what the recording put there, through errors, nested blocks and timeouts |
| memory capability (`src/runtime/memorycap.rs`) | live table, counters, timeline, graph, options | allocate, free, checkpoint, setters, finalize | saturating counters, options that change in between, a policy applied at the end |
| host processes (`src/runtime/host.rs`) | child, two reader threads with buffers and channels, deadline | `dispatch_host_proc` | four concurrent actors, limits, kills, blocking waits |
| explore engine (`src/modes/explore`) | nodes with versioned stores, network rules, queue, decisions | script steps, pick and deliver, invariants, replay, shrink | delivery order is the strategy's, faults and cut-offs, budgets and deadlines |
| trace files (`src/runtime/tracefile.rs`) | `*.fozzy` files and their `.lock` files | write under a collision policy, read, verify | several processes, kills, stale locks |
| suite runner (`src/runtime/test_runner.rs`) | worker threads, a channel, an outcome, traces | serial and parallel suites, fail-fast, recording | timing of the workers must not show |
| alias index and artifacts (`src/cmd/artifact_*.rs`, `src/runtime/finalize.rs`) | run directories, `run-alias-index.json`, a cache | end a run, resolve `latest`, `last-pass`, `last-fail` | several processes and kills, a file that is truncated and then written |
| fuzzer (`src/modes/fuzz`) | corpus, coverage, crash counter | mutate, execute, persist, minimize | what a refused trace or an early stop leaves behind |
| file and http steps (`src/runtime/engine/exec/file_http.rs`, `fs.rs`) | virtual files and snapshots; on the host the paths touched and the snapshots of them; in a replay an overlay | write, read, snapshot, restore, request | the directory is shared with other programs, the server answers as it likes, and a replay has only the log |
| flows (`src/runtime/run_flow.rs`) | - | run, replay, shrink | shrinking has to keep the failure |
| gate, full and ci workflows (`src/cli_workflows`, `src/cmd/ci.rs`) | the list of steps and their results, temporary files, threads given up on | run the commands above in order and judge what they answer | a skipped step must not look like a pass; commands that never answer |
| profiles (`src/cmd/profile`) | - | rebuild a profile from a trace; compare, explain | the numbers are derived twice, by the command and by the workflow that checks it |
| corpus commands (`src/cmd/corpus`) | the corpus directory, staging and temporary files, an archive | add, minimize, export, import | kills, budgets and damaged archives between two changes of the disk, beside a session that writes |
| report, memory, map commands (`src/cmd`) | files they read | views | statistics |
| platform, command line, schema, usage, scaffold, SDK | - | parsing, formatting, templates | - |

How they meet: the command line hands a scenario to a flow; the flow builds an
`ExecCtx` and drives the scenario engine, which calls the memory capability and,
on a host backend, the host processes. `finalize` writes report, manifest and
alias index, and the trace through `write_trace_with_policy`. The suite runner
does this for many scenarios from worker threads; the explore engine and the
fuzzer have loops of their own and share the finalization. Workflows start the
commands as child processes and read the JSON they print.

What makes each part correct:

* scenario engine: a pass means every step ran; a replay ends as the recording
  did; the log tells what became of every message and draw;
* memory: counters, live table, graph and timeline are four views of one
  history, and a run passes only within its leak policy;
* host processes: a completed call has all the output, a timed-out call leaves
  nothing behind, and the deadline ends every call;
* explore: no message is lost or duplicated, replicas converge (up to ties), a
  run ends, a replay repeats it;
* trace files: recording is atomic under each policy; at most one writer holds a
  target; a lock left behind goes away;
* suite runner: the report, the seeds and the traces do not depend on timing,
  and a suite ends;
* alias index: it names only complete runs, loses none, and an alias is answered
  with the newest run it accepts;
* file and http steps: a replay ends as the recording did whatever the host does
  meanwhile; from inside a scenario the host's files look like the virtual ones;
* workflows: every step is reported, in order; green means that wherever the
  scenarios pass no command failed, missed its deadline or answered wrongly in what
  the checks look at; nothing is left behind, and a full workflow ends;
* fuzzer: a crash keeps its input, unless a kill tore that file, and a trace that
  fails again; a report names a trace that is there; a session ends;
* shrink: the result still ends as the original did, nothing more can be dropped
  from it, and the trace written is a run of it;
* corpus: what a file has held stays in a file, but for what a budget, a kill or a
  session that writes behind a command takes away; a file named by a hash holds
  what was hashed;
* profiles: the rebuilt memory is the recorder's, the commands' verdicts are
  accepted by the checks of the workflows, and doing more is never a gain.

## 2. Modules

| module | models | instance |
|---|---|---|
| `MemoryCap` | `MemoryState`, the `memory_*` steps, the fuzz loop's calls, the leak policy of `ExecCtx::finish` | `MCMemoryCap` |
| `TraceStore` | abstract: recording is one change of the directory | - |
| `TraceRecord` | `write_trace_with_policy`, one file-system call per action | `MCTraceRecord` |
| `Replicas` | abstract: what the simulated store promises | - |
| `Explore` | `run_explore_inner`, script steps, strategies, invariants | with `ExploreReplay` |
| `ExploreReplay` | a run of `Explore`, then `run_explore_replay_inner` over its decisions or, of a failed run, over a trial of its shrink | `MCExploreReplay` |
| `HostProc` | `dispatch_host_proc`, its readers, the child, an heir of its pipes | itself |
| `Scenario` | a recording by `run_embedded_scenario_inner`, then `run_scenario_replay_inner` over its log | `MCScenario` |
| `AliasIndex` | `write_summary_report`, `update_run_alias_index`, `resolve_filtered_run_alias` by several processes | itself |
| `TestRunner` | `run_tests`, `run_serial_tests`, `run_parallel_tests`, `write_test_traces` | itself |
| `VirtualFiles` | abstract: files and snapshots that the scenario alone writes | - |
| `HostIo` | the file and http steps on the virtual and on the host backends, then the replay of their log | itself |
| `Checks` | the `*_status` functions: how the workflows judge what a command answered | - |
| `Reports` | doctor's audit, `report flaky`, the memory views, `ci_evaluate` | - |
| `Workflow` | `fozzy full`, `fozzy gate` and `fozzy ci`: every step, its deadline, the abort, the policies, the temporary files | `MCWorkflow` |
| `Profiles` | a recorded run, its heap, latency and metrics profile, `profile diff`, `top` and `explain` | itself |
| `Shrink` | the loop of `minimize_input`, `shrink_trace_inner`, `shrink_fuzz_trace`, `shrink_explore_trace` and `profile shrink` | with `Fuzz` |
| `Fuzz` | `fuzz`: sessions on one corpus and one `--record` path; replay's verdict | `MCFuzz` |
| `Corpus` | `fozzy corpus add`, `minimize`, `export`, `import`, beside a session that keeps inputs | `MCCorpus` |
| `MemoryProofs`, `FinalizeProofs`, `ExploreProofs`, `ThreadProofs`, `ScenarioProofs`, `HostIoProofs`, `FuzzProofs`, `CommandProofs` | the theorems | - |

`ExploreReplay` extends `Explore`; `Explore` implements `Replicas` (same
variables `kv`, `ver`, `puts`); `TraceRecord` implements `TraceStore` (same
variable `files`); `HostIo` implements `VirtualFiles` (whose files are the
virtual ones or the directory, and whose snapshots are completed with the paths
not touched). `Fuzz` extends `Shrink`: a crash to be minimized is a job of it, and
`fozzy shrink` is a behaviour of `Fuzz` without a session. `Checks` is the common
ground of the workflows: `Reports` extends it, `Workflow` extends `Reports` and
judges answers made with its operators, `Profiles` extends `Checks` and holds what
it computes against them. `MemoryCap` and `Checks` take what stands for a value that
is not there from `Absent`.
A definition whose comment begins with `mutant` is a wrong
version of the definition below it: with it in place of the right one TLC
refutes a property, which shows that the property depends on that code.

### State and actions against the code

* `MemoryCap`. One variable per field of `MemoryState` that any property needs.
  `AllocOk` and `AllocFail` are the branches of `allocate`; the hash that decides
  on fragmentation is an arbitrary member of `FragPcts`. A failed step stops a
  scenario and does not stop the fuzz loop. `finalize`'s sum wraps
  (`LeakedBytes`) or, in a debug build, panics (`FinishPanic`).
* `TraceRecord`. `pc[w]` is the file-system call a process makes next:
  `exists` and `read_dir` (`resolve_record_target`), `open`, `stat`, `remove`,
  `reopen` (`acquire_record_lock`), `write`, `rename` (`write_json`), `unlock`
  (`Drop`). `Kill` may strike at any of them; `Age` lets a lock pass its 300 s.
  `setting` says, once for a behaviour, which policies are used, whether locks
  age, whether recorders overlap, and whether they keep coming.
* `Explore`. Nodes are numbers in the order of their names; the queue is a set
  because ids only grow. The script runs first, then `Deliver` is one turn of
  the loop, invariants included. `puts` is a history variable.
* `HostProc`. `pc` is the dispatcher's place in its loop, one action per call it
  makes; `Read`, `ReadEnd`, `Return` are a reader thread; `Write`, `Close`,
  `Exit` the processes outside; `tidy` says that the child holds its streams until
  it exits. `recv_timeout(1s)` is taken to be long enough for
  a reader to empty a pipe that nobody holds open.
* `Scenario`. `Settle` is how every step ends: the decisions it logged, the
  cursor, and either success or a finding, inside a block or outside. The random
  generator is a stream of small values that is the same for the recording and
  the replay; `Compared` are the decisions a replay computes anew and compares
  (`rand`, `sleep`, `advance`), the others are taken from the trace.
* `AliasIndex`. `orderly` says whether processes overlap and are killed or run one
  after the other. `std::fs::write` is two actions, truncate and write; a write over
  a longer file another process wrote since leaves a file that does not parse.
* `TestRunner`. A scenario ends in a verdict: pass, fail, error (no run), panic.
  The main thread's `recv` is `Receive`, and it waits when nothing is there.
  `queue` is the channel, `results` what came out of it (`parallel_results`), `seeds`
  a history. `Merge` is one round of the loop over the sorted results: it takes the
  one with the least number left. `KthInOrder` is the second sort, by ordinal,
  before the traces are written.
* `HostIo`. A behaviour is a scenario whose steps are chosen as it goes, of file
  steps or of http steps. `Virtual`, `Host` and `Replayed` are the three ways
  `exec_fs_*` may go: simulated, on the host, answered by the log
  (`replay_peek`). `touched`, `saves` are `host_fs_touched`,
  `host_fs_snapshots`; `overlay` is `replay_host_fs`, keyed once by the
  scenario's path and once by the full one, as the code does. `Meddle` is
  another program; a server's answer is any body, a timeout or an error.
* `Workflow`. `pc` is the name of the next step. A command's answer is a healthy
  value or, at most `max_faults` times, one of the wrong ones listed beside the
  step, an error, or none: `Supervised` is `run_with_timeout` with its thread
  (`waiting`, and `worker` once it was given up on), `Direct` a plain call.
  `Answers` decides, `Checks` judges. Files are told apart by their kind, their
  name's preference, their scope and the status of their scenario. `run.cwd`
  is the working directory of the whole process, which `init` changes. `faulty` is
  the history of the wrong answers of a kind the checks look at, `unnoticed` of those
  they let through: `Misses` is a step answered so, and `MissedTrace`,
  `MissedOtherTrace`, `MissedInTrace`, `MissedInFiles` list the answers.
* `Profiles`. A step of a run is recorded as `drive_scenario` does it. A profile
  is a function of the events; an f64 that can be a fraction (a rate, a mean) is
  kept as numerator and denominator, and thresholds are compared by cross
  multiplication. Times of the host are left out: they never change a verdict,
  because a single trace has no spread to judge them by.
* `Shrink`. A job says what is shrunk (bytes, steps, decisions, then the setup
  steps). `verdicts` is what every sequence run so far ended as: it is chosen at the
  first run and never changes, because these runs are deterministic. `chunk` and
  `index` are the two loops; `Try`, `TrySlowly` (a fresh exploration that is given
  two seconds) and `Skip` are one trial, `Expire` the deadline, which is looked at
  between trials, `WriteSteps`, `WriteRerun`, `WriteSetup` the last run and trace.
  `RunFails` is a run that cannot be made: it ends the whole shrink, which writes
  nothing.
* `Fuzz`. `stage` is the next change of the disk: cover (a corpus input), input,
  trace, report, minimize. `disk` holds corpus, crash and minimized inputs (files and
  what they hold), traces, locks and reports, and outlives a session; `log` is the
  history of the crashes. `Kill` strikes between any two changes, and between creating
  and writing a file (`Tear`); `Persist` leaves a file alone that is there.
* `Corpus`. A path is a kind and what tells it from others; the payload of an
  `input` is part of its path, as its hash is of the name. An action is one
  change of the disk: `cmd` is the command's place in its loop, `staged` the staging
  directory of minimize, `left` what killed ones leave, `writing` the file a
  session has created and not written, which another command may have unlinked since.

## 3. Runs

Every run names its bounds in its `.cfg`. Deadlock is not checked: all of these
systems stop when their command ends. The type invariants of `MemoryCap`,
`TraceRecord`, `Explore` and `HostProc` are proved (section 4) and not run.

| run | bounds | shows |
|---|---|---|
| `MemoryCap` | 4 calls; `MaxU64` 1000, sizes 20 and 600; limit, failure point, wave, seed and budget each on or off | counters, live table and graph agree, at the ceiling of the counters too; a pass is within the leak policy |
| `Record` | 3 processes of one recording each, 1 kill, names up to `.2`; the three settings of `MCSettings` | mutual exclusion while no lock goes stale; refinement of `TraceStore` when recordings do not overlap, kills and stale locks included; an abandoned lock is removed by recorders that keep coming |
| `Explore` | 3 nodes and a name that is none, 1 key, 2 values, 3 script steps of which 2 writes, 4 strategies, with and without a budget of 1, a deadline, 4 sets of checks; then the replay | conservation, convergence, refinement of `Replicas`, termination, and a replay that repeats the run |
| `HostProc` | limit 1 byte, pipe of 2, 2 bytes per stream, an heir of the streams, early closes | what each result guarantees; the deadline ends the call of a tidy child |
| `Scenario` | scenarios of up to 4 steps of the network menu, 3 of the menus of time, processes and blocks, 2 of the time menu stopped early (`--until`); polls of 1 and of 0 | a pass ran every step within its timeout; a replay reproduces; logs tell the truth; runs end unless they poll for ever |
| `AliasIndex` | 2 runs that end at 2 times, 1 reader; overlapping and killed, or in order | an index that parses is sound; answers are complete runs; in order, nothing is lost and answers are the newest |
| `TestRunner` | suites of up to 3 scenarios, up to 3 threads, 3 policies and no recording | report, seeds and traces do not depend on timing, and a suite ends |
| `HostIo` | 4 file steps or 3 http steps; 3 paths of which 1 leads out of the directory, 2 contents, 2 snapshots, 2 bodies; the directory empty or not, 1 write of another program | a replay ends as its recording did, at the same step and time and with the same body; refinement of `VirtualFiles` |
| `Workflow` | the 44 projects and command lines of `MCWorkflow`; up to 3 wrong answers, seen or unnoticed | the surface is reported whole and in order; exit code 0 means answers that are healthy in what the checks look at; temporary files go; full ends |
| `Profiles` | 4 steps in runs of any length, 2 runs in a group, 2 callsites, allocations of 2 bytes, sleeps of 5 ms | the profile agrees with the recorder; the checks accept the reports; more is never better |
| `Fuzz` | 2 sessions of up to 2 runs, bytes 0 and 1, inputs of up to 1 byte (4 where inputs are minimized), 13 mixes of options, kills; or one shrink of up to 5 items, 4 setup steps | a crash keeps a trace that fails again and its input, whole but for a kill; reports name traces; a shrink is sound; both end |
| `Corpus` | 3 commands, each of which may be killed, 2 inputs of a session, payloads `x`, `y` and the empty one, the 6 settings of `MCCorpora` | what a file has held is kept, exports and imports are whole, names tell contents |

Two or three steps are enough for the cases that matter here (a write that
overtakes another, a lock found stale twice, a draw after a delivery), and every
bound leaves room for at least one step more than the shortest such case. The
byte quantities of `MemoryCap` matter only relative to the limits and to
`MaxU64`: two of the larger size exceed it, the smaller one never does. In
`Scenario` a timeout of 2 or 6 can be passed exactly and by more, and one of 0 is
used up before the first step. `Record`
reaches the largest number of a name, where both the code and `TraceStore`
saturate. With three nodes a message to one can be overtaken by a later one to
the same node while a third is cut off, and two nodes can write the same version.
Four file steps are one more than a snapshot needs to go wrong (write, snapshot,
write elsewhere, restore). `Workflow` has one project for every condition a step
branches on; two wrong answers are enough for a fault that hides another one
(a step that fails and the abort that follows). Four steps of `Profiles` are two
runs of two, so that an allocation can be live in one group and freed in the
other; whether a change is significant depends on ratios only, and sizes of one
kind already give ratios on both sides of every threshold. Two sessions are one to
leave something behind and one to meet it; five items go through chunks of three,
two and one, with a shorter chunk at the end. Three commands of `Corpus` are an export, a minimize
that is killed and an import, and two payloads are one that is there twice and one that
is being written.

### What does not hold

These properties are stated in the modules and in none of the configurations,
because the code does not keep them; TLC refutes each when its name is added to the
configuration of its module:

| property | sentence | what happens |
|---|---|---|
| `AppendKeepsBoth` (`TraceRecord`) | `append (keep both)` (`tracefile.rs:421`) | the number is chosen before the lock is taken (`tracefile.rs:431`), two recorders that overlap take one |
| `ReplayReproducesFailure` (`ExploreReplay`) | every failure can be replayed (`README.md:18`) | the replay delivers once more than `--steps` allowed (`explore/exec.rs:167`) |
| `ReaderNotReportedLost` (`HostProc`) | `host proc run should pass` (`tests/cli_parity/host_backends/proc_backend.rs:27`) | an end of stream is polled, forgotten, and then reported as lost (`host.rs:325`) |
| `DeadlineEndsEveryCall` (`HostProc`) | hung processes time out promptly (`FIXES.md:159`) | a child that closed its streams is waited for without a deadline (`host.rs:328`) |
| `ReplayKeepsVerdict` (`Scenario`) | a replay reconstructs the recording (`README.md:25`) | a replayed delivery draws nothing, the next draw drifts (`proc_net.rs:516`) |
| `MinimizeRemovesOnlyDuplicates` (`Corpus`) | minimize "removes duplicate payloads" (`cmd/usage.rs:94`) | a `--budget` that runs out after the originals were removed removes the staged copies too (`corpus/ops.rs:134`); a session's input that is read empty (`corpus/ops.rs:77`) and then written is removed with what was written (`corpus/ops.rs:113`) |
| `CrashesAreWhole` (`Fuzz`) | a crash file is named by the hash of its input (`fuzz/corpus.rs:34`) | a session that is killed while it writes the file leaves it empty, and the next one that meets the crash leaves it so (`fuzz/corpus.rs:36`) |
| `GreenMeansHealthy` (`Workflow`) | full is the "end-to-end gate" (`CLI.md:90`): green means healthy | each answer of `MissedTrace` and its likes passes or is skipped: see `GreenMeansVerified` below |
| `ExportsCanBeImported` (`Corpus`) | export and import share cases across machines (`cmd/usage.rs:93`) | names that differ in case only are exported, and refused by import (`corpus/zip.rs:72`) |
| `FailureReplays` (`HostIo`) | every failure can be replayed (`README.md:18`) | a step the host refused logs nothing (`fs.rs:126`), and a replay does it in memory and passes; so does one whose rule did not fit, after it was logged (`file_http.rs:558`) |
| `TopologyIsEnforced` (`Workflow`, with `Setups <- MaskSetups`) | `--require-topology-coverage` enforces coverage (`CLI.md:94`) | a workflow that aborts before the step, with the steps required that are listed, has every step but these turned to skipped (`runner/shared.rs:118`) and exits with 0 |

The passing properties are conditional where the code is, and the conditions
name the other places where it does less than a reader may expect:

* `MutualExclusion` needs locks that do not outlive their 300 s: a stale lock is
  removed by name, and a second recorder that found the same stale lock removes
  the fresh lock of the first (`tracefile.rs:499`). `RecordingIsAtomic` needs
  recordings that do not overlap: under the `error` policy, too, the existence
  of the file is looked at before the lock is taken.
* `Converges` allows for ties and speaks of replicas and not of the check `kv_all_equal`,
  which skips the nodes before the first one that has the key
  (`invariants.rs:22`).
* `ReplayReproducesFinished` leaves out explorations that a budget cut short with
  messages left to deliver, and those a deadline ended: neither leaves a decision
  in the trace.
* `DeadlineEndsCall` speaks of children that hold their streams until they exit.
* `Replayable` of `Scenario` lists the recordings a replay cannot be relied on
  for: blocks that are expected to fail (they clear the decisions logged before
  them), sleeps outside `--det`, random deliveries together with random steps,
  `--until`, the loop's timeout, and process steps that fail before they are
  logged or that used up a rule. Any other recording is reproduced exactly
  (`ReplayableReproduces`).
* `PassIsEarned` leaves out the timeout of an empty scenario, which is looked at
  before and after a step only (`drivers.rs:100`, `drivers.rs:192`).
* `RunEnds` leaves out polls that wait for a virtual time that never comes
  (`PollsForEver`): outside `--det`, where they wait on the virtual clock and sleep on
  the real one (`memory.rs:374`), and with `poll: "0ms"` under it, where `sleep_poll`
  advances the clock by nothing. `validate_steps` only parses the duration, and 0 is
  one (`model/scenario.rs:535`).
* `NoUpdateIsLost` and `AnswersAreNewest` need processes that do not overlap: the
  index is read, changed and written without a lock (`CLI.md:214` advises
  explicit run ids where runs race), and truncated before it is written.
* `SuiteEnds` leaves out a parallel suite with a worker that panicked: the main
  thread holds a sender of its own and waits for it for ever.
* `MemoryIsAccounted` leaves out live sums beyond `u64`, which wrap in a release
  build (`memorycap.rs:277`).
* `ReplayReproduces` leaves out the failures of `Unlogged`, for the reason given
  above.
* `HostLooksVirtual` needs a directory that is empty at first and that nobody
  else writes: `host_fs_restore` removes every path touched since the snapshot,
  a path that was only read or overwritten and existed before included
  (`fs.rs:232`).
* `GreenMeansVerified` speaks of workflows without step policies, which are there to
  hide steps, and of what the checks look at. These answers they let through
  (`unnoticed`):
  * a summary whose trace is missing, of another run or not reported, of `test`,
    `replay`, `fuzz` and `explore`: `run_summary_pass_status` and
    `replay_summary_status` ask for none;
  * host backends: a trace of another run that shows host backends, or one that the
    summary does not name (`runner/full/extended_surface.rs:346`);
  * `trace_verify` without strict: a trace without a checksum or with warnings;
  * a report of `ci` with fewer checks;
  * `memory_top` without a total, `memory_graph` without nodes and edges
    (`checks/memory.rs:159`), `memory_diff` of another run;
  * `profile_top` with nothing to show (`cli_workflows/profile.rs:193`), `profile_diff`
    of another metric, and an explanation that explains nothing: the first and the
    last are skipped;
  * lists of other files, archives of fewer, a diff without files, a report of another
    run, corpus entries of another size or name: their form is right.

  A list of such answers cannot be complete; `MissedTrace` to `MissedInFiles` hold one
  or more for every check that has them.
* `FullEnds` is not claimed for gate: none of its steps has a deadline, and of
  full's the ones called directly have none either; they are taken to answer.
* `OwnFilesRemoved` allows for the files that one thread, given up on, writes after
  the removal.
* `ChecksAcceptReports`: the explanation of a single run names no metric and states
  no regression, so that its check always skips it. `MoreIsNeverBetter` leaves out the rate of
  allocation, which rises when a trace gets shorter, so that full may report a
  regression for a shrunk trace; it speaks of at most 11 spans.

* `FuzzKeepsCrashes` leaves out traces that another session may replace
  (`overwrite`), inputs the harness refused (they do not fail again when replayed
  alone), the crash that ends a session because the policy or a lock refused
  its trace (no other crash goes without one), and the input of a crash whose file an
  earlier session was killed while writing (`CutBefore`): it stays empty, while the
  trace of the crash holds the input. Corpus and minimized inputs are torn in the same
  way, and no property speaks of them. `--fail-on-leak` of a session
  (`fuzz/run.rs:322`) is not modelled.
* The passing trace of a distributed target recorded with `--mem-track` replays as
  `replay_memory_drift`; `Fuzz` makes no claim of it.
* `FuzzEnds` speaks of sessions with a number of runs or a time: without `--runs` and
  `--time` a session never ends.
* `ShrinkIsSound` speaks of a shrink that no deadline ended, and "as it did" means
  passing or not: `shrink_status_matches` does not ask for the same failure. The
  objective of `profile shrink` is not asked of the original (`run_flow.rs:405`) and
  ignored for fuzz and explore traces.
* `CorpusIsKept` leaves out what a minimize out of budget threw away (`gone`), what a
  session wrote to a file that a minimize had read empty and went on to remove, or to a
  file that an import replaced because it was not there when the import looked
  (`missed`), and with `CorpusIsCanonical` payloads (`torn`) whose file an add or a session was killed while
  writing: `fs::write` truncates the file `add` may have found, and a session never
  writes a file again that is there (`fuzz/corpus.rs:27`). What a killed minimize had staged is
  beside the corpus, and an import that failed leaves a temporary file that the next
  minimize takes for an input.

What else the models tell, and no property speaks of: a setup trial of `--minimize all`
that is cut off after two seconds may lead to a shrunk scenario beside a replay
of the unshrunk one (`explore/flows.rs:388`); the trace of a fuzz session without any
execution says that an input passed which was never run; `memory top` prints no field
`leaks`, which the check of full reads, so that any run with a peak and no leak
fails that step (`checks/memory.rs`), while `cmd/memory.rs:28` calls the command
"Show top leak records by leaked bytes"; `--allow-expected-failures`
(`cli_args.rs:560`) still fails `test_det` and `run_record_trace` unless step
policies hide them; `profile diff` never loads a cpu profile, so that a diff of
all domains, or with `--cpu` (`CLI.md:259`), is refused; the io row of `profile top`
counts no network events although the metric does; the check of the flake report
is not satisfied by runs whose findings differ only in order.

### Fairness

* `Explore`, `ExploreReplay`, `Scenario`: one thread that nothing blocks, hence
  weak fairness of the next step.
* `HostProc`: weak fairness of the dispatcher and of each reader thread (the
  operating system runs them) and of the passing of the deadline; none of the
  child, which is what the deadline is for.
* `TestRunner`: weak fairness of the main thread and of every worker that can
  step. A worker that panicked takes no step.
* `Workflow`: weak fairness of the main thread's step, the passing of a deadline
  it waits for included; none of the thread it gave up on.
* `Fuzz`, `Shrink`: weak fairness of the next step of the session or the shrink; none
  of a kill or of another session.
* `Corpus`: no liveness is claimed, no fairness assumed.
* `TraceRecord`: every process that is alive goes on, locks age, and in the
  setting of `AbandonedLockRecovered` (`setting.endless`) recorders keep coming.
  A recorder in the middle of a call is never slow for ever; one that is killed
  takes no step.

## 4. Theorems

Proved for every value of the constants, under the `ASSUME`s of the modules
(which TLC evaluates in the runs):

* `MemoryProofs`, of `MemoryCap`: `TypeCorrect`, `CountersBalance`, `GraphIsLive`,
  `MemoryAccounted`. The
  inductive invariant adds to the type invariant that ids below `next_alloc_id`
  and no others appear in nodes and edges, and that an edge into a free node
  exists only once its id is no longer live: without it a second free could
  repeat an edge. `MemoryAccounted` (what is in use is the sum of what is live) rests on a sum over the
  live table that a call changes in one entry: `SumOneOut`, from the library's
  definition of the sum alone, by the least number of entries for which it could fail.
* `FinalizeProofs`, of `TraceRecord`: `RecordTypeCorrect` and `RecordLockIsExclusive`.
  `LockInv` (where locks do not age, a process between `open` and `unlock` owns the
  lock of its target) is the invariant; without stale locks nobody but the owner
  removes a lock. `RecordingImplementsStore`: the refinement of `TraceStore`.
  `DecidedInv` says that the target of a recording in progress is still the one its
  policy asks for in the directory as it is, which holds because no other recorder is
  in a call (`OneRecorder`); the rename is then the abstract step, and every other
  call a stutter.
* `FinalizeProofs`, of `AliasIndex`: `IndexSound` and `AnswersCoherent` hold of any
  interleaving and any kill. `ArtifactsInv` (a process is past both artifacts before it
  names its run) and `SoundInv` (every list held in memory is sound, and so is the file
  when it parses) make up the invariant: a process may lose what another wrote, but
  whatever it writes was a sound list, and what is written stays written (`Grows`).
  `NoLostUpdate` and `AnswersNewest` need processes one after the other: `OInv` says
  that then the file, or the memory of the one process at work, names every completed
  run, and that a torn file has a process that is about to write it. That a finite
  set can be sorted, and what is left of a filtered list, are `SortedExists` and
  `RetainedFacts`.
* `ExploreProofs`, of `Explore`: `ExploreTypeCorrect`, `ValuesAreWrites`, and
  `ExploreRefinesReplicas`: a delivery maps to `Adopt` because a message in
  flight carries a write of `puts` (`QueueCarriesWrites`), a put to `Write`, and
  everything else to a stutter. `NoMessageLostOrDuplicated`: ids only grow, and an id
  leaves the queue for the decisions (`IdsInv`). `ReplicasConverge`: every other
  node has a write or something newer, or a message with that write is queued for
  it (`WritesTravel`, in `SpreadInv`); between linked nodes such a message could be delivered, so that
  at the end only the first is left.
* `ExploreProofs`, of `ExploreReplay`: `ReplaysNeverDrift`, `FinishedRunsReplay`, and `RecordedRunsAreExplorations`,
  by which what is proved of `Explore` holds of the recorded run. `HistoryInv` says
  that there is a history of stores and queues, one for each recorded decision, each from the
  one before by the delivery of the recorded message, and that the replay is
  somewhere in it. A trial of the shrink replays a subsequence of the decisions: its queue is
  the one at the start less what it took (`TrialInv`), so that the next id is in it.
* `ThreadProofs`, of `HostProc`: `HostProcTypeCorrect`, `CompletedIsComplete`,
  `TimedOutIsClean`. The invariant ties each byte written to the pipe, the
  buffer or a report of excess, and the message of a reader to the state of its
  stream.
* `ThreadProofs`, of `TestRunner`: `SuiteTypeCorrect`, `ReportsIgnoreSchedules` and
  `PlacesDecideSeedsAndTraces`, for suites of any length on any number of threads.
  `Tally` says that the outcome is that of the first so many scenarios, whatever
  their order of arrival. This is inductive because of `ThreadsInv`: the scenarios that
  are started and not in the outcome are with a worker, in the channel or received,
  in one place each, and the count of workers is exactly of those not received; when
  it is 0 all have been received, so that the least number left is the next of the
  suite (`NextIsFirst`). A suite with a panic in a parallel worker never gets there.
  `ProgressInv` says where a suite may stop, and that its counters give the place of
  a serial one (`SeedsFollowPlace` needs it). `SavedInv` holds because every trace has
  a name of its own.
* `ScenarioProofs`: `PassesAreEarned`, `TheLogTellsTheNetwork`, `ReplaysReproduceRecordings`.
  The first invariant (`OnTheWay`) says of a run on its way that it executed what
  lies behind it, has no finding, and in a deterministic recording has not used up
  its timeout at the head of the loop. The second (`Told`) says of the queue, the
  inboxes, the next id and the log together that picked and queued ids part the
  ids handed out, with no id twice, and that inboxes hold what was picked and not
  dropped; `NthIsOne` and `MinIsOne` are what it needs of the queue. The third is
  the one that costs. `Did` says what a step does and what it logs without looking
  at the generator, the rules or the host; a recording is a history of moments
  each of which came from the one before by `Did` (`RecordInv`). A replay is at one of
  these moments, its cursor just past the log of that moment (`ReplayInv`), and goes
  to the next, since each of its actions can only do what `Did` says when the next
  entries of the trace are what `Did` logged (`RepeatBasic`, `RepeatProc`,
  `RepeatNet`, `RepeatPoll`). Worlds are `Alike` up to the rules, and up to the
  place in the random stream where the scenario never asks for a random value: this is where
  the exception for random deliveries together with random steps comes from.
* `HostIoProofs`: `EveryFileIsTouched`, `HostImplementsVirtual`, `ReplaysReproduce`. A snapshot of
  the host keeps the paths touched so far, one of `VirtualFiles` keeps all: the two
  agree because in a recording that has the directory to itself an untouched path
  holds nothing, neither now nor in a snapshot (`FilesAreTouched`, the inductive
  invariant, with the types of the maps). A restore is the step that needs it.
  `ReplaysReproduce`: again there is a history, of the states (files, snapshots,
  rules, saved body, clock) a recording went through; `PassesTo` tells with which
  decision a step leads from one to the next, `EndsWith` with which it led to the
  outcome, and neither looks at the directory or the server. A replay that
  `LooksLike` the history at a step can only pass where the recording passed and
  end where it ended (`Repeats`, one lemma for each way a step may go).
* `FuzzProofs`: `ShrinkCorrect`, of `Shrink` alone, for any jobs. `NeededSoFar` is
  the heart of the inductive invariant: in the pass over single items every item
  before the index is known to be needed, because what a sequence ran to is never
  forgotten; dropping one begins another pass. A pass that drops nothing therefore
  ends on a minimal sequence. `MinimizingIsSound`: the same loop inside the sessions
  of `Fuzz`, whose jobs are the inputs of crashes; every mutation of an input is an
  input (`MutationsAreSeqs`), and a job that is killed is given up as a whole.
  `CrashesSurvive`: `FInv` says where a session is. `PathlessInv` and `LastInv`: only
  the last crash of a session may be without a trace, while it is `Pending` or because
  the session stopped on it. `KeptInv` and `CrashInv`: the files of every other crash
  are there, its input is whole or the log says that an earlier session was killed while it
  wrote it, and the input fails whenever it is run. The policies append and error
  take a path that is free (`TargetFacts`); under overwrite the path need not be, and
  `NumberedInv` says why it is not that of another crash of the session: its number is
  one no earlier crash had (`NumberedFacts`). What other sessions replace is what
  `Replaced` leaves out. `ReportsInv` adds that until a session stops its
  report is that of one of its crashes, so that neither another crash nor the trace of
  one makes it wrong.

* `MemoryProofs`, of `Profiles`: `HeapIsTheRecorders`, for any blocks, sites, waits
  and number of steps. The profile is read from the events alone, so the inductive
  invariant, `HeapInv`, is about what reading them gives: `Tally` compares the book
  of live and freed blocks with the recorder, block by block and in the sums, and an
  event of another kind leaves the book as it is (`StepNotes`). That the book of one
  event more is the book and what that event notes (`BookOneMore`) has to be proved
  of the fold that defines it; so has, of the sums, that the sites of a profile add
  up to its totals (`PartsAddUp`, `SitesAddUp`). Of `ChecksAcceptReports` two parts
  are proved: `SummaryIsDerived`, for any rows of a diff, and `RowsPassTheCheck`, for
  any change of a known domain.
* `CommandProofs`, of `Workflow`: `WorkflowsCoverTheirMenu`, `GreenWorkflowsAreVerified`
  and `WorkflowsRemoveTheirFiles`, for any projects and command lines, any number of
  wrong answers included. `WorkflowInductive` proves the inductive invariant,
  `WorkflowInv`, of which the last three parts say the most. `PlaceInv`: the steps
  pushed are a beginning of the surface, and the next step is the one after it in the
  menu (`Shift` is the place that a conflict of policies takes). `FilesInv`: until the
  end every temporary file, there or about to be written by a thread, has been named
  for removal; at the end at most one thread is left. `GreenInv`: as long as no step failed, every
  wrong answer in `faulty` told that a scenario passed that does not, and
  what later steps take from earlier ones (a recorded trace, a shrunk one, a replay) is
  there and passed. It is needed because what a step answers well depends on these: without
  it a wrong trace could make a later wrong answer look right. Every check of the
  workflows has a lemma that it sees each of the wrong answers listed beside its step
  (`BadSummaryRejected` to `BadDiffRejected`), and `PushingKeepsInv` says what every
  step has in common. An answer that no check looks into leaves the invariant as it is
  (`MissedKeepsInv`): the status a step is given is still true of its scenario, and
  nothing later steps need is taken from it. The assumptions: `None` is no number (`NoneAssumption`) and no
  step (`AbsenceAssumption`), and a setup is what a project and a command line can be
  (`SetupsAssumption`).
* `CommandProofs`, of `Corpus`: `CorpusCanonical` and `CorpusKept`. `NamesInv` says that the name
  of an input tells its contents unless that very file is being written or its
  writing was cut off, and so do the entries of every archive that an import may
  read; without the archives an import could bring in a file that lies.
  `MinimizeInv` follows what minimize has listed until only hashes are left as
  names. `KeptInv` adds that a file named by a hash is whole or empty, that what
  each command found is as it was, was seen, or is staged, and that every payload
  held is in a file, cut off, written behind the command, or what a running minimize
  still has to move.

A history is not a variable of the models: `HistoryInv` says that there is one, a
step of a recording picks it and extends it by one state, a step of a replay picks
it and keeps it.

The library's theorems of induction take an operator as a parameter and cannot be
used. What they would be used for (sums over finite sets, the least number of a
set, cardinalities) is proved by a counterexample of least size instead, which
`WFMin` of `WellFoundedInduction` provides.

Only model-checked are
* liveness, which is out of the prover's reach: `AbandonedLockRecovered`,
  `ExploreEnds`, `DeadlineEndsCall`, `RunEnds`, `SuiteEnds`, `FullEnds`, `FuzzEnds`;
* `ChecksAcceptReports` of `Profiles` as a whole: its rows are sorted, selected and
  joined by `SortSeq`, `SelectSeq` and `FlattenSeq`, of which the provers know
  nothing or which are recursive;
* `MoreIsNeverBetter` of `Profiles`, which is claimed of at most 11 spans: it is no
  theorem for every number of steps, as a p95 of more spans may leave out the longest.

## 5. Not modelled, and the plan

Modelled in part or not yet, in the order they would come next:

1. Artifacts: integrity of a bundle, export with failures, the cache keyed by
   length and modification time, the selectors by run id and path.
2. Scenario validation (`model/scenario.rs`), which the flows take to have passed.
3. `HostIo`: the scripted delay of an http rule, and failures of the disk itself.
4. Export and doctor of profiles; the heuristic scan behind `map` (a scan of source
   text, of which only the report is modelled).
5. The bytes of an archive (`corpus/zip.rs:82`) and the refusals of symbolic links.

Left out for good: argument parsing, output formats, schemas, usage text,
scaffolding and the TypeScript wrapper, which keep no state between commands.
