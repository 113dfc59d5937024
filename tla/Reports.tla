------------------------------- MODULE Reports -------------------------------
(***************************************************************************)
(* What the reporting commands compute from recorded runs: the determinism *)
(* audit of doctor, the flake rate of several runs, the checks of ci, and  *)
(* the views memory gives of a trace.                                      *)
(***************************************************************************)
EXTENDS Checks

Ok(value) == [result |-> "ok", value |-> value]
Err       == [result |-> "err"]

-----------------------------------------------------------------------------
(* `fozzy doctor --deep`: the runs' signatures against the first one's.    *)
FirstMismatch(sigs) ==
  LET differ == {i \in DOMAIN sigs : sigs[i] # sigs[1]}
  IN  IF differ = {} THEN None ELSE Min(differ)

Doctor(scenario, sigs, unmatched, env) ==
  LET mismatch == FirstMismatch(sigs)
      issues   == (IF unmatched THEN <<"proc_unmatched_preflight">> ELSE <<>>)
                  \o (IF mismatch = None THEN <<>> ELSE <<"determinism_audit_mismatch">>)
  IN  [ok |-> issues = <<>>, issues |-> issues, signals |-> env,
       audit |-> [scenario |-> scenario, runs |-> Len(sigs), seed |-> "expected",
                  signatures |-> sigs, consistent |-> mismatch = None, mismatch |-> mismatch]]

-----------------------------------------------------------------------------
(* `fozzy report flaky` over runs [id, status, titles].  A set of findings *)
(* counts once whatever its order, while the rate compares them in order.  *)
SharePct(part, total) == ((total - part) * 100) \div total

Flaky(runs, budget) ==
  LET statuses      == {runs[i].status : i \in DOMAIN runs}
      signature(i)  == <<runs[i].status, runs[i].titles>>
      alike(i)      == {j \in DOMAIN runs : signature(j) = signature(i)}
      dominant      == Max({Cardinality(alike(i)) : i \in DOMAIN runs})
      rate          == SharePct(dominant, Len(runs))
      sets          == {ToSet(runs[i].titles) : i \in DOMAIN runs}
  IN  IF \/ Len(runs) < 2
         \/ ~Distinct([i \in DOMAIN runs |-> runs[i].id])
         \/ budget # None /\ rate > budget
      THEN Err
      ELSE Ok([run_count |-> Len(runs), title_sets |-> sets, rate |-> rate,
               status_counts |-> [s \in statuses |->
                                    Cardinality({i \in DOMAIN runs : runs[i].status = s})],
               is_flaky |-> Cardinality(statuses) > 1 \/ Cardinality(sets) > 1])

-----------------------------------------------------------------------------
(* `fozzy memory` on a trace: its leaks, its peak and its graph.  A trace  *)
(* has no timeline, so a view of it has no peaks of host processes.        *)
LoadFromTrace(trace) ==
  IF trace.memory = None THEN Err
  ELSE Ok([summary |-> trace.memory.summary, leaks |-> trace.memory.leaks,
           timeline |-> <<>>, graph |-> trace.memory.graph])

MemoryTopEntries(bundle) ==
  LET leaks == [i \in DOMAIN bundle.leaks |->
                  [kind |-> "leak", bytes |-> bundle.leaks[i].bytes]]
      peaks == SelectSeq(bundle.timeline, LAMBDA e : e.kind = "host_proc_peak" /\ e.bytes > 0)
      peak  == [kind |-> "peak", bytes |-> bundle.summary.peak_bytes]
      rows  == IF leaks \o peaks = <<>> /\ peak.bytes > 0 THEN <<peak>> ELSE leaks \o peaks
  IN  SortSeq(rows, LAMBDA a, b : a.bytes > b.bytes)

(* The rows are called entries; nothing is called leaks. *)
MemoryTop(bundle, limit) ==
  LET rows == MemoryTopEntries(bundle)
  IN  [total |-> Len(rows), entries |-> SubSeq(rows, 1, Min({limit, Len(rows)})),
       leaks |-> <<>>]

MemoryDiff(l, r) ==
  [left |-> l.summary, right |-> r.summary,
   leaked |-> r.summary.leaked_bytes - l.summary.leaked_bytes,
   allocs |-> r.summary.leaked_allocs - l.summary.leaked_allocs,
   peak   |-> r.summary.peak_bytes - l.summary.peak_bytes]

-----------------------------------------------------------------------------
(* `fozzy ci`: a trace, its verification and its replay.  An argument that *)
(* does not fit, or a part that cannot be had, is an error of the command; *)
(* a check that does not hold is a verdict.                                *)
Check(name, ok) == [name |-> name, ok |-> ok]

LeakAllowed(memory) ==
  IF memory.fail_on_leak THEN memory.summary.leaked_bytes = 0
  ELSE memory.leak_budget = None \/ memory.summary.leaked_bytes <= memory.leak_budget

MemorySummary(run) == IF run.memory = None THEN None ELSE run.memory.summary

CiChecks(strict, trace, verify, replay) ==
  << Check("trace_verify", TraceVerifyStatus(verify, strict) = "passed"),
     Check("replay_outcome_class", SameClass(trace.status, replay.status)),
     Check("replay_warning_parity", trace.warnings = replay.warnings),
     Check("strict_warning_policy", strict => trace.warnings = <<>>),
     Check("replay_memory_parity", MemorySummary(trace) = MemorySummary(replay)) >>
  \o (IF trace.memory = None THEN <<>>
      ELSE << Check("memory_policy", LeakAllowed(trace.memory)) >>)
  \o << Check("artifacts_zip_integrity", TRUE) >>

FlakeChecks(opt) ==
  IF opt.flake_runs = <<>> THEN Ok(<<>>)
  ELSE LET flaky == Flaky(opt.flake_runs, opt.flake_budget)
       IN  IF flaky = Err THEN Err ELSE Ok(<< Check("flake_budget", TRUE) >>)

(* perf is the growth of p99 latency against the baseline, if it is given. *)
PerfChecks(opt) ==
  IF opt.perf = None \/ opt.max_p99 = None THEN <<>>
  ELSE << Check("perf_p99_budget", opt.perf <= opt.max_p99) >>

CiEvaluate(opt, trace, verify, replay) ==
  IF \/ opt.flake_budget # None /\ opt.flake_runs = <<>>
     \/ opt.max_p99 # None /\ opt.perf = None
     \/ trace.result = "err" \/ verify.result = "err" \/ replay.result = "err"
     \/ FlakeChecks(opt) = Err
  THEN Err
  ELSE LET checks == CiChecks(opt.strict, trace.value, verify.value, replay.value)
                     \o FlakeChecks(opt).value \o PerfChecks(opt)
       IN  Ok([ok |-> \A i \in DOMAIN checks : checks[i].ok, checks |-> checks])

=============================================================================
