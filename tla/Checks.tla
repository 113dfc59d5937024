------------------------------- MODULE Checks -------------------------------
(***************************************************************************)
(* How `fozzy full` and `fozzy gate` judge what a command returned: the    *)
(* *_status functions of src/src/cli_workflows.  Each takes the report of  *)
(* one command and answers passed, failed, skipped or advisory; most of    *)
(* them derive the report's verdict a second time from its evidence and    *)
(* fail when the two differ.                                               *)
(*                                                                         *)
(* A value is modelled by what its check tells apart.  A blank string is   *)
(* "", any other is a word; paths are judged by what stands at them.       *)
(***************************************************************************)
EXTENDS Absent, Integers, Sequences, FiniteSets, SequencesExt, FiniteSetsExt

PassedIf(ok) == IF ok THEN "passed" ELSE "failed"
Distinct(seq) == IsInjective(seq)

-----------------------------------------------------------------------------
(* A run summary: its status and mode, whether its run id and its seed are *)
(* the expected ones, whether it passed with a checker's finding, how its  *)
(* report.json and manifest.json on disk compare with it ("same", "other"  *)
(* or "missing"), and what trace it names.                                 *)

EnforceStrictSummary(strict, s) == strict => ~(s.status = "pass" /\ s.warned)

(* checks/report.rs: the files behind a summary are those of this run. *)
SummaryArtifactIdentity(s) == s.report = "same" /\ s.manifest = "same"

Identified(s, strict, mode) ==
  EnforceStrictSummary(strict, s) /\ s.run_id # "" /\ s.seed = "expected" /\ s.mode = mode

RunSummaryPassStatus(s, strict, mode) ==
  PassedIf(s.status = "pass" /\ Identified(s, strict, mode) /\ SummaryArtifactIdentity(s))

SameClass(a, b) == (a = "pass") = (b = "pass")
(* A replay is held against the outcome class of what it replays. *)
ReplaySummaryStatus(expected, s, strict, mode) ==
  PassedIf(/\ expected # None /\ SameClass(expected, s.status)
           /\ Identified(s, strict, mode) /\ SummaryArtifactIdentity(s))

(* A file is "missing", a "dir", "empty" or "full". *)
FileArtifactStatus(file) == PassedIf(file = "full")
ZipArtifactStatus(zip) == PassedIf(zip.file = "full" /\ zip.parses /\ zip.entries > 0)

(* The trace a run says it wrote is there and tells of this very run. *)
TraceSummaryIdentity(s) == s.trace.file = "full" /\ s.trace.content = "same"
TraceEvidence(s) ==
  s.trace.reported /\ FileArtifactStatus(s.trace.file) = "passed" /\ TraceSummaryIdentity(s)

RecordedTraceStatus(s, strict, mode) ==
  PassedIf(RunSummaryPassStatus(s, strict, mode) = "passed" /\ TraceEvidence(s))

(* The shrunk run must pass, or, where failures are allowed for, end in    *)
(* the class of the run it was shrunk from; and why it did not.            *)
ShrinkAccepts(primary, s, allow) ==
  IF allow THEN primary # None /\ SameClass(primary, s.status) ELSE s.status = "pass"
ShrinkStepStatus(primary, s, strict, mode, allow) ==
  PassedIf(ShrinkAccepts(primary, s, allow) /\ Identified(s, strict, mode) /\ TraceEvidence(s))
ShrinkClassification(primary, s, strict, mode, allow) ==
  CASE allow /\ primary = None -> "primary_status_missing"
    [] ~ShrinkAccepts(primary, s, allow) ->
         IF allow THEN "expected_fail_class_mismatch" ELSE "policy_rejected_non_pass"
    [] s.run_id = ""              -> "run_identity_missing"
    [] s.seed # "expected"        -> "seed_mismatch"
    [] s.mode # mode              -> "mode_mismatch"
    [] s.trace.file # "full"      -> "out_trace_missing"
    [] ~s.trace.reported          -> "out_trace_identity_mismatch"
    [] s.trace.content # "same"   -> "out_trace_content_mismatch"
    [] ~EnforceStrictSummary(strict, s) -> "strict_policy_rejected"
    [] OTHER -> IF allow THEN "expected_fail_class_preserved" ELSE "pass_required_policy"

(* verify_trace_file's report, as the workflows judge it. *)
TraceVerifyStatus(v, strict) ==
  PassedIf(v.ok /\ (strict => v.checksum_present /\ v.checksum_valid /\ ~v.warned))

(* host_backed_trace_status: the trace shows an effect of the host. *)
HostBackedTraceStatus(s) == PassedIf(s.trace.file = "full" /\ s.trace.host)
HostBackendsStatus(s, strict) ==
  PassedIf(RunSummaryPassStatus(s, strict, "Run") = "passed" /\ HostBackedTraceStatus(s) = "passed")

-----------------------------------------------------------------------------
(* `fozzy report`. *)
ReportShowStatus(v) == PassedIf(v.format \in {"pretty", "junit", "html"} /\ v.content # "")
ReportQueryStatus(status) == PassedIf(status = "pass")
ReportQueryPathsStatus(paths) ==
  PassedIf(paths # <<>> /\ "" \notin ToSet(paths) /\ Distinct(paths))

(* The flake report's rows of titles, blank rows not counting as variants. *)
FlakyReportStatus(v) ==
  LET derived == \/ Cardinality(DOMAIN v.status_counts) > 1
                 \/ Cardinality(v.title_sets \ {{}}) > 1
  IN  PassedIf(/\ v.run_count > 0 /\ v.is_flaky = derived /\ ~v.is_flaky
               /\ IF derived THEN v.rate > 0 ELSE v.rate = 0
               /\ DOMAIN v.status_counts \subseteq {"pass", "fail", "error", "timeout"}
               /\ MapThenSumSet(LAMBDA k : v.status_counts[k], DOMAIN v.status_counts)
                    = v.run_count)

-----------------------------------------------------------------------------
(* `fozzy corpus` and `fozzy artifacts`.  A listed entry is a path with    *)
(* what stands there: its size, 0 for an empty file, None for no file.     *)
ListedFileOk(entry) == entry.size # None /\ entry.size > 0

CorpusAddStatus(v) == IF v.added = None THEN "failed" ELSE FileArtifactStatus(v.added)
CorpusListStatus(entries) ==
  PassedIf(/\ entries # <<>>
           /\ Distinct([i \in DOMAIN entries |-> entries[i].path])
           /\ \A i \in DOMAIN entries : entries[i].path # "" /\ ListedFileOk(entries[i]))
CorpusMinimizeStatus(v) ==
  PassedIf(/\ v.files_after \in 1..v.files_before
           /\ v.removed = v.files_before - v.files_after
           /\ v.bytes_before >= v.bytes_after
           /\ v.bytes_removed = v.bytes_before - v.bytes_after)
CorpusImportStatus(v) ==
  PassedIf(v.dir /\ v.entries # <<>> /\ \A i \in DOMAIN v.entries : ListedFileOk(v.entries[i]))

ArtifactsListStatus(entries) ==
  PassedIf(/\ CorpusListStatus(entries) = "passed"
           /\ \A i \in DOMAIN entries : entries[i].reported \in {None, entries[i].size})

(* A delta that is not one-sided may be unchanged only at one size. *)
DeltaOk(d) == /\ d.key # "" /\ (d.left # None \/ d.right # None)
              /\ d.changed \/ (d.left # None /\ d.left = d.right)
ArtifactsDiffStatus(v) ==
  PassedIf(/\ v.files # <<>> \/ v.report \/ v.trace
           /\ v.left # "" /\ v.right # ""
           /\ Distinct([i \in DOMAIN v.files |-> v.files[i].key])
           /\ \A i \in DOMAIN v.files : DeltaOk(v.files[i]))

-----------------------------------------------------------------------------
(* `fozzy memory`.  The check of top looks for rows named leaks, which the *)
(* command calls entries: only the total is left to judge by.              *)
MemoryTopStatus(v) ==
  PassedIf(/\ v.total = 0 /\ Len(v.leaks) <= v.total
           /\ Distinct([i \in DOMAIN v.leaks |-> v.leaks[i].id])
           /\ \A i \in DOMAIN v.leaks : v.leaks[i].id > 0 /\ v.leaks[i].bytes > 0)
MemoryDiffStatus(v) ==
  PassedIf(/\ v.leaked = 0 /\ v.allocs = 0 /\ v.peak = 0
           /\ v.left.leaked_bytes = v.right.leaked_bytes
           /\ v.left.leaked_allocs = v.right.leaked_allocs
           /\ v.left.peak_bytes = v.right.peak_bytes)
MemoryGraphStatus(v) ==
  IF v.nodes = <<>> /\ v.edges = <<>> THEN "skipped"
  ELSE PassedIf(/\ "" \notin ToSet(v.nodes) /\ Distinct(v.nodes) /\ Distinct(v.edges)
                /\ \A i \in DOMAIN v.edges :
                     {v.edges[i].from, v.edges[i].to} \subseteq ToSet(v.nodes)
                     /\ v.edges[i].kind # "")

-----------------------------------------------------------------------------
(* `fozzy env`, `fozzy ci` and `fozzy doctor`. *)
EnvStepStatus(env) ==
  PassedIf(/\ env.proc \in {"scripted", "host"} /\ env.http \in {"scripted", "host"}
           /\ env.fs \in {"virtual_overlay", "host"})

KnownCiCheckName ==
  {"trace_verify", "replay_outcome_class", "replay_warning_parity", "strict_warning_policy",
   "replay_memory_parity", "memory_policy", "artifacts_zip_integrity", "flake_budget",
   "perf_p99_budget"}
CiReportStatus(report) ==
  PassedIf(/\ report.ok /\ report.checks # <<>>
           /\ \A i \in DOMAIN report.checks :
                report.checks[i].ok /\ report.checks[i].name \in KnownCiCheckName
           /\ Distinct([i \in DOMAIN report.checks |-> report.checks[i].name]))

(* The audit tells of this scenario, this many runs and this seed, and its *)
(* verdict, its first mismatch and the issues agree.                       *)
AuditValid(audit, scenario, runs) ==
  /\ audit.scenario = scenario /\ audit.runs = runs /\ audit.seed = "expected"
  /\ Len(audit.signatures) = audit.runs /\ "" \notin ToSet(audit.signatures)
  /\ IF audit.consistent THEN audit.mismatch = None
     ELSE audit.mismatch # None /\ audit.mismatch \in 2..audit.runs
DoctorReportStatus(report, strict, scenario, runs) ==
  PassedIf(/\ report.ok /\ report.issues = <<>>
           /\ report.audit # None
           /\ AuditValid(report.audit, scenario, runs) /\ report.audit.consistent
           /\ ToSet(report.signals) \subseteq {"env"}
           /\ strict => report.signals = <<>>)

-----------------------------------------------------------------------------
(* `fozzy profile`.  What top shows of the latency is no array of rows,     *)
(* and its check does not count it.                                        *)
KnownProfileDomain == {"cpu", "heap", "latency", "io", "sched"}
ProfileTopStatus(v) ==
  IF \/ v.warnings # <<>>
     \/ \E i \in DOMAIN v.empty : v.empty[i] \notin KnownProfileDomain
     \/ ~Distinct(v.empty)
  THEN "failed"
  ELSE IF v.empty # <<>> /\ v.rows \subseteq {"latency"} THEN "skipped" ELSE "passed"

(* A row of a diff: its metric and that metric's domain, what became of    *)
(* it, whether that is significant.  The summary counts the rows, names    *)
(* the first metric that regressed and gives the verdict.                  *)
DerivedSummary(rows) ==
  LET regressed   == {i \in DOMAIN rows : rows[i].class = "regression"}
      significant == {i \in regressed : rows[i].significant}
      improved    == {i \in DOMAIN rows : rows[i].class = "improvement"}
  IN  [regressions |-> Cardinality(regressed), significant |-> Cardinality(significant),
       improvements |-> Cardinality(improved),
       top |-> IF regressed = {} THEN None ELSE rows[Min(regressed)].metric,
       verdict |-> IF significant # {} THEN "regression_detected"
                   ELSE IF regressed # {} THEN "minor_regression"
                   ELSE IF improved # {} THEN "improvement" ELSE "stable"]
RowOk(r) ==
  /\ r.domain \in KnownProfileDomain /\ r.class \in {"regression", "improvement", "stable"}
  /\ r.class = "stable" => ~r.significant
ProfileDiffConsistent(v) ==
  /\ v.summary = DerivedSummary(v.rows)
  /\ \A i \in DOMAIN v.rows : RowOk(v.rows[i])
  /\ Distinct([i \in DOMAIN v.rows |-> v.rows[i].metric])
  /\ Distinct(v.domains) /\ ToSet(v.domains) = {v.rows[i].domain : i \in DOMAIN v.rows}
ProfileDiffStatus(v, requireStable) ==
  PassedIf(/\ v.summary.verdict \in {"stable", "improvement"} /\ ProfileDiffConsistent(v)
           /\ requireStable => v.summary.verdict = "stable")

(* An explanation never fails the workflow: what it cannot use is skipped. *)
ProfileExplainStatus(v) ==
  IF /\ v.cause \in KnownProfileDomain /\ v.shifted /\ v.stated
     /\ "metrics" \in ToSet(v.evidence) /\ Distinct(v.evidence)
     /\ v.cause \in {"cpu", "heap", "latency"} => v.cause \in ToSet(v.evidence)
     /\ ToSet(v.evidence) \subseteq {"metrics", "cpu", "heap", "latency"}
  THEN "passed" ELSE "skipped"

-----------------------------------------------------------------------------
(* `fozzy map suites`.  A hotspot's suites: those required, those covered  *)
(* by evidence and those missing must partition, and be recommended.       *)
SuiteOk(suite) ==
  /\ suite.hotspot # ""
  /\ Distinct(suite.required) /\ Distinct(suite.covered) /\ Distinct(suite.missing)
  /\ LET required == ToSet(suite.required)
         covered  == ToSet(suite.covered)
         missing  == ToSet(suite.missing)
     IN  /\ covered = suite.evidence
         /\ required = covered \cup missing /\ covered \cap missing = {}
         /\ required \subseteq suite.recommended
         /\ suite.is_covered = (~suite.by_policy \/ missing = {})
TopologyCoverageStatus(report) ==
  PassedIf(/\ report.required > 0 /\ report.covered = report.required
           /\ report.uncovered = report.required - report.covered
           /\ report.root = "expected" /\ ~report.warned
           /\ report.suites # <<>> /\ report.returned = Len(report.suites)
           /\ report.returned <= report.total
           /\ report.truncated = (report.returned < report.total)
           /\ Distinct([i \in DOMAIN report.suites |-> report.suites[i].hotspot])
           /\ \A i \in DOMAIN report.suites : SuiteOk(report.suites[i]))

=============================================================================
