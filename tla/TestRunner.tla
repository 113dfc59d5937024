----------------------------- MODULE TestRunner -----------------------------
(***************************************************************************)
(* `fozzy test` (src/src/runtime/test_runner.rs): the scenarios of a suite *)
(* run one after the other, or on up to `jobs` worker threads that send    *)
(* their results to the main thread over a channel; then the traces are  *)
(* written, then the report.  The scenario a worker runs is Scenario.tla's *)
(* business: here it ends in a verdict,                                    *)
(*   pass, fail   a run with that status,                                  *)
(*   error        no run (run_scenario_inner returns Err),                 *)
(*   panic        the thread that runs it unwinds.                         *)
(* Scenarios are numbered from 1; the code's ordinal is the number less 1. *)
(***************************************************************************)
EXTENDS Naturals, Sequences, FiniteSets, SequencesExt, FiniteSetsExt

CONSTANTS
  MaxScenarios,  \* the longest suite
  MaxJobs,       \* the largest --jobs
  Verdicts,      \* the verdicts the scenarios of a suite may have
  Policies,      \* --record with its collision policy; "none" is no --record
  Old            \* a trace that an earlier recording left

ASSUME BoundsAssumption == MaxScenarios \in Nat \ {0} /\ MaxJobs \in Nat \ {0}
ASSUME VerdictsAssumption == Verdicts \subseteq {"pass", "fail", "error", "panic"}
ASSUME PoliciesAssumption == Policies \subseteq {"none", "overwrite", "error", "append"}
ASSUME OldAssumption == Old \notin 1..MaxScenarios

VARIABLES
  suite,      \* number -> verdict, the scenarios in the order of their paths
  jobs, failFast, policy,   \* the options
  phase,      \* run, traces, report; done, aborted (Err) or crashed (panic)
  next,       \* the number of the next scenario to start
  inFlight,   \* the count the main thread keeps of its workers
  worker,     \* number -> idle, running, sent or dead
  queue,      \* the channel: the numbers whose results are sent and not received
  results,    \* parallel_results, the numbers received, in that order
  seeds,      \* number -> the ordinal its seed was derived from, plus 1; or 0
  outcome,    \* TestOutcome: passed, failed, findings by kind, trace_runs
  saved,      \* how many of the traces are written
  disk,       \* 0 (the base path) or k (<base>.<k>) -> the traces of that name:
              \* the file itself, then the ones appended beside it
  report      \* the outcome report.json shows, <<>> before it is written

options == <<suite, jobs, failFast, policy>>
threads == <<inFlight, worker, queue, results>>
output  == <<saved, disk, report>>
suite_vars == <<options, phase, next, threads, seeds, outcome, output>>

Size == Len(suite)
Names == 0..MaxScenarios
Jobs == IF failFast THEN 1 ELSE jobs
Serial == Jobs = 1 \/ Size <= 1

-----------------------------------------------------------------------------
NoOutcome == [passed |-> 0, failed |-> 0, failures |-> 0, errors |-> 0, traces |-> <<>>]

SuiteInit ==
  /\ suite \in UNION {[1..n -> Verdicts] : n \in 1..MaxScenarios}
  /\ jobs \in 1..MaxJobs /\ failFast \in BOOLEAN /\ policy \in Policies
  /\ phase = "run" /\ next = 1 /\ inFlight = 0
  /\ worker = [i \in DOMAIN suite |-> "idle"]
  /\ queue = <<>> /\ results = <<>>
  /\ seeds = [i \in DOMAIN suite |-> 0]
  /\ outcome = NoOutcome
  /\ saved = 0
  /\ disk \in {[n \in Names |-> IF n \in old THEN <<Old>> ELSE <<>>] :
                 old \in {{}, {0}, {2}}}
  /\ report = <<>>

TracesWith(traces, i) == Append(traces, i)

(* TestOutcome::record_run and record_worker_error. *)
RecordRun(out, i) ==
  [out EXCEPT !.passed = IF suite[i] = "pass" THEN @ + 1 ELSE @,
              !.failed = IF suite[i] = "pass" THEN @ ELSE @ + 1,
              !.failures = IF suite[i] = "pass" THEN @ ELSE @ + 1,
              !.traces = IF policy = "none" THEN @ ELSE TracesWith(@, i)]
RecordWorkerErrorSilently(out) == [out EXCEPT !.errors = @ + 1]   \* mutant
RecordWorkerError(out) == [out EXCEPT !.failed = @ + 1, !.errors = @ + 1]

PassedRuns == outcome.passed   \* mutant
TotalRuns == outcome.passed + outcome.failed

-----------------------------------------------------------------------------
(* run_serial_tests: a scenario without a run ends the command with its    *)
(* error; a panic ends the process.                                        *)
RunSerial ==
  /\ phase = "run" /\ Serial
  /\ seeds' = [seeds EXCEPT ![next] = TotalRuns + 1]
  /\ CASE suite[next] = "panic" -> phase' = "crashed" /\ UNCHANGED outcome
       [] suite[next] = "error" -> phase' = "aborted" /\ UNCHANGED outcome
       [] OTHER ->
            /\ outcome' = RecordRun(outcome, next)
            /\ phase' = IF next = Size \/ (failFast /\ outcome'.failed > 0)
                        THEN "traces" ELSE "run"
  /\ next' = next + 1
  /\ UNCHANGED <<options, threads, output>>

(* run_parallel_tests: the main thread starts workers while it may, ...    *)
MaySpawn == next <= Size /\ inFlight < Jobs

SpawnWorker ==
  /\ phase = "run" /\ ~Serial /\ MaySpawn
  /\ worker' = [worker EXCEPT ![next] = "running"]
  /\ seeds' = [seeds EXCEPT ![next] = next]
  /\ next' = next + 1 /\ inFlight' = inFlight + 1
  /\ UNCHANGED <<options, phase, queue, results, outcome, output>>

\* mutant: the worker unwraps its result
UnwindsOnError(i) == suite[i] \in {"panic", "error"}
Unwinds(i) == suite[i] = "panic"

(* ... a worker sends what it has, unless it unwinds first, ...            *)
Work(i) ==
  /\ worker[i] = "running"
  /\ IF Unwinds(i)
     THEN worker' = [worker EXCEPT ![i] = "dead"] /\ UNCHANGED queue
     ELSE worker' = [worker EXCEPT ![i] = "sent"] /\ queue' = Append(queue, i)
  /\ UNCHANGED <<options, phase, next, inFlight, results, seeds, outcome, output>>

(* ... and the main thread waits for a result when it can start no more.   *)
(* It holds a sender itself: the wait never ends for want of senders.      *)
Receive ==
  /\ phase = "run" /\ ~Serial /\ ~MaySpawn /\ inFlight > 0 /\ queue # <<>>
  /\ results' = Append(results, Head(queue))
  /\ queue' = Tail(queue)
  /\ inFlight' = inFlight - 1
  /\ UNCHANGED <<options, phase, next, worker, seeds, outcome, output>>

(* The results, sorted by their ordinals, go into the outcome one by one.  *)
FirstArrived(arrived) == 1   \* mutant: they are not sorted
FirstInOrder(arrived) ==
  CHOOSE k \in DOMAIN arrived : \A l \in DOMAIN arrived : arrived[k] <= arrived[l]

Merge ==
  /\ phase = "run" /\ ~Serial /\ next > Size /\ inFlight = 0
  /\ LET k == FirstInOrder(results)
         i == results[k]
     IN  /\ outcome' = IF suite[i] = "error" THEN RecordWorkerError(outcome)
                       ELSE RecordRun(outcome, i)
         /\ results' = RemoveAt(results, k)
  /\ phase' = IF results' = <<>> THEN "traces" ELSE "run"
  /\ UNCHANGED <<options, next, inFlight, worker, queue, seeds, output>>

-----------------------------------------------------------------------------
(* write_test_traces sorts the runs by their ordinals once more (they are  *)
(* in that order already); a single run is recorded under the path that    *)
(* was asked for, several under its numbered names.                        *)
\* mutant: sorted the other way round
KthFromLast(runs, k) ==
  CHOOSE i \in ToSet(runs) : Cardinality({j \in ToSet(runs) : j > i}) = k - 1
KthInOrder(runs, k) ==
  CHOOSE i \in ToSet(runs) : Cardinality({j \in ToSet(runs) : j < i}) = k - 1
FilesWith(files, trace) ==
  IF policy = "overwrite" /\ files # <<>> THEN <<trace>> \o Tail(files)
  ELSE Append(files, trace)
Target(k) == IF Len(outcome.traces) = 1 THEN 0 ELSE k

WriteTrace ==
  /\ phase = "traces" /\ saved < Len(outcome.traces)
  /\ LET k == saved + 1
         name == Target(k)
         trace == KthInOrder(outcome.traces, k)
     IN  IF policy = "error" /\ disk[name] # <<>>
         THEN phase' = "aborted" /\ UNCHANGED <<saved, disk>>
         ELSE /\ disk' = [disk EXCEPT ![name] = FilesWith(@, trace)]
              /\ saved' = k
              /\ UNCHANGED phase
  /\ UNCHANGED <<options, next, threads, seeds, outcome, report>>

WriteReport ==
  /\ phase = "traces" /\ saved = Len(outcome.traces)
  /\ report' = [status |-> IF outcome.failed = 0 THEN "pass" ELSE "fail",
                passed |-> outcome.passed, failed |-> outcome.failed,
                failures |-> outcome.failures, errors |-> outcome.errors]
  /\ phase' = "done"
  /\ UNCHANGED <<options, next, threads, seeds, outcome, saved, disk>>

SuiteNext ==
  \/ RunSerial \/ SpawnWorker \/ Receive \/ Merge \/ WriteTrace \/ WriteReport
  \/ \E i \in DOMAIN suite : Work(i)

SuiteSpec == SuiteInit /\ [][SuiteNext]_suite_vars

(* The main thread keeps going, and so does every worker that can. *)
MainStep == RunSerial \/ SpawnWorker \/ Receive \/ Merge \/ WriteTrace \/ WriteReport
SuiteFairSpec ==
  /\ SuiteSpec
  /\ WF_suite_vars(MainStep)
  /\ \A i \in 1..MaxScenarios : WF_suite_vars(i \in DOMAIN suite /\ Work(i))

-----------------------------------------------------------------------------

(* The numbers of the scenarios that run: all, or up to the first that     *)
(* does not pass.                                                          *)
Ran == IF failFast
       THEN {i \in DOMAIN suite : \A j \in 1..(i - 1) : suite[j] = "pass"}
       ELSE DOMAIN suite
Count(verdict) == Cardinality({i \in Ran : suite[i] = verdict})

(* The report says what the suite's scenarios did and nothing of the order *)
(* in which their workers ended, nor of --jobs.                            *)
ReportIgnoresSchedule ==
  phase = "done" =>
    report = [status |-> IF \A i \in Ran : suite[i] = "pass" THEN "pass" ELSE "fail",
              passed |-> Count("pass"), failed |-> Count("fail") + Count("error"),
              failures |-> Count("fail"), errors |-> Count("error")]

(* A scenario's seed comes from its place in the suite, whether the suite  *)
(* runs serially (where the place is read off the counters of the outcome) *)
(* or in parallel: --jobs does not change what a scenario draws.           *)
SeedsFollowPlace == \A i \in DOMAIN suite : seeds[i] \in {0, i}

(* The outcome takes the runs of a suite in the order of the suite (that   *)
(* of the report's findings), their traces are written in that order, each *)
(* under its own name, and a report is written only when all of them are:  *)
(* a suite that stops at a collision leaves the first of them.             *)
TracesKeepOrder ==
  phase \in {"traces", "done", "aborted"} /\ saved > 0 =>
    /\ \A j, k \in DOMAIN outcome.traces : j < k => outcome.traces[j] < outcome.traces[k]
    /\ ToSet(outcome.traces) = {i \in Ran : suite[i] \in {"pass", "fail"}}
    /\ \A k \in 1..saved : outcome.traces[k] \in ToSet(disk[Target(k)])
    /\ phase = "done" => saved = Len(outcome.traces)

(* What a scenario drew and where its trace is depend on its place in the   *)
(* suite only.                                                             *)
PlacesDecide == SeedsFollowPlace /\ TracesKeepOrder

(* Every suite ends, whatever its workers' timing, unless a scenario of a  *)
(* parallel suite panics: its worker sends nothing, and the main thread,   *)
(* which holds a sender of the channel itself, waits for it for ever.      *)
SuiteEnds ==
  <>(\/ phase \in {"done", "aborted", "crashed"}
     \/ ~Serial /\ \E i \in DOMAIN suite : suite[i] = "panic")

=============================================================================
