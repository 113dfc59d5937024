----------------------------- MODULE MemoryCap -----------------------------
(***************************************************************************)
(* The memory capability (src/src/runtime/memorycap.rs): the accounting a  *)
(* scenario's memory_* steps and the fuzz loop drive, and the leak policy  *)
(* ExecCtx::finish applies to it.                                          *)
(*                                                                         *)
(* Two callers exist and a run has exactly one of them.  A scenario calls  *)
(* allocate, free, checkpoint and the setters one step at a time and stops *)
(* at the first step that fails.  The fuzz loop allocates and frees once   *)
(* per input and goes on after a failed allocation.                        *)
(***************************************************************************)
EXTENDS Absent, Naturals, Sequences, FiniteSets, FiniteSetsExt

CONSTANTS
  MaxU64,          \* the largest u64: every byte quantity saturates here
  Sizes,           \* requested sizes
  Callsites,       \* callsite hashes
  Limits,          \* memory limits, in bytes (limit_mb * 2^20, saturated)
  FailAfters,      \* values of fail_after_allocs
  Waves,           \* pressure waves, as parse_pressure_wave returns them
  Seeds,           \* fragmentation seeds
  FragPcts,        \* what the hash of (seed, alloc_ops, requested) gives modulo 31
  Budgets,         \* leak budgets, in bytes
  HostPeaks,       \* resident peaks sampled of host processes
  MaxOps           \* bound on the calls of one run

ASSUME U64Assumption  == MaxU64 \in Nat
ASSUME BytesAssumption ==
  /\ Sizes \subseteq 0..MaxU64
  /\ Limits \subseteq 0..MaxU64
  /\ Budgets \subseteq 0..MaxU64
  /\ HostPeaks \subseteq 0..MaxU64
  /\ FailAfters \subseteq Nat
  /\ Seeds \subseteq Nat
ASSUME WaveAssumption == Waves \subseteq Seq(1..MaxU64)
ASSUME FragAssumption == FragPcts \subseteq 0..30

VARIABLES
  caller,      \* "scenario" or "fuzz"
  phase,       \* "running", "stopped" (a step failed, or the steps ended), "done"
  limit, fail_after, wave, seed,   \* the options the setters change
  fail_on_leak, leak_budget,       \* the leak policy, fixed at the start
  next_alloc_id, alloc_ops, in_use_bytes, peak_bytes, free_count,
  failed_alloc_count,
  live,        \* alloc id -> effective bytes
  timeline,    \* the entries pushed, as <<kind, alloc id>> (0 when none)
  nodes,       \* graph_nodes, as <<kind, id or callsite>>
  edges,       \* graph_edges, as <<from, to>>; the kind follows from the ends
  status,      \* "pass", "fail" or "panic"
  findings     \* titles reported

options  == <<limit, fail_after, wave, seed>>
policy   == <<caller, fail_on_leak, leak_budget>>
counters == <<next_alloc_id, alloc_ops, free_count, failed_alloc_count>>
usage    == <<in_use_bytes, peak_bytes, live>>
graph    == <<nodes, edges>>
verdict  == <<phase, status, findings>>
vars == <<options, policy, counters, usage, graph, verdict, timeline>>

-----------------------------------------------------------------------------
(* u64 arithmetic: saturating_add, saturating_sub, saturating_mul, max.    *)
AddUnchecked(a, b) == a + b   \* mutant: no saturation
SatAdd(a, b) == IF a + b > MaxU64 THEN MaxU64 ELSE a + b
SatSub(a, b) == IF a < b THEN 0 ELSE a - b
SatMul(a, b) == IF a * b > MaxU64 THEN MaxU64 ELSE a * b
Larger(a, b) == IF a < b THEN b ELSE a

(* effective_alloc_bytes: n is alloc_ops once the current call is counted; *)
(* pct stands for the hash, which only counts under a fragmentation seed.  *)
Scaled(requested, n) ==
  IF wave = <<>> THEN requested
  ELSE SatMul(requested, wave[((n - 1) % Len(wave)) + 1])

EffectiveAllocBytes(requested, n, pct) ==
  LET scaled == Scaled(requested, n)
  IN  IF seed = None THEN scaled
      ELSE SatAdd(scaled, SatMul(scaled, pct) \div 100)

AllocNode(id)    == <<"alloc", id>>
FreeNodeAsAlloc(id) == <<"alloc", id>>   \* mutant: the node kinds mixed up
FreeNode(id)     == <<"free", id>>
CallsiteNode(cs) == <<"callsite", cs>>

(* The reason allocate refuses the request, in the order it looks. *)
FailedReason(eff, n) ==
  CASE limit # None /\ SatAdd(in_use_bytes, eff) > limit -> "limit_mb"
    [] ~(limit # None /\ SatAdd(in_use_bytes, eff) > limit)
       /\ fail_after # None /\ n > fail_after -> "fail_after_allocs"
    [] OTHER -> "none"

Pushed(kind, id) == Append(timeline, <<kind, id>>)

-----------------------------------------------------------------------------
Init ==
  /\ caller \in {"scenario", "fuzz"}
  /\ phase = "running"
  /\ limit \in Limits \cup {None}
  /\ fail_after \in FailAfters \cup {None}
  /\ wave \in Waves \cup {<<>>}
  /\ seed \in Seeds \cup {None}
  /\ fail_on_leak \in BOOLEAN
  /\ leak_budget \in Budgets \cup {None}
  /\ next_alloc_id = 1
  /\ alloc_ops = 0 /\ in_use_bytes = 0 /\ peak_bytes = 0
  /\ free_count = 0 /\ failed_alloc_count = 0
  /\ live = [id \in {} |-> 0]
  /\ timeline = <<>>
  /\ nodes = {} /\ edges = <<>>
  /\ status = "pass" /\ findings = {}

Busy == phase = "running" /\ Len(timeline) < MaxOps

(* allocate, the branch that hands out an id. *)
AllocOk(b, cs, pct) ==
  LET eff == EffectiveAllocBytes(b, alloc_ops + 1, pct)
      id  == next_alloc_id
  IN  /\ FailedReason(eff, alloc_ops + 1) = "none"
      /\ alloc_ops' = alloc_ops + 1
      /\ next_alloc_id' = id + 1
      /\ in_use_bytes' = SatAdd(in_use_bytes, eff)
      /\ peak_bytes' = Larger(peak_bytes, in_use_bytes')
      /\ live' = [i \in DOMAIN live \cup {id} |-> IF i = id THEN eff ELSE live[i]]
      /\ timeline' = Pushed("alloc", id)
      /\ nodes' = nodes \cup {AllocNode(id), CallsiteNode(cs)}
      /\ edges' = Append(edges, <<CallsiteNode(cs), AllocNode(id)>>)
      /\ UNCHANGED <<free_count, failed_alloc_count>>

\* mutant: a refused call is not counted
AllocFailUncounted(b, pct) ==
  /\ FailedReason(EffectiveAllocBytes(b, alloc_ops + 1, pct), alloc_ops + 1) # "none"
  /\ failed_alloc_count' = failed_alloc_count + 1
  /\ timeline' = Pushed("alloc_fail", 0)
  /\ UNCHANGED <<alloc_ops, next_alloc_id, free_count, usage, graph>>

(* allocate, the two branches that refuse: limit_mb, then fail_after_allocs. *)
AllocFail(b, pct) ==
  /\ FailedReason(EffectiveAllocBytes(b, alloc_ops + 1, pct), alloc_ops + 1) # "none"
  /\ alloc_ops' = alloc_ops + 1
  /\ failed_alloc_count' = failed_alloc_count + 1
  /\ timeline' = Pushed("alloc_fail", 0)
  /\ UNCHANGED <<next_alloc_id, free_count, usage, graph>>

(* A memory_alloc step; a refusal fails the step, and with it the run. *)
StepAlloc(b, cs, pct) ==
  /\ Busy /\ caller = "scenario"
  /\ \/ AllocOk(b, cs, pct) /\ UNCHANGED verdict
     \/ /\ AllocFail(b, pct)
        /\ phase' = "stopped" /\ status' = "fail"
        /\ findings' = findings \cup {"memory_alloc_failed"}
  /\ UNCHANGED <<options, policy>>

\* mutant: charged by the pressure wave in force when it is freed
FreedUnderWave(id) == Scaled(live[id], alloc_ops + 1)
(* What free takes off the counter: what allocate stored with the id. *)
FreedBytes(id) == live[id]

(* A memory_free step whose id is live. *)
StepFree(id) ==
  /\ Busy /\ caller = "scenario"
  /\ id \in DOMAIN live
  /\ live' = [i \in DOMAIN live \ {id} |-> live[i]]
  /\ free_count' = free_count + 1
  /\ in_use_bytes' = SatSub(in_use_bytes, FreedBytes(id))
  /\ timeline' = Pushed("free", id)
  /\ nodes' = nodes \cup {FreeNode(id)}
  /\ edges' = Append(edges, <<AllocNode(id), FreeNode(id)>>)
  /\ UNCHANGED <<options, policy, verdict, peak_bytes, next_alloc_id,
                 alloc_ops, failed_alloc_count>>

(* A memory_free step whose id is not live: reported, and the run fails. *)
StepFreeMissing(id) ==
  /\ Busy /\ caller = "scenario"
  /\ id \notin DOMAIN live
  /\ timeline' = Pushed("free_missing", id)
  /\ phase' = "stopped" /\ status' = "fail"
  /\ findings' = findings \cup {"memory_free_missing"}
  /\ UNCHANGED <<options, policy, counters, usage, graph>>

(* memory_checkpoint only adds a timeline entry. *)
StepCheckpoint ==
  /\ Busy /\ caller = "scenario"
  /\ timeline' = Pushed("checkpoint", 0)
  /\ UNCHANGED <<options, policy, counters, usage, graph, verdict>>

(* A proc_spawn on the host backend reports the child's resident peak; a   *)
(* peak of zero is dropped.                                                *)
StepHostProcPeak(peak) ==
  /\ Busy /\ caller = "scenario"
  /\ peak > 0
  /\ peak_bytes' = Larger(peak_bytes, peak)
  /\ timeline' = Pushed("host_proc_peak", 0)
  /\ UNCHANGED <<options, policy, counters, in_use_bytes, live, graph, verdict>>

(* memory_limit_mb, memory_fail_after_allocs, memory_fragmentation and     *)
(* memory_pressure_wave: each replaces one option, live.                   *)
StepSetOption ==
  /\ phase = "running" /\ caller = "scenario"
  /\ \/ limit' \in Limits /\ UNCHANGED <<fail_after, wave, seed>>
     \/ fail_after' \in FailAfters /\ UNCHANGED <<limit, wave, seed>>
     \/ wave' \in Waves \cup {<<>>} /\ UNCHANGED <<limit, fail_after, seed>>
     \/ seed' \in Seeds /\ UNCHANGED <<limit, fail_after, wave>>
  /\ UNCHANGED <<policy, counters, usage, graph, verdict, timeline>>

(* One turn of the fuzz loop: allocate the input's length under the one    *)
(* fuzz_loop callsite and free it at once, or record the failure and go on.*)
FuzzExec(b, cs, pct) ==
  LET eff == EffectiveAllocBytes(b, alloc_ops + 1, pct)
      id  == next_alloc_id
  IN
  /\ Busy /\ caller = "fuzz"
  /\ \/ /\ FailedReason(eff, alloc_ops + 1) = "none"
        /\ alloc_ops' = alloc_ops + 1
        /\ next_alloc_id' = id + 1
        /\ free_count' = free_count + 1
        /\ in_use_bytes' = SatSub(SatAdd(in_use_bytes, eff), eff)
        /\ peak_bytes' = Larger(peak_bytes, SatAdd(in_use_bytes, eff))
        /\ timeline' = Append(Pushed("alloc", id), <<"free", id>>)
        /\ nodes' = nodes \cup {AllocNode(id), CallsiteNode(cs), FreeNode(id)}
        /\ edges' = Append(Append(edges, <<CallsiteNode(cs), AllocNode(id)>>),
                           <<AllocNode(id), FreeNode(id)>>)
        /\ UNCHANGED <<failed_alloc_count, live, verdict>>
     \/ /\ AllocFail(b, pct)
        /\ status' = "fail"
        /\ findings' = findings \cup {"memory_alloc_failed"}
        /\ UNCHANGED phase
  /\ UNCHANGED <<options, policy>>

(* The last step of the scenario, or of the fuzz loop, has run. *)
EndSteps ==
  /\ phase = "running"
  /\ phase' = "stopped"
  /\ UNCHANGED <<options, policy, counters, usage, graph, status, findings, timeline>>

-----------------------------------------------------------------------------
LiveBytes == MapThenSumSet(LAMBDA id : live[id], DOMAIN live)

(* finalize sums the leaks with Iterator::sum: a release build wraps, a    *)
(* debug build panics.                                                     *)
LeakedBytes == LiveBytes % (MaxU64 + 1)
LeakSumOverflows == LiveBytes > MaxU64

\* mutant: a leak budget overrides fail_on_leak
LeakWithinBudget == LeakedBytes = 0 \/ (leak_budget # None /\ LeakedBytes <= leak_budget)
(* MemoryRunReport::leak_allowed_by_policy. *)
LeakAllowedByPolicy ==
  \/ LeakedBytes = 0
  \/ /\ ~fail_on_leak
     /\ leak_budget # None
     /\ LeakedBytes <= leak_budget

(* What ExecCtx::finish reports of the leaks. *)
LeakFindings ==
  {t \in {"memory_leak", "memory_leak_budget"} :
     \/ t = "memory_leak" /\ LeakedBytes > 0 /\ (fail_on_leak \/ leak_budget = None)
     \/ t = "memory_leak_budget" /\ leak_budget # None /\ LeakedBytes > leak_budget}

(* ExecCtx::finish for a scenario. *)
FinishScenario ==
  /\ phase = "stopped" /\ caller = "scenario"
  /\ findings' = findings \cup LeakFindings
  /\ status' = IF status = "pass" /\ ~LeakAllowedByPolicy THEN "fail" ELSE status
  /\ phase' = "done"
  /\ UNCHANGED <<options, policy, counters, usage, graph, timeline>>

(* The end of run_fuzz: only fail_on_leak can change the verdict. *)
FinishFuzz ==
  /\ phase = "stopped" /\ caller = "fuzz"
  /\ status' = IF fail_on_leak /\ LeakedBytes > 0 THEN "fail" ELSE status
  /\ phase' = "done"
  /\ UNCHANGED <<options, policy, counters, usage, graph, findings, timeline>>

(* A debug build aborts the run in finalize when the sum overflows. *)
FinishPanic ==
  /\ phase = "stopped" /\ LeakSumOverflows
  /\ status' = "panic" /\ phase' = "done"
  /\ UNCHANGED <<options, policy, counters, usage, graph, findings, timeline>>

Next ==
  \/ \E b \in Sizes, cs \in Callsites, pct \in FragPcts :
        StepAlloc(b, cs, pct) \/ FuzzExec(b, cs, pct)
  \/ \E id \in 1..(MaxOps + 1) : StepFree(id) \/ StepFreeMissing(id)
  \/ StepCheckpoint
  \/ \E p \in HostPeaks : StepHostProcPeak(p)
  \/ StepSetOption
  \/ EndSteps
  \/ FinishScenario \/ FinishFuzz \/ FinishPanic

Spec == Init /\ [][Next]_vars

-----------------------------------------------------------------------------
(* The values of the state: ids handed out are 1 .. next_alloc_id - 1.     *)
TypeOK ==
  /\ caller \in {"scenario", "fuzz"}
  /\ phase \in {"running", "stopped", "done"}
  /\ limit \in Limits \cup {None} /\ fail_after \in FailAfters \cup {None}
  /\ wave \in Waves \cup {<<>>} /\ seed \in Seeds \cup {None}
  /\ fail_on_leak \in BOOLEAN /\ leak_budget \in Budgets \cup {None}
  /\ next_alloc_id \in Nat \ {0}
  /\ alloc_ops \in Nat /\ free_count \in Nat /\ failed_alloc_count \in Nat
  /\ in_use_bytes \in 0..MaxU64 /\ peak_bytes \in 0..MaxU64
  /\ DOMAIN live \subseteq 1..(next_alloc_id - 1)
  /\ live \in [DOMAIN live -> 0..MaxU64]
  /\ status \in {"pass", "fail", "panic"}

(* The four counters and the live table never disagree: every allocate    *)
(* call is refused, live or freed, and every id handed out is live or      *)
(* freed (MemorySummary as finalize reports it).                           *)
AccountingBalances ==
  /\ alloc_ops = failed_alloc_count + free_count + Cardinality(DOMAIN live)
  /\ next_alloc_id = free_count + Cardinality(DOMAIN live) + 1

(* The graph passes validate_memory_graph_structure at every point (no     *)
(* edge to a missing node, no duplicate edge) and tells which allocations  *)
(* leak: an id is live iff its alloc node has no free node.                *)
GraphTracksLive ==
  /\ \A i \in DOMAIN edges : edges[i][1] \in nodes /\ edges[i][2] \in nodes
  /\ \A i, j \in DOMAIN edges : edges[i] = edges[j] => i = j
  /\ \A id \in 1..(next_alloc_id - 1) :
        AllocNode(id) \in nodes /\ (id \in DOMAIN live <=> FreeNode(id) \notin nodes)

(* As long as no allocation has saturated the u64, the running counter is  *)
(* the sum of what is live, however limits, waves and seeds changed between *)
(* the allocation and its free: free subtracts what allocate added, not    *)
(* what the options in force now would charge.                             *)
InUseIsLiveSum == peak_bytes < MaxU64 => in_use_bytes = LiveBytes

(* A run that passes ends within its leak policy, in terms of the counter  *)
(* memory_assert_in_use_bytes reads: finalize's sum and the counter agree. *)
PassIsWithinPolicy ==
  phase = "done" /\ status = "pass" /\ peak_bytes < MaxU64 =>
    \/ in_use_bytes = 0
    \/ ~fail_on_leak /\ leak_budget # None /\ in_use_bytes <= leak_budget

(* The two together: the counter tells what is live, up to the verdict.    *)
MemoryIsAccounted == InUseIsLiveSum /\ PassIsWithinPolicy

=============================================================================
