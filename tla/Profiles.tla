------------------------------ MODULE Profiles ------------------------------
(***************************************************************************)
(* `fozzy profile` (src/src/cmd/profile): the heap, latency and metrics    *)
(* profile rebuilt from the events of a trace, the diff of two groups of   *)
(* profiles and its explanation.                                           *)
(*                                                                         *)
(* A run records events a step at a time, as drive_scenario does: the      *)
(* scheduler's pick, the start of the step's span, what the step does, the *)
(* end of the span.  Recorded runs become the baseline of a diff with the  *)
(* run recorded next.  Times are virtual milliseconds; a fraction of the   *)
(* code's f64 values is kept exactly, as a numerator and a denominator.    *)
(***************************************************************************)
EXTENDS Checks

CONSTANTS
  Blocks,     \* bytes an allocation is granted
  Sites,      \* hashes of allocation sites: numbers, to be put in order
  Waits,      \* virtual durations of a sleep
  MaxSteps,   \* bound on the steps recorded, baselines included
  MaxGroup    \* bound on the runs of a baseline

ASSUME BoundsAssumption ==
  MaxSteps \in Nat /\ MaxGroup \in Nat /\ Blocks \subseteq Nat /\ Waits \subseteq Nat

VARIABLES
  events,    \* the trace so far: records [time, name, span, id, bytes, callsite]
  now,       \* virtual time
  recorder,  \* the memory capability: next id, live blocks, bytes granted
  ended,     \* a step failed: the run is over
  steps,     \* steps recorded, over all runs
  baseline   \* profiles of the runs recorded before

profile_vars == <<events, now, recorder, ended, steps, baseline>>

-----------------------------------------------------------------------------
(* The timeline: an event with its kind, its parent span and the time to   *)
(* the next one.                                                           *)
MapEventKind(name) ==
  CASE name = "span_start"   -> "span_start"
    [] name = "span_end"     -> "span_end"
    [] name = "sample"       -> "sample"
    [] name = "memory_alloc" -> "alloc"
    [] name = "memory_free"  -> "free"
    [] name \in {"http_request", "proc_spawn", "capability_http", "capability_proc",
                 "capability_fs"} -> "io"
    [] name \in {"net_send", "net_drop", "net_deliver", "capability_net"} -> "net"
    [] name \in {"deliver", "partition", "heal", "crash", "restart", "sched_pick",
                 "sched_wait", "sched_starvation"} -> "sched"
    [] OTHER -> "event"

LastOr(seq, default) == IF seq = <<>> THEN default ELSE Last(seq)
WithSpan(open, span) == IF span \in ToSet(open) THEN open ELSE Append(open, span)
(* The spans open after an event; the end of a span closes its last start. *)
OpenAfter(open, e) ==
  CASE MapEventKind(e.name) = "span_start" -> WithSpan(open, e.span)
    [] MapEventKind(e.name) = "span_end" /\ e.span \in ToSet(open) ->
         RemoveAt(open, SelectLastInSeq(open, LAMBDA s : s = e.span))
    [] OTHER -> open

ParentOf(open, e) ==
  IF MapEventKind(e.name) = "span_end"
  THEN LET at == SelectLastInSeq(open, LAMBDA s : s = e.span)
       IN  IF at > 1 THEN open[at - 1] ELSE None
  ELSE LastOr(open, None)

(* The spans open before each event and after the last. *)
OpenSpans(trace) ==
  FoldLeft(LAMBDA stacks, e : Append(stacks, OpenAfter(Last(stacks), e)), << <<>> >>, trace)
Entry(trace, i, open) ==
  [t |-> trace[i].time, kind |-> MapEventKind(trace[i].name),
   span |-> IF trace[i].span # None THEN trace[i].span ELSE LastOr(open, <<"event", i>>),
   parent |-> ParentOf(open, trace[i]),
   duration |-> IF i < Len(trace) THEN trace[i + 1].time - trace[i].time ELSE 0,
   id |-> trace[i].id, bytes |-> trace[i].bytes, callsite |-> trace[i].callsite]
Timeline(trace) ==
  LET open == OpenSpans(trace) IN [i \in DOMAIN trace |-> Entry(trace, i, open[i])]

EndTime(timeline) == IF timeline = <<>> THEN 0 ELSE Last(timeline).t
OfKind(timeline, kinds) == SelectSeq(timeline, LAMBDA e : e.kind \in kinds)

-----------------------------------------------------------------------------
(* The heap profile.  A refused allocation has no id and is left out; an   *)
(* allocation under an id still live would take its place.                 *)
Allocated(book, e) ==
  [book EXCEPT !.live =
     [id \in DOMAIN @ \cup {e.id} |->
        IF id = e.id THEN [bytes |-> e.bytes, callsite |-> e.callsite, start |-> e.t]
        ELSE @[id]]]
\* mutant: a freed block is forgotten, what it took with it
FreedForgotten(book, e) ==
  [book EXCEPT !.live = [id \in DOMAIN @ \ {e.id} |-> @[id]]]
Freed(book, e) ==
  [live |-> [id \in DOMAIN book.live \ {e.id} |-> book.live[id]],
   done |-> Append(book.done, [alloc |-> book.live[e.id], end |-> e.t])]
BookAfter(book, e) ==
  CASE e.kind = "alloc" /\ e.id # None              -> Allocated(book, e)
    [] e.kind = "free" /\ e.id \in DOMAIN book.live -> Freed(book, e)
    [] OTHER -> book
Book(timeline) ==
  FoldLeft(LAMBDA book, e : BookAfter(book, e), [live |-> <<>>, done |-> <<>>], timeline)

BytesOf(allocs, indices) == MapThenSumSet(LAMBDA i : allocs[i].bytes, indices)
At(allocs, callsite) == {i \in DOMAIN allocs : allocs[i].callsite = callsite}

LifetimeBucket(d) ==
  CASE d <= 1 -> "0-1ms" [] d \in 2..10 -> "2-10ms" [] d \in 11..100 -> "11-100ms"
    [] OTHER  -> "101ms+"

Hotspot(live, done, s) ==
  [count  |-> Cardinality(At(live, s)) + Cardinality(At(done, s)),
   alloc  |-> BytesOf(live, At(live, s)) + BytesOf(done, At(done, s)),
   in_use |-> BytesOf(live, At(live, s))]

(* trace_in_use is what the trace's own memory summary says is in use.     *)
HeapOf(live, done, freed, end, trace_in_use) ==
  [total |-> BytesOf(live, DOMAIN live) + BytesOf(done, DOMAIN done),
   in_use |-> Max({BytesOf(live, DOMAIN live), trace_in_use}),
   \* the time the rates are taken over
   span |-> Max({end, 1}),
   hotspots |-> [s \in {live[i].callsite : i \in DOMAIN live}
                         \cup {done[i].callsite : i \in DOMAIN done} |-> Hotspot(live, done, s)],
   lifetimes |-> [i \in DOMAIN done |-> LifetimeBucket(freed[i] - done[i].start)],
   suspects |-> {[id |-> i, bytes |-> live[i].bytes, age |-> end - live[i].start] :
                   i \in DOMAIN live}]
BuildHeapProfile(timeline, trace_in_use) ==
  LET book == Book(timeline)
  IN  HeapOf(book.live, [i \in DOMAIN book.done |-> book.done[i].alloc],
             [i \in DOMAIN book.done |-> book.done[i].end], EndTime(timeline), trace_in_use)

(* A budget is exceeded by what the profile counts, not by a peak. *)
HeapBudgetFindings(heap, budget) ==
  (IF budget.alloc # None /\ heap.total > budget.alloc THEN {"heap_alloc_budget"} ELSE {})
  \cup (IF budget.in_use # None /\ heap.in_use > budget.in_use
        THEN {"heap_in_use_budget"} ELSE {})

-----------------------------------------------------------------------------
(* The latency profile. *)
DominantReason(kind) ==
  CASE kind = "io" -> "io" [] kind = "sched" -> "sched" [] kind \in {"alloc", "free"} -> "heap"
    [] kind = "net" -> "payload" [] kind = "sample" -> "cpu" [] OTHER -> "other"

(* What a span waited for: the first event in it that is not of another    *)
(* kind, whichever span that event belongs to.                             *)
WaitReason(timeline, from, to) ==
  LET telling == {i \in from..to : DominantReason(timeline[i].kind) # "other"}
  IN  IF telling = {} THEN "other" ELSE DominantReason(timeline[Min(telling)].kind)

(* The start an end is matched with: the last one not matched before.      *)
LatestOf(timeline, to, kind) ==
  Max({0} \cup {i \in 1..(to - 1) : timeline[i].kind = kind /\ timeline[i].span = timeline[to].span})
Unmatched(start, end) == IF end > start THEN 0 ELSE start
StartOf(timeline, to) ==
  Unmatched(LatestOf(timeline, to, "span_start"), LatestOf(timeline, to, "span_end"))

SpanOf(timeline, from, to) ==
  [id |-> timeline[to].span, parent |-> timeline[from].parent,
   start |-> timeline[from].t, duration |-> timeline[to].t - timeline[from].t,
   reason |-> WaitReason(timeline, from, to)]
Spans(timeline) ==
  LET ends == SelectSeq([i \in DOMAIN timeline |-> i],
                        LAMBDA i : timeline[i].kind = "span_end" /\ StartOf(timeline, i) > 0)
  IN  SortSeq([i \in DOMAIN ends |-> SpanOf(timeline, StartOf(timeline, ends[i]), ends[i])],
              LAMBDA a, b : a.start < b.start \/ (a.start = b.start /\ a.id[2] < b.id[2]))

\* mutant: the rank rounded down
PercentileFloor(sorted, pct) ==
  IF sorted = <<>> THEN 0 ELSE sorted[1 + ((Len(sorted) - 1) * pct) \div 100]
Percentile(sorted, pct) ==
  IF sorted = <<>> THEN 0 ELSE sorted[1 + ((Len(sorted) - 1) * pct + 50) \div 100]

(* What an event outside the ends of a span hangs on its parent. *)
Edge(e, reason) == [from |-> e.parent, to |-> e.span, duration |-> e.duration, reason |-> reason]
Edges(timeline, spans) ==
  {[from |-> spans[p[1]].parent, to |-> spans[p[1]].id, reason |-> "parent_child",
    duration |-> spans[p[1]].duration + spans[p[2]].duration] :
     p \in {q \in (DOMAIN spans) \X (DOMAIN spans) : spans[q[1]].parent = spans[q[2]].id}}
  \cup {Edge(timeline[i], DominantReason(timeline[i].kind)) :
          i \in {k \in DOMAIN timeline : /\ timeline[k].kind \in {"io", "net", "sched"}
                                         /\ timeline[k].parent # None}}

(* The longest first, those alike in the order of their start: steps are   *)
(* never nested, so that all spans hang on the root.                       *)
CriticalPath(spans) ==
  FoldLeft(LAMBDA path, s : LET shorter == {i \in DOMAIN path : path[i].duration < s.duration}
                            IN  IF shorter = {} THEN Append(path, s)
                                ELSE InsertAt(path, Min(shorter), s),
           <<>>, spans)
LatencyOf(timeline, spans, sorted) ==
  [p50 |-> Percentile(sorted, 50), p95 |-> Percentile(sorted, 95), p99 |-> Percentile(sorted, 99),
   max |-> LastOr(sorted, 0),
   graph |-> Edges(timeline, spans), critical |-> CriticalPath(spans),
   suspects |-> SelectSeq(spans, LAMBDA s : s.duration >= Max({Percentile(sorted, 95), 1}))]
Durations(spans) == SortSeq([i \in DOMAIN spans |-> spans[i].duration], LAMBDA a, b : a < b)
BuildLatencyProfile(timeline) ==
  LET spans == Spans(timeline) IN LatencyOf(timeline, spans, Durations(spans))

(* The metrics.  CPU time is the weight of sample events, which no run     *)
(* records.                                                                *)
ProfileOf(timeline, heap, latency) ==
  [heap |-> heap, latency |-> latency, timeline |-> timeline,
   metrics |->
     [cpu_time_ms |-> Len(OfKind(timeline, {"sample"})),
      alloc_bytes |-> heap.total, in_use_bytes |-> heap.in_use,
      p50_latency_ms |-> latency.p50, p95_latency_ms |-> latency.p95,
      p99_latency_ms |-> latency.p99, max_latency_ms |-> latency.max,
      io_ops |-> Len(OfKind(timeline, {"io", "net"})),
      sched_ops |-> Len(OfKind(timeline, {"sched"}))]]
Profile(trace, trace_in_use) ==
  LET timeline == Timeline(trace)
  IN  ProfileOf(timeline, BuildHeapProfile(timeline, trace_in_use), BuildLatencyProfile(timeline))

(* A group of profiles is compared by the rounded means of its metrics,    *)
(* but by the callsites of its first profile.                              *)
Aggregate(group) ==
  LET n       == Len(group)
      mean(m) == (2 * FoldLeft(LAMBDA sum, p : sum + p.metrics[m], 0, group) + n) \div (2 * n)
  IN  [metrics |-> [m \in DOMAIN group[1].metrics |-> mean(m)], heap |-> group[1].heap]

-----------------------------------------------------------------------------
(* The diff. *)
MetricsOf(domain) ==
  CASE domain = "cpu"     -> <<"cpu_time_ms">>
    [] domain = "heap"    -> <<"alloc_bytes", "in_use_bytes">>
    [] domain = "latency" -> <<"p95_latency_ms", "p99_latency_ms", "max_latency_ms">>
    [] domain = "io"      -> <<"io_ops">>
    [] domain = "sched"   -> <<"sched_ops">>

(* A metric by name, or a field of a callsite. *)
Named(name)        == [name |-> name, callsite |-> None]
OfSite(name, site) == [name |-> name, callsite |-> site]
(* Where a name comes in the order of their spelling. *)
Spelling ==
  [alloc_bytes |-> 1, cpu_time_ms |-> 3, in_use_bytes |-> 4, io_ops |-> 5, max_latency_ms |-> 6,
   p95_latency_ms |-> 7, p99_latency_ms |-> 8, sched_ops |-> 9]
SiteSpelling == [alloc_bytes |-> 1, alloc_rate_per_sec |-> 2, in_use_bytes |-> 3]
Place(metric) ==
  IF metric.callsite = None THEN <<Spelling[metric.name], 0>>
  ELSE <<2, 3 * metric.callsite + SiteSpelling[metric.name]>>

(* A change from l to r, in units of 1/den, l and r being its numerators.  *)
Abs(x) == IF x < 0 THEN -x ELSE x
AtLeastPct(c, pct) ==
  IF c.l = 0 THEN c.r # 0 ELSE 100 * Abs(c.r - c.l) >= pct * c.l

(* Virtual time is exact: one unit and two hundredths count.  Where a diff *)
(* gets to compare host times it has no spread to judge them by, and its   *)
(* confidence of 0.75 is not enough for any change.                        *)
Significant(c, virtual) == virtual /\ Abs(c.r - c.l) >= c.den /\ AtLeastPct(c, 2)
Severity(c) ==
  CASE AtLeastPct(c, 30) -> 4 [] AtLeastPct(c, 15) -> 3 [] AtLeastPct(c, 5) -> 2 [] OTHER -> 1

Class(c) == IF c.r > c.l THEN "regression" ELSE IF c.r < c.l THEN "improvement" ELSE "stable"
(* severity * 10 + class + confidence, in quarters *)
PriorityScore(c, class, significant, virtual) ==
  4 * (10 * (IF class = "stable" \/ ~significant THEN 0 ELSE Severity(c))
       + CASE class = "regression" -> 2 [] class = "improvement" -> 1 [] OTHER -> 0)
  + (IF virtual THEN 4 ELSE 3)
Row(metric, domain, c, class, significant, virtual) ==
  [metric |-> metric, domain |-> domain, change |-> c, class |-> class, significant |-> significant,
   score |-> PriorityScore(c, class, significant, virtual)]
ClassifyRegression(metric, domain, c, virtual) ==
  Row(metric, domain, c, Class(c), Significant(c, virtual), virtual)

MetricRow(metric, domain, l, r) ==
  ClassifyRegression(Named(metric), domain, [l |-> l, r |-> r, den |-> 1], metric # "cpu_time_ms")

AtSite(heap, s) ==
  IF s \in DOMAIN heap.hotspots THEN heap.hotspots[s] ELSE [count |-> 0, alloc |-> 0, in_use |-> 0]
SiteChanges(l, lspan, r, rspan) ==
  << <<"alloc_bytes", [l |-> l.alloc, r |-> r.alloc, den |-> 1]>>,
     <<"in_use_bytes", [l |-> l.in_use, r |-> r.in_use, den |-> 1]>>,
     <<"alloc_rate_per_sec", [l |-> 1000 * l.alloc * rspan, r |-> 1000 * r.alloc * lspan,
                              den |-> lspan * rspan]>> >>
(* The callsites of either side, a site that is missing counting nothing;  *)
(* only what changed has a row.                                            *)
HeapCallsiteRegressions(left, right) ==
  LET sites  == SetToSortSeq(DOMAIN left.hotspots \cup DOMAIN right.hotspots, <)
      rows(s, changes) ==
        [i \in DOMAIN changes |->
           ClassifyRegression(OfSite(changes[i][1], s), "heap", changes[i][2], TRUE)]
  IN  SelectSeq(FlattenSeq([i \in DOMAIN sites |->
                              rows(sites[i], SiteChanges(AtSite(left, sites[i]), left.span,
                                                         AtSite(right, sites[i]), right.span))]),
                LAMBDA r : r.class # "stable")

Spelled(a, b) ==
  \/ Place(a)[1] < Place(b)[1]
  \/ Place(a)[1] = Place(b)[1] /\ Place(a)[2] < Place(b)[2]
Distance(row) == Abs(row.change.r - row.change.l)
Before(a, b) ==
  LET da == Distance(a) * b.change.den
      db == Distance(b) * a.change.den
  IN  a.score > b.score
      \/ (a.score = b.score /\ (da > db \/ (da = db /\ Spelled(a.metric, b.metric))))

\* mutant: what is not significant is no regression
SummaryOfSignificant(rows) ==
  LET many == {i \in DOMAIN rows : rows[i].class = "regression" /\ rows[i].significant}
  IN  [regressions |-> Cardinality(many), significant |-> Cardinality(many),
       improvements |-> Cardinality({i \in DOMAIN rows : rows[i].class = "improvement"}),
       top |-> IF many = {} THEN None ELSE rows[Min(many)].metric,
       verdict |-> IF many # {} THEN "regression_detected" ELSE "stable"]
Summary(rows) ==
  LET are(class) == {i \in DOMAIN rows : rows[i].class = class}
      worse      == are("regression")
      much       == {i \in worse : rows[i].significant}
  IN  [regressions |-> Cardinality(worse), significant |-> Cardinality(much),
       improvements |-> Cardinality(are("improvement")),
       top |-> IF worse = {} THEN None ELSE rows[Min(worse)].metric,
       verdict |-> CASE much # {} -> "regression_detected"
                     [] much = {} /\ worse # {} -> "minor_regression"
                     [] worse = {} -> IF are("improvement") # {} THEN "improvement" ELSE "stable"]

Summarised(domains, rows) == [domains |-> domains, rows |-> rows, summary |-> Summary(rows)]

(* left and right are [metrics, heap], heap being None when not loaded. *)
ComputeDiff(left, right, domains) ==
  LET metric(d) == [i \in DOMAIN MetricsOf(d) |->
                      MetricRow(MetricsOf(d)[i], d, left.metrics[MetricsOf(d)[i]],
                                right.metrics[MetricsOf(d)[i]])]
      sites(d)  == IF d = "heap" /\ None \notin {left.heap, right.heap}
                   THEN HeapCallsiteRegressions(left.heap, right.heap) ELSE <<>>
      rows      == SortSeq(FlattenSeq([i \in DOMAIN domains |->
                                         metric(domains[i]) \o sites(domains[i])]), Before)
  IN  Summarised(domains, rows)

(* No flag asks for every domain.  The cpu domain wants samples in every   *)
(* profile, and diff loads no cpu profile to count them in.                *)
NormalizeDomains(asked) ==
  LET order == IF asked = {} THEN <<"cpu", "io", "sched", "heap", "latency">>
               ELSE <<"cpu", "heap", "latency", "io", "sched">>
  IN  SelectSeq(order, LAMBDA d : asked = {} \/ d \in asked)
EnforceCpuContract(domains, samples) == "cpu" \in ToSet(domains) => 0 \notin samples
Diff(left, right, asked) ==
  IF ~EnforceCpuContract(NormalizeDomains(asked), {0}) THEN None
  ELSE ComputeDiff(Aggregate(left), Aggregate(right), NormalizeDomains(asked))

ExplainFromDiff(left, right) ==
  LET diff == ComputeDiff([left EXCEPT !.heap = None], [right EXCEPT !.heap = None],
                          <<"cpu", "heap", "latency", "io", "sched">>)
  IN  [cause |-> diff.rows[1].domain, row |-> diff.rows[1], shifted |-> TRUE, stated |-> TRUE,
       evidence |-> <<"metrics", "latency", "cpu", "heap">>]

(* Without a second run the cause is what the longest span waited for; the *)
(* path shown is no metric, and the statement only describes the run.      *)
ExplainSingle(p) ==
  LET reason == IF p.latency.critical = <<>> THEN "other" ELSE p.latency.critical[1].reason
  IN  [cause |-> CASE reason # "other"          -> reason
                   [] reason = "other" /\ p.metrics.alloc_bytes > 0 -> "heap"
                   [] reason = "other" /\ p.metrics.alloc_bytes = 0 ->
                        IF p.metrics.io_ops > 0 THEN "io" ELSE "sched",
       shifted |-> FALSE, stated |-> FALSE, evidence |-> <<"metrics", "latency", "heap">>]

(* top: the domains that have nothing to show.  The io row counts no       *)
(* network events, though the io metric does.                              *)
Top(p, asked) ==
  LET domains == NormalizeDomains(asked)
      shows(d) == CASE d = "cpu"     -> OfKind(p.timeline, {"sample"}) # <<>>
                    [] d = "heap"    -> DOMAIN p.heap.hotspots # {}
                    [] d = "latency" -> p.latency.critical # <<>>
                    [] d = "io"      -> OfKind(p.timeline, {"io"}) # <<>>
                    [] d = "sched"   -> OfKind(p.timeline, {"sched"}) # <<>>
  IN  IF ~EnforceCpuContract(domains, {p.metrics.cpu_time_ms}) THEN None
      ELSE [warnings |-> <<>>, empty |-> SelectSeq(domains, LAMBDA d : ~shows(d)),
            rows |-> {d \in ToSet(domains) : shows(d)}]

-----------------------------------------------------------------------------
(* A run.  Every step is a span of its own, on virtual time. *)
Event(time, name) ==
  [time |-> time, name |-> name, span |-> None, id |-> None, bytes |-> 0, callsite |-> None]
SpanEvent(time, name) == [Event(time, name) EXCEPT !.span = <<"step", steps>>]

Step(inner, wait) ==
  /\ ~ended /\ steps < MaxSteps
  /\ events' = events \o <<Event(now, "sched_pick"), SpanEvent(now, "span_start")>>
                      \o inner \o <<SpanEvent(now + wait, "span_end")>>
  /\ now' = now + wait
  /\ steps' = steps + 1
  /\ UNCHANGED baseline

MemoryAlloc(bytes, site) ==
  LET id == recorder.next
  IN  /\ Step(<<[Event(now, "memory_alloc") EXCEPT !.id = id, !.bytes = bytes, !.callsite = site]>>, 0)
      /\ recorder' = [next |-> id + 1, granted |-> recorder.granted + bytes,
                      live |-> [i \in DOMAIN recorder.live \cup {id} |->
                                  IF i = id THEN bytes ELSE recorder.live[i]]]
      /\ UNCHANGED ended

(* A refused allocation and a free of nothing are recorded and end the run. *)
MemoryRefuse(bytes, site) ==
  /\ Step(<<[Event(now, "memory_alloc") EXCEPT !.bytes = bytes, !.callsite = site]>>, 0)
  /\ ended' = TRUE
  /\ UNCHANGED recorder
MemoryFree(id) ==
  /\ Step(<<[Event(now, "memory_free") EXCEPT !.id = id]>>, 0)
  /\ recorder' = [recorder EXCEPT !.live = [i \in DOMAIN @ \ {id} |-> @[i]]]
  /\ ended' = (id \notin DOMAIN recorder.live)

Sleep(wait) == Step(<<>>, wait) /\ UNCHANGED <<recorder, ended>>
Effect(name) == Step(<<Event(now, name)>>, 0) /\ UNCHANGED <<recorder, ended>>

InUse == MapThenSumSet(LAMBDA i : recorder.live[i], DOMAIN recorder.live)
Recorded == Profile(events, InUse)

(* The run ends and is one more of the baseline; another one is recorded.  *)
Fresh == [next |-> 1, live |-> <<>>, granted |-> 0]
NextRun ==
  /\ events # <<>> /\ Len(baseline) < MaxGroup
  /\ baseline' = Append(baseline, Recorded)
  /\ events' = <<>> /\ now' = 0 /\ recorder' = Fresh /\ ended' = FALSE
  /\ UNCHANGED steps

ProfilesInit ==
  /\ events = <<>> /\ now = 0 /\ recorder = Fresh /\ ended = FALSE
  /\ steps = 0 /\ baseline = <<>>

ProfilesNext ==
  \/ \E bytes \in Blocks, site \in Sites : MemoryAlloc(bytes, site) \/ MemoryRefuse(bytes, site)
  \/ \E id \in 1..recorder.next : MemoryFree(id)
  \/ \E wait \in Waits : Sleep(wait)
  \/ \E name \in {"http_request", "net_send"} : Effect(name)
  \/ NextRun

ProfilesSpec == ProfilesInit /\ [][ProfilesNext]_profile_vars

-----------------------------------------------------------------------------
(* The profile of memory is rebuilt from events the recorder of memory     *)
(* wrote: for every run, those of refused allocations, of frees of nothing *)
(* and of failed steps included, it holds what the recorder granted and    *)
(* what it still has in use, site by site, and the heap budgets judge by   *)
(* no other numbers (build.rs, engine/exec/memory.rs).                     *)
SiteSum(hotspots, field) == MapThenSumSet(LAMBDA s : hotspots[s][field], DOMAIN hotspots)
Agrees(heap) ==
  /\ heap.total = recorder.granted /\ heap.in_use = InUse
  /\ SiteSum(heap.hotspots, "alloc") = recorder.granted
  /\ SiteSum(heap.hotspots, "in_use") = InUse
  /\ SiteSum(heap.hotspots, "count") = recorder.next - 1
  /\ Cardinality(heap.suspects) + Len(heap.lifetimes) = recorder.next - 1
  /\ \A b \in 0..2 :
       HeapBudgetFindings(heap, [alloc |-> b, in_use |-> b])
         = (IF recorder.granted > b THEN {"heap_alloc_budget"} ELSE {})
           \cup (IF InUse > b THEN {"heap_in_use_budget"} ELSE {})
HeapAgreesWithRecorder == Agrees(BuildHeapProfile(Timeline(events), 0))

(* Whatever was recorded, the workflows' second derivation of a diff's     *)
(* verdict agrees with the command's own, a top is never refused, and an   *)
(* explanation is passed over only where there is one run to explain: full *)
(* and gate fail or skip a profile step only for what the runs did         *)
(* (analysis.rs, dispatch.rs and the checks of the workflows).             *)
Asked == {{}, {"cpu", "heap"}, {"heap", "latency", "io", "sched"}, {"latency"}, {"io", "heap"}}
TopAccepted(top) == top # None => ProfileTopStatus(top) # "failed"
DiffAccepted(diff) == diff # None => ProfileDiffConsistent(diff)
Accepted(run) ==
  /\ \A asked \in Asked : TopAccepted(Top(run, asked))
  /\ ProfileExplainStatus(ExplainSingle(run)) = "skipped"
  /\ baseline # <<>> =>
       /\ \A asked \in Asked : DiffAccepted(Diff(baseline, <<run>>, asked))
       /\ ProfileExplainStatus(ExplainFromDiff(baseline[1], run)) = "passed"
ChecksAcceptReports == events # <<>> => Accepted(Recorded)

(* A run that goes on never looks better than the same run stopped a step  *)
(* before, but for memory it freed and for a rate that time dilutes: so    *)
(* what a shrink takes away is no regression, save that the rates of what  *)
(* is left may rise.  (Of up to 11 spans, whose p95 is the longest.)       *)
Dilutes(row) == row.metric.name = "alloc_rate_per_sec" \/ row.metric.name = "in_use_bytes"
Shortened ==
  SubSeq(events, 1, SelectLastInSeq(events, LAMBDA e : e.name = "sched_pick") - 1)
OnlyDilutes(diff) ==
  \A i \in DOMAIN diff.rows : diff.rows[i].class = "improvement" => Dilutes(diff.rows[i])
Compared(shortened) ==
  Len(events) > Len(shortened) /\ shortened # <<>> =>
    OnlyDilutes(Diff(<<Profile(shortened, 0)>>, <<Profile(events, 0)>>,
                     {"heap", "latency", "io", "sched"}))
MoreIsNeverBetter == Compared(Shortened)

=============================================================================
