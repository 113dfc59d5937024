---------------------------- MODULE ThreadProofs ----------------------------
(***************************************************************************)
(* Proofs about the two components whose main thread waits on what its     *)
(* threads send it: the suite runner (TestRunner), for suites of any       *)
(* length on any number of threads, and the host process backend           *)
(* (HostProc), for every limit, pipe capacity and amount of output, with   *)
(* or without a deadline.                                                  *)
(***************************************************************************)
EXTENDS HostProc, TestRunner, FiniteSetTheorems, SequenceTheorems, TLAPS

-----------------------------------------------------------------------------
(* The suite runner *)

(* The suite is a sequence of verdicts, and its scenarios have numbers.    *)
TestOutcomes ==
  [passed : Nat, failed : Nat, failures : Nat, errors : Nat, traces : Seq(1..Size)]
SuiteTyped ==
  /\ suite \in Seq(Verdicts) /\ Size \in 1..MaxScenarios
  /\ jobs \in 1..MaxJobs /\ failFast \in BOOLEAN /\ policy \in Policies
  /\ phase \in {"run", "traces", "done", "aborted", "crashed"}
  /\ next \in 1..(Size + 1) /\ inFlight \in Nat
  /\ worker \in [1..Size -> {"idle", "running", "sent", "dead"}]
  /\ queue \in Seq(1..Size) /\ results \in Seq(1..Size)
  /\ seeds \in [1..Size -> Nat]
  /\ outcome \in TestOutcomes
  /\ saved \in 0..Len(outcome.traces)
  /\ disk \in [Names -> Seq((1..MaxScenarios) \cup {Old})]

(* An outcome that holds the first n scenarios and nothing else. *)
Counted(n, verdict) == Cardinality({i \in 1..n : suite[i] = verdict})
Rising(s) == \A j, k \in DOMAIN s : j < k => s[j] < s[k]
Tally(out, n) ==
  /\ n \in 0..Size /\ out.passed + out.failed = n
  /\ \A i \in 1..n : suite[i] # "panic"
  /\ out.passed = Counted(n, "pass") /\ out.failures = Counted(n, "fail")
  /\ out.errors = Counted(n, "error") /\ out.failed = out.failures + out.errors
  /\ Len(out.traces) <= n /\ Rising(out.traces)
  /\ ToSet(out.traces) = IF policy = "none" THEN {}
                         ELSE {i \in 1..n : suite[i] \in {"pass", "fail"}}

(* Where every scenario of a parallel suite is: not started, with a worker,*)
(* sent, received or in the outcome, one place each.                       *)
Distinct(s) == \A j, k \in DOMAIN s : j # k => s[j] # s[k]
Unmerged == (TotalRuns + 1)..(next - 1)
ThreadsInv ==
  /\ \A i \in 1..Size : worker[i] # "idle" => i < next /\ ~Serial
  /\ \A i \in 1..Size : worker[i] = "sent" => suite[i] # "panic"
  /\ ~Serial => \A i \in 1..TotalRuns : worker[i] = "sent"
  /\ \A i \in ToSet(queue) \cup ToSet(results) : i \in Unmerged /\ worker[i] = "sent"
  /\ ToSet(queue) \cap ToSet(results) = {}
  /\ Distinct(queue) /\ Distinct(results)
  /\ ~Serial => /\ inFlight = Cardinality(Unmerged \ ToSet(results))
                /\ TotalRuns > 0 => inFlight = 0 /\ next = Size + 1

(* How far the suite is. *)
Complete ==
  IF failFast
  THEN /\ \A i \in 1..(TotalRuns - 1) : suite[i] = "pass"
       /\ TotalRuns = Size \/ (TotalRuns > 0 /\ suite[TotalRuns] # "pass")
  ELSE TotalRuns = Size
ProgressInv ==
  /\ phase = "run" => TotalRuns < Size
  /\ phase = "run" /\ Serial =>
       /\ next = TotalRuns + 1
       /\ \A i \in 1..TotalRuns : suite[i] \in {"pass", "fail"} /\ (failFast => suite[i] = "pass")
  /\ phase \in {"run", "crashed"} => saved = 0
  /\ phase \in {"traces", "done"} \/ saved > 0 => Complete
  /\ phase = "done" => /\ saved = Len(outcome.traces)
                       /\ report = [status |-> IF outcome.failed = 0 THEN "pass" ELSE "fail",
                                    passed |-> outcome.passed, failed |-> outcome.failed,
                                    failures |-> outcome.failures, errors |-> outcome.errors]

SavedInv == \A k \in 1..saved : outcome.traces[k] \in ToSet(disk[Target(k)])

SuiteInv ==
  /\ SuiteTyped
  /\ Tally(outcome, TotalRuns)
  /\ ThreadsInv
  /\ ProgressInv
  /\ SeedsFollowPlace
  /\ SavedInv
-----------------------------------------------------------------------------
(* Sequences without repetition: appending, taking the head, removing.     *)
LEMMA AppendFacts ==
  ASSUME NEW S, NEW s \in Seq(S), NEW e \in S
  PROVE  /\ Append(s, e) \in Seq(S) /\ Len(Append(s, e)) = Len(s) + 1
         /\ ToSet(Append(s, e)) = ToSet(s) \cup {e}
         /\ \A k \in DOMAIN s : Append(s, e)[k] = s[k]
         /\ Append(s, e)[Len(s) + 1] = e
         /\ Distinct(s) /\ e \notin ToSet(s) => Distinct(Append(s, e))
<1>1. /\ Append(s, e) \in Seq(S) /\ Len(Append(s, e)) = Len(s) + 1
      /\ DOMAIN Append(s, e) = 1..(Len(s) + 1) /\ DOMAIN s = 1..Len(s) /\ Len(s) \in Nat
      /\ \A k \in DOMAIN s : Append(s, e)[k] = s[k]
      /\ Append(s, e)[Len(s) + 1] = e
  OBVIOUS
<1>2. DOMAIN Append(s, e) = DOMAIN s \cup {Len(s) + 1} /\ Len(s) + 1 \notin DOMAIN s
  BY <1>1
<1>3. ToSet(Append(s, e)) = ToSet(s) \cup {e}
  BY <1>1, <1>2, Zenon DEF ToSet
<1>4. Distinct(s) /\ e \notin ToSet(s) => Distinct(Append(s, e))
  BY <1>1, <1>2, Zenon DEF ToSet, Distinct
<1>5. QED BY <1>1, <1>3, <1>4

LEMMA TailFacts ==
  ASSUME NEW S, NEW s \in Seq(S), s # <<>>, Distinct(s)
  PROVE  /\ Head(s) \in S /\ Head(s) \in ToSet(s)
         /\ Tail(s) \in Seq(S) /\ ToSet(Tail(s)) = ToSet(s) \ {Head(s)} /\ Distinct(Tail(s))
<1>1. /\ Head(s) = s[1] /\ Head(s) \in S /\ Tail(s) \in Seq(S) /\ 1 \in DOMAIN s
      /\ DOMAIN Tail(s) = 1..(Len(s) - 1) /\ DOMAIN s = 1..Len(s) /\ Len(s) \in Nat /\ Len(s) > 0
      /\ \A k \in DOMAIN Tail(s) : Tail(s)[k] = s[k + 1]
  OBVIOUS
<1>2. \A k \in DOMAIN Tail(s) : k + 1 \in DOMAIN s /\ k + 1 # 1
  BY <1>1
<1>3. \A j \in DOMAIN s : j # 1 => \E k \in DOMAIN Tail(s) : j = k + 1
  <2>1. \A j \in DOMAIN s : j # 1 => j - 1 \in DOMAIN Tail(s) /\ j = (j - 1) + 1
    BY <1>1
  <2>2. QED BY <2>1
<1>4. \A j, k \in DOMAIN Tail(s) : j # k => j + 1 # k + 1
  BY <1>1
<1>5. ToSet(Tail(s)) = ToSet(s) \ {Head(s)}
  <2>1. ASSUME NEW k \in DOMAIN Tail(s) PROVE Tail(s)[k] \in ToSet(s) \ {Head(s)}
    <3>1. Tail(s)[k] = s[k + 1] /\ k + 1 \in DOMAIN s /\ k + 1 # 1 /\ 1 \in DOMAIN s
      BY <1>1, <1>2, Zenon
    <3>2. s[k + 1] # s[1] /\ s[k + 1] \in ToSet(s)
      BY <3>1, Zenon DEF Distinct, ToSet
    <3>3. QED BY <1>1, <3>1, <3>2
  <2>2. ASSUME NEW j \in DOMAIN s, s[j] # s[1] PROVE s[j] \in ToSet(Tail(s))
    <3>1. PICK k \in DOMAIN Tail(s) : j = k + 1
      BY <1>3, <2>2, Zenon
    <3>2. Tail(s)[k] = s[j]
      BY <1>1, <3>1
    <3>3. QED BY <3>2 DEF ToSet
  <2>3. QED BY <1>1, <2>1, <2>2 DEF ToSet
<1>6. Distinct(Tail(s))
  BY <1>1, <1>2, <1>4, ZenonT(30) DEF Distinct
<1>7. Head(s) \in ToSet(s)
  BY <1>1 DEF ToSet
<1>8. QED BY <1>1, <1>5, <1>6, <1>7

LEMMA RemoveFacts ==
  ASSUME NEW S, NEW s \in Seq(S), NEW k \in DOMAIN s, Distinct(s)
  PROVE  /\ RemoveAt(s, k) \in Seq(S) /\ Distinct(RemoveAt(s, k))
         /\ ToSet(RemoveAt(s, k)) = ToSet(s) \ {s[k]}
         /\ RemoveAt(s, k) = <<>> <=> ToSet(s) \subseteq {s[k]}
<1> DEFINE before == SubSeq(s, 1, k - 1)
           after == SubSeq(s, k + 1, Len(s))
           r == before \o after
           at == [j \in 1..(Len(s) - 1) |-> IF j < k THEN j ELSE j + 1]
<1>1. /\ Len(s) \in Nat /\ k \in 1..Len(s) /\ DOMAIN s = 1..Len(s)
      /\ r = RemoveAt(s, k)
  BY DEF RemoveAt
<1>2. /\ before \in Seq(S) /\ Len(before) = k - 1
      /\ after \in Seq(S) /\ Len(after) = Len(s) - k
      /\ \A j \in 1..(k - 1) : before[j] = s[j]
      /\ \A j \in 1..(Len(s) - k) : after[j] = s[k + j]
  <2>1. \A j \in 1..Len(s) : s[j] \in S
    BY <1>1
  <2>2. /\ before \in Seq(S)
        /\ Len(before) = IF 1 <= k - 1 THEN (k - 1) - 1 + 1 ELSE 0
        /\ \A j \in 1..((k - 1) - 1 + 1) : before[j] = s[1 + j - 1]
    BY <1>1, <2>1, SubSeqProperties
  <2>3. /\ after \in Seq(S)
        /\ Len(after) = IF k + 1 <= Len(s) THEN Len(s) - (k + 1) + 1 ELSE 0
        /\ \A j \in 1..(Len(s) - (k + 1) + 1) : after[j] = s[(k + 1) + j - 1]
    BY SMTT(20), <1>1, <2>1, SubSeqProperties
  <2> HIDE DEF before, after
  <2>4. Len(before) = k - 1 /\ Len(after) = Len(s) - k
    BY <1>1, <2>2, <2>3
  <2>5. ASSUME NEW j \in 1..(k - 1) PROVE before[j] = s[j]
    <3>1. j \in 1..((k - 1) - 1 + 1) /\ 1 + j - 1 = j
      BY <1>1
    <3>2. QED BY <2>2, <3>1
  <2>6. ASSUME NEW j \in 1..(Len(s) - k) PROVE after[j] = s[k + j]
    <3>1. j \in 1..(Len(s) - (k + 1) + 1) /\ (k + 1) + j - 1 = k + j
      BY <1>1
    <3>2. QED BY <2>3, <3>1
  <2>7. QED BY <2>2, <2>3, <2>4, <2>5, <2>6
<1> HIDE DEF before, after
<1>3. /\ r \in Seq(S) /\ Len(r) = Len(s) - 1
      /\ \A j \in 1..(Len(s) - 1) : r[j] = s[at[j]]
  <2>1. /\ r \in Seq(S) /\ Len(r) = Len(before) + Len(after)
        /\ \A j \in 1..(Len(before) + Len(after)) :
             r[j] = IF j <= Len(before) THEN before[j] ELSE after[j - Len(before)]
    BY <1>2, ConcatProperties
  <2> HIDE DEF r
  <2>2. /\ Len(r) = Len(s) - 1
        /\ \A j \in 1..(Len(s) - 1) :
             r[j] = IF j <= k - 1 THEN before[j] ELSE after[j - (k - 1)]
    BY <1>1, <1>2, <2>1
  <2>3. ASSUME NEW j \in 1..(Len(s) - 1) PROVE r[j] = s[at[j]]
    <3>1. CASE j < k
      BY <1>1, <1>2, <2>2, <3>1
    <3>2. CASE ~ (j < k)
      <4>1. r[j] = after[j - (k - 1)] /\ j - (k - 1) \in 1..(Len(s) - k)
        BY <1>1, <2>2, <3>2
      <4>2. k + (j - (k - 1)) = j + 1
        BY <1>1
      <4>3. QED BY <1>2, <3>2, <4>1, <4>2
    <3>3. QED BY <3>1, <3>2
  <2>4. QED BY <2>1, <2>2, <2>3
<1>4. DOMAIN r = DOMAIN at
  <2> HIDE DEF r
  <2>1. QED BY <1>1, <1>3
<1>5. \A i, j \in DOMAIN at : at[i] \in DOMAIN s /\ at[i] # k /\ (i # j => at[i] # at[j])
  BY <1>1
<1>6. \A l \in DOMAIN s : l # k => \E j \in DOMAIN at : at[j] = l
  <2>1. ASSUME NEW l \in DOMAIN s, l # k PROVE \E j \in DOMAIN at : at[j] = l
    <3>1. CASE l < k
      <4>1. l \in DOMAIN at /\ at[l] = l
        BY <1>1, <3>1
      <4>2. QED BY <4>1
    <3>2. CASE l > k
      <4>1. l - 1 \in DOMAIN at /\ at[l - 1] = l
        BY <1>1, <3>2
      <4>2. QED BY <4>1
    <3>3. QED BY <1>1, <2>1, <3>1, <3>2
  <2>2. QED BY <2>1
<1>7. \A j \in DOMAIN at : r[j] = s[at[j]]
  BY <1>3
<1> HIDE DEF r, at
<1>8. Distinct(r)
  <2>1. ASSUME NEW i \in DOMAIN r, NEW j \in DOMAIN r, i # j PROVE r[i] # r[j]
    <3>1. at[i] \in DOMAIN s /\ at[j] \in DOMAIN s /\ at[i] # at[j]
      BY <1>4, <1>5, <2>1, Zenon
    <3>2. s[at[i]] # s[at[j]]
      BY <3>1, Zenon DEF Distinct
    <3>3. QED BY <1>4, <1>7, <3>2
  <2>2. QED BY <2>1 DEF Distinct
<1>9. ToSet(r) = ToSet(s) \ {s[k]}
  <2>1. ASSUME NEW j \in DOMAIN r PROVE r[j] \in ToSet(s) \ {s[k]}
    <3>1. r[j] = s[at[j]] /\ at[j] \in DOMAIN s /\ at[j] # k
      BY <1>4, <1>5, <1>7, Zenon
    <3>2. s[at[j]] # s[k] /\ s[at[j]] \in ToSet(s)
      BY <3>1, Zenon DEF Distinct, ToSet
    <3>3. QED BY <3>1, <3>2
  <2>2. ASSUME NEW l \in DOMAIN s, s[l] # s[k] PROVE s[l] \in ToSet(r)
    <3>1. PICK j \in DOMAIN at : at[j] = l
      BY <1>6, <2>2, Zenon
    <3>2. r[j] = s[l] /\ j \in DOMAIN r
      BY <1>4, <1>7, <3>1, Zenon
    <3>3. QED BY <3>2 DEF ToSet
  <2>3. QED BY <2>1, <2>2 DEF ToSet
<1>10. r = <<>> <=> ToSet(r) = {}
  <2>1. DOMAIN r = 1..Len(r) /\ Len(r) \in Nat /\ (Len(r) = 0 <=> r = <<>>)
    BY <1>3
  <2>2. Len(r) # 0 => r[1] \in ToSet(r)
    BY <2>1 DEF ToSet
  <2>3. Len(r) = 0 => ToSet(r) = {}
    BY <2>1 DEF ToSet
  <2>4. QED BY <2>1, <2>2, <2>3
<1>11. QED BY <1>1, <1>3, <1>8, <1>9, <1>10
LEMMA AppendNew ==
  ASSUME NEW S, NEW s \in Seq(S), NEW e \in S, Distinct(s), e \notin ToSet(s)
  PROVE  /\ Append(s, e) \in Seq(S) /\ Distinct(Append(s, e))
         /\ ToSet(Append(s, e)) = ToSet(s) \cup {e}
BY AppendFacts

-----------------------------------------------------------------------------
(* One more scenario in the outcome. *)
LEMMA SuiteFacts ==
  ASSUME SuiteTyped
  PROVE  /\ Size \in Nat \ {0} /\ Size <= MaxScenarios /\ DOMAIN suite = 1..Size
         /\ \A i \in 1..Size : suite[i] \in {"pass", "fail", "error", "panic"}
         /\ outcome \in TestOutcomes /\ TotalRuns \in Nat
<1>1. suite \in Seq(Verdicts) /\ Len(suite) \in 1..MaxScenarios /\ outcome \in TestOutcomes
  BY DEF SuiteTyped, Size
<1>2. DOMAIN suite = 1..Len(suite) /\ \A i \in 1..Len(suite) : suite[i] \in Verdicts
  BY <1>1
<1>3. Len(suite) \in Nat \ {0} /\ Len(suite) <= MaxScenarios
  BY <1>1, BoundsAssumption
<1>4. TotalRuns \in Nat
  BY <1>1 DEF TotalRuns, TestOutcomes
<1>5. QED BY <1>1, <1>2, <1>3, <1>4, VerdictsAssumption DEF Size

LEMMA CountStep ==
  ASSUME Size \in Nat, NEW n \in 0..(Size - 1), NEW verdict
  PROVE  /\ Counted(n, verdict) \in Nat
         /\ Counted(n + 1, verdict) = IF suite[n + 1] = verdict THEN Counted(n, verdict) + 1
                                      ELSE Counted(n, verdict)
<1> DEFINE Those(k) == {i \in 1..k : suite[i] = verdict}
<1>1. /\ n \in Nat /\ 1..(n + 1) = (1..n) \cup {n + 1} /\ n + 1 \notin 1..n
      /\ 1..n \subseteq 1..(n + 1)
  OBVIOUS
<1>2. IsFiniteSet(Those(n))
  <2>1. IsFiniteSet(1..n)
    BY <1>1, FS_Interval
  <2>2. QED BY <2>1, FS_Subset
<1>3. n + 1 \notin Those(n)
  BY <1>1
<1>4. Those(n + 1) = IF suite[n + 1] = verdict THEN Those(n) \cup {n + 1} ELSE Those(n)
  BY <1>1
<1> HIDE DEF Those
<1>5. /\ Cardinality(Those(n)) \in Nat
      /\ Cardinality(Those(n) \cup {n + 1}) = Cardinality(Those(n)) + 1
  BY <1>2, <1>3, FS_CardinalityType, FS_AddElement
<1>6. QED BY <1>4, <1>5 DEF Counted, Those

(* An outcome stays one, whatever field of it is updated. *)
LEMMA OutcomeFields ==
  ASSUME NEW old \in TestOutcomes
  PROVE  /\ old.passed \in Nat /\ old.failed \in Nat /\ old.failures \in Nat /\ old.errors \in Nat
         /\ old.traces \in Seq(1..Size)
         /\ \A n \in Nat : /\ [old EXCEPT !.passed = n] \in TestOutcomes
                            /\ [old EXCEPT !.failed = n] \in TestOutcomes
                            /\ [old EXCEPT !.failures = n] \in TestOutcomes
                            /\ [old EXCEPT !.errors = n] \in TestOutcomes
         /\ \A traces \in Seq(1..Size) : [old EXCEPT !.traces = traces] \in TestOutcomes
BY DEF TestOutcomes

LEMMA TallyRun ==
  ASSUME SuiteTyped, NEW n \in 0..(Size - 1), Tally(outcome, n), suite[n + 1] \in {"pass", "fail"}
  PROVE  /\ Tally(RecordRun(outcome, n + 1), n + 1)
         /\ RecordRun(outcome, n + 1) \in TestOutcomes
         /\ suite[n + 1] = "pass" => RecordRun(outcome, n + 1).failed = outcome.failed
<1> DEFINE i == n + 1
           after == RecordRun(outcome, i)
           traces == Append(outcome.traces, i)
<1>1. /\ Size \in Nat /\ n \in Nat /\ i \in 1..Size /\ 1..i = (1..n) \cup {i} /\ i \notin 1..n
      /\ outcome \in TestOutcomes /\ outcome.traces \in Seq(1..Size)
  BY SuiteFacts DEF TestOutcomes
<1>2. /\ after \in TestOutcomes
      /\ after.passed = IF suite[i] = "pass" THEN outcome.passed + 1 ELSE outcome.passed
      /\ after.failed = IF suite[i] = "pass" THEN outcome.failed ELSE outcome.failed + 1
      /\ after.failures = IF suite[i] = "pass" THEN outcome.failures ELSE outcome.failures + 1
      /\ after.errors = outcome.errors
      /\ after.traces = IF policy = "none" THEN outcome.traces ELSE traces
  <2>1. traces \in Seq(1..Size) /\ TracesWith(outcome.traces, i) = traces
    BY <1>1, AppendFacts DEF TracesWith
  <2> HIDE DEF traces, i
  <2>2. /\ after.passed = IF suite[i] = "pass" THEN outcome.passed + 1 ELSE outcome.passed
        /\ after.failed = IF suite[i] = "pass" THEN outcome.failed ELSE outcome.failed + 1
        /\ after.failures = IF suite[i] = "pass" THEN outcome.failures ELSE outcome.failures + 1
        /\ after.errors = outcome.errors
        /\ after.traces = IF policy = "none" THEN outcome.traces ELSE traces
    BY <1>1, <2>1 DEF RecordRun, TestOutcomes
  <2> DEFINE passed == IF suite[i] = "pass" THEN outcome.passed + 1 ELSE outcome.passed
             first  == [outcome EXCEPT !.passed = passed]
             failed == IF suite[i] = "pass" THEN first.failed ELSE first.failed + 1
             second == [first EXCEPT !.failed = failed]
             failures == IF suite[i] = "pass" THEN second.failures ELSE second.failures + 1
             third  == [second EXCEPT !.failures = failures]
             traced == IF policy = "none" THEN third.traces ELSE TracesWith(third.traces, i)
  <2>3. first \in TestOutcomes
    <3>1. passed \in Nat
      BY <1>1, OutcomeFields
    <3>2. QED BY <1>1, <3>1, OutcomeFields
  <2>4. second \in TestOutcomes
    <3> HIDE DEF first
    <3>1. failed \in Nat
      BY <2>3, OutcomeFields
    <3>2. QED BY <2>3, <3>1, OutcomeFields
  <2>5. third \in TestOutcomes
    <3> HIDE DEF second
    <3>1. failures \in Nat
      BY <2>4, OutcomeFields
    <3>2. QED BY <2>4, <3>1, OutcomeFields
  <2>6. [third EXCEPT !.traces = traced] \in TestOutcomes
    <3> HIDE DEF third
    <3>1. traced \in Seq(1..Size)
      BY <1>1, <2>5, OutcomeFields, AppendFacts DEF TracesWith
    <3>2. QED BY <2>5, <3>1, OutcomeFields
  <2>7. after = [third EXCEPT !.traces = traced]
    BY DEF RecordRun
  <2>8. QED BY <2>2, <2>6, <2>7
<1>3. /\ Counted(i, "pass") = IF suite[i] = "pass" THEN Counted(n, "pass") + 1 ELSE Counted(n, "pass")
      /\ Counted(i, "fail") = IF suite[i] = "fail" THEN Counted(n, "fail") + 1 ELSE Counted(n, "fail")
      /\ Counted(i, "error") = IF suite[i] = "error" THEN Counted(n, "error") + 1 ELSE Counted(n, "error")
  BY <1>1, CountStep
<1>4. /\ traces \in Seq(1..Size) /\ Len(traces) = Len(outcome.traces) + 1
      /\ ToSet(traces) = ToSet(outcome.traces) \cup {i}
      /\ \A k \in DOMAIN outcome.traces : traces[k] = outcome.traces[k]
      /\ traces[Len(outcome.traces) + 1] = i
  BY <1>1, AppendFacts
<1>5. policy # "none" => Rising(traces)
  <2> HIDE DEF traces
  <2> SUFFICES ASSUME policy # "none", NEW j \in DOMAIN traces, NEW k \in DOMAIN traces, j < k
               PROVE  traces[j] < traces[k]
    BY DEF Rising
  <2>1. /\ DOMAIN outcome.traces = 1..Len(outcome.traces) /\ Len(outcome.traces) \in Nat
        /\ DOMAIN traces = 1..(Len(outcome.traces) + 1)
        /\ \A l \in DOMAIN outcome.traces : outcome.traces[l] \in 1..Size
    <3> HIDE DEF i
    <3>1. DOMAIN outcome.traces = 1..Len(outcome.traces) /\ Len(outcome.traces) \in Nat
      BY <1>1
    <3>2. DOMAIN traces = 1..Len(traces)
      BY <1>4
    <3>3. \A l \in DOMAIN outcome.traces : outcome.traces[l] \in 1..Size
      BY <1>1
    <3>4. QED BY <1>4, <3>1, <3>2, <3>3
  <2>2. \A l \in DOMAIN outcome.traces : outcome.traces[l] \in 1..n
    BY DEF Tally, ToSet
  <2>3. CASE k = Len(outcome.traces) + 1
    <3>1. j \in DOMAIN outcome.traces /\ traces[k] = n + 1
      BY <1>4, <2>1, <2>3
    <3>2. traces[j] \in 1..n
      BY <1>4, <2>2, <3>1
    <3>3. QED BY <1>1, <3>1, <3>2
  <2>4. CASE k # Len(outcome.traces) + 1
    <3>1. j \in DOMAIN outcome.traces /\ k \in DOMAIN outcome.traces
      BY <2>1, <2>4
    <3>2. outcome.traces[j] < outcome.traces[k]
      BY <3>1 DEF Tally, Rising
    <3>3. QED BY <1>4, <3>1, <3>2
  <2>5. QED BY <2>3, <2>4
<1>6. ToSet(after.traces) = IF policy = "none" THEN {}
                          ELSE {l \in 1..i : suite[l] \in {"pass", "fail"}}
  <2>1. {l \in 1..i : suite[l] \in {"pass", "fail"}}
          = {l \in 1..n : suite[l] \in {"pass", "fail"}} \cup {i}
    BY <1>1
  <2>2. QED BY <1>2, <1>4, <2>1 DEF Tally
<1>7. /\ Len(after.traces) <= i /\ Rising(after.traces) /\ after.traces \in Seq(1..Size)
  <2>1. Len(outcome.traces) \in Nat /\ Len(outcome.traces) <= n /\ Rising(outcome.traces)
    BY <1>1 DEF Tally
  <2>2. after.traces = IF policy = "none" THEN outcome.traces ELSE traces
    BY <1>2
  <2> HIDE DEF traces, after
  <2>3. QED BY <1>1, <1>4, <1>5, <2>1, <2>2
<1>8. /\ after.passed = Counted(i, "pass") /\ after.failures = Counted(i, "fail")
      /\ after.errors = Counted(i, "error") /\ after.failed = after.failures + after.errors
      /\ after.passed + after.failed = i
      /\ after.passed \in Nat /\ after.failed \in Nat /\ after.failures \in Nat /\ after.errors \in Nat
  <2>1. /\ outcome.passed \in Nat /\ outcome.failed \in Nat /\ outcome.failures \in Nat
        /\ outcome.errors \in Nat /\ outcome.passed + outcome.failed = n
        /\ outcome.passed = Counted(n, "pass") /\ outcome.failures = Counted(n, "fail")
        /\ outcome.errors = Counted(n, "error") /\ outcome.failed = outcome.failures + outcome.errors
    BY <1>1 DEF Tally, TestOutcomes
  <2>2. CASE suite[i] = "pass"
    BY <1>2, <1>3, <2>1, <2>2
  <2>3. CASE suite[i] = "fail"
    BY <1>2, <1>3, <2>1, <2>3
  <2>4. QED BY <2>2, <2>3
<1>9. \A l \in 1..i : suite[l] # "panic"
  BY <1>1 DEF Tally
<1>10. after \in TestOutcomes
  BY <1>2, <1>7, <1>8 DEF TestOutcomes
<1>11. i \in 0..Size
  BY <1>1
<1>12. suite[i] = "pass" => after.failed = outcome.failed
  BY <1>2
<1> HIDE DEF after
<1>13. Tally(after, i)
  BY <1>6, <1>7, <1>8, <1>9, <1>11 DEF Tally
<1>14. QED BY <1>10, <1>12, <1>13 DEF after

LEMMA TallyError ==
  ASSUME SuiteTyped, NEW n \in 0..(Size - 1), Tally(outcome, n), suite[n + 1] = "error"
  PROVE  /\ Tally(RecordWorkerError(outcome), n + 1)
         /\ RecordWorkerError(outcome) \in TestOutcomes
<1> DEFINE i == n + 1
           after == RecordWorkerError(outcome)
<1>1. /\ Size \in Nat /\ n \in Nat /\ i \in 1..Size /\ 1..i = (1..n) \cup {i}
      /\ outcome \in TestOutcomes
  BY SuiteFacts
<1>2. /\ after \in TestOutcomes
      /\ after.passed = outcome.passed /\ after.failed = outcome.failed + 1
      /\ after.failures = outcome.failures /\ after.errors = outcome.errors + 1
      /\ after.traces = outcome.traces
  <2> DEFINE first == [outcome EXCEPT !.failed = outcome.failed + 1]
             second == [first EXCEPT !.errors = first.errors + 1]
  <2>1. first \in TestOutcomes
    <3>1. outcome.failed + 1 \in Nat
      BY <1>1, OutcomeFields
    <3>2. QED BY <1>1, <3>1, OutcomeFields
  <2>2. second \in TestOutcomes
    <3> HIDE DEF first
    <3>1. first.errors + 1 \in Nat
      BY <2>1, OutcomeFields
    <3>2. QED BY <2>1, <3>1, OutcomeFields
  <2>3. after = second
    BY DEF RecordWorkerError
  <2>4. /\ after.passed = outcome.passed /\ after.failed = outcome.failed + 1
        /\ after.failures = outcome.failures /\ after.errors = outcome.errors + 1
        /\ after.traces = outcome.traces
    BY <1>1 DEF RecordWorkerError, TestOutcomes
  <2>5. QED BY <2>2, <2>3, <2>4
<1>3. /\ Counted(i, "pass") = Counted(n, "pass") /\ Counted(i, "fail") = Counted(n, "fail")
      /\ Counted(i, "error") = Counted(n, "error") + 1
  BY <1>1, CountStep
<1>4. /\ outcome.passed \in Nat /\ outcome.failed \in Nat /\ outcome.failures \in Nat
      /\ outcome.errors \in Nat /\ Len(outcome.traces) \in Nat
  BY <1>1 DEF TestOutcomes
<1>5. {l \in 1..i : suite[l] \in {"pass", "fail"}} = {l \in 1..n : suite[l] \in {"pass", "fail"}}
  BY <1>1
<1>6. after \in TestOutcomes
  BY <1>1, <1>2, <1>4 DEF TestOutcomes
<1>7. /\ after.passed = outcome.passed /\ after.failed = outcome.failed + 1
      /\ after.failures = outcome.failures /\ after.errors = outcome.errors + 1
      /\ after.traces = outcome.traces
  BY <1>2
<1> HIDE DEF after
<1>8. i \in 0..Size /\ after.passed + after.failed = i /\ after.failed = after.failures + after.errors
  <2>1. outcome.passed + outcome.failed = n /\ outcome.failed = outcome.failures + outcome.errors
    BY DEF Tally
  <2>2. /\ outcome.passed + (outcome.failed + 1) = n + 1
        /\ outcome.failed + 1 = outcome.failures + (outcome.errors + 1)
    <3>1. \A a, b, c, d \in Nat : a + b = n /\ b = c + d
            => a + (b + 1) = n + 1 /\ b + 1 = c + (d + 1)
      BY <1>1
    <3>2. QED BY <1>4, <2>1, <3>1, SMTT(20)
  <2>3. i \in 0..Size
    BY <1>1
  <2>4. QED BY <1>7, <2>2, <2>3
<1>9. /\ after.passed = Counted(i, "pass") /\ after.failures = Counted(i, "fail")
      /\ after.errors = Counted(i, "error")
  BY <1>3, <1>7 DEF Tally
<1>10. /\ Len(after.traces) <= i /\ Rising(after.traces)
       /\ ToSet(after.traces) = IF policy = "none" THEN {}
                              ELSE {l \in 1..i : suite[l] \in {"pass", "fail"}}
  <2>1. /\ Len(outcome.traces) <= n /\ Rising(outcome.traces)
        /\ ToSet(outcome.traces) = IF policy = "none" THEN {}
                                   ELSE {l \in 1..n : suite[l] \in {"pass", "fail"}}
    BY DEF Tally
  <2>2. Len(outcome.traces) <= i
    BY <1>1, <1>4, <2>1
  <2>3. QED BY <1>5, <1>7, <2>1, <2>2
<1>11. \A l \in 1..i : suite[l] # "panic"
  BY <1>1 DEF Tally
<1>12. Tally(after, i)
  BY <1>8, <1>9, <1>10, <1>11 DEF Tally
<1>13. QED BY <1>6, <1>12 DEF after
-----------------------------------------------------------------------------
(* A serial suite: nothing is with a worker, and the counters of the       *)
(* outcome say where the suite is.                                         *)
LEMMA QueuesHoldNumbers ==
  ASSUME SuiteTyped
  PROVE  /\ \A k \in DOMAIN queue : queue[k] \in 1..Size
         /\ \A k \in DOMAIN results : results[k] \in 1..Size
<1> DEFINE S == 1..Size
<1>1. queue \in Seq(S) /\ results \in Seq(S)
  BY DEF SuiteTyped
<1> HIDE DEF S
<1>2. /\ \A k \in DOMAIN queue : queue[k] \in S
      /\ \A k \in DOMAIN results : results[k] \in S
  BY <1>1
<1>3. QED BY <1>2 DEF S

LEMMA SerialIsQuiet ==
  ASSUME SuiteTyped, ThreadsInv, Serial
  PROVE  /\ \A i \in 1..Size : worker[i] = "idle"
         /\ ToSet(queue) \cup ToSet(results) = {}
<1>1. \A i \in 1..Size : worker[i] = "idle"
  BY DEF ThreadsInv
<1>2. \A i \in ToSet(queue) \cup ToSet(results) : i \in 1..Size /\ worker[i] = "sent"
  <2>1. \A i \in ToSet(queue) \cup ToSet(results) : i \in 1..Size
    BY QueuesHoldNumbers, Zenon DEF ToSet
  <2>2. QED BY <2>1 DEF ThreadsInv
<1>3. QED BY <1>1, <1>2

(* A tally that the next state's outcome has now is its tally then. *)
LEMMA TallyLater ==
  ASSUME UNCHANGED <<suite, policy>>, Tally(outcome', TotalRuns')
  PROVE  Tally(outcome, TotalRuns)'
<1>1. suite' = suite /\ policy' = policy /\ Size' = Size
  BY DEF Size
<1>2. \A verdict : Counted(TotalRuns, verdict)' = Counted(TotalRuns', verdict)
  BY <1>1, Zenon DEF Counted
<1>3. Rising(outcome.traces)' = Rising(outcome'.traces) /\ ToSet(outcome.traces)' = ToSet(outcome'.traces)
  BY Zenon DEF Rising, ToSet
<1>4. {i \in 1..TotalRuns : suite[i] \in {"pass", "fail"}}'
        = {i \in 1..TotalRuns' : suite[i] \in {"pass", "fail"}}
  BY <1>1, Zenon
<1>5. QED BY <1>1, <1>2, <1>3, <1>4 DEF Tally

LEMMA SerialStep == ASSUME SuiteInv, RunSerial PROVE SuiteInv'
<1> DEFINE m == TotalRuns
<1>1. /\ phase = "run" /\ Serial /\ seeds' = [seeds EXCEPT ![next] = m + 1]
      /\ next' = next + 1
      /\ UNCHANGED <<suite, jobs, failFast, policy, inFlight, worker, queue, results,
                     saved, disk, report>>
  BY DEF RunSerial, options, threads, output
<1>2. /\ SuiteTyped /\ Tally(outcome, m) /\ ThreadsInv /\ ProgressInv /\ SeedsFollowPlace
      /\ Size \in Nat \ {0} /\ m \in Nat /\ m < Size /\ next = m + 1
  BY <1>1, SuiteFacts DEF SuiteInv, ProgressInv
<1>3. /\ Size' = Size /\ Serial' = Serial /\ DOMAIN suite = 1..Size /\ m \in 0..(Size - 1)
      /\ next \in 1..Size /\ saved = 0
  BY <1>1, <1>2, SuiteFacts DEF Size, Serial, Jobs, ProgressInv
<1>4. SeedsFollowPlace'
  <2>1. \A i \in 1..Size : seeds'[i] = IF i = next THEN next ELSE seeds[i]
    BY <1>1, <1>2, <1>3 DEF SuiteTyped
  <2>2. QED BY <1>1, <1>2, <1>3, <2>1 DEF SeedsFollowPlace
<1>5. ThreadsInv'
  <2>1. /\ \A i \in 1..Size : worker[i] = "idle"
        /\ ToSet(queue) = {} /\ ToSet(results) = {}
    BY <1>1, <1>2, SerialIsQuiet
  <2>2. Distinct(queue) /\ Distinct(results)
    BY <1>2 DEF ThreadsInv
  <2>3. /\ \A i \in 1..Size' : worker'[i] = "idle"
        /\ ToSet(queue)' = {} /\ ToSet(results)' = {} /\ Distinct(queue)' /\ Distinct(results)'
        /\ Serial'
    BY <1>1, <1>3, <2>1, <2>2 DEF ToSet, Distinct
  <2>4. QED BY <2>3 DEF ThreadsInv
<1>6. SavedInv'
  BY <1>1, <1>3 DEF SavedInv
<1>7. ASSUME outcome' \in TestOutcomes,
             phase' \in {"run", "traces", "aborted", "crashed"}
      PROVE  SuiteTyped'
  <2>1. next' \in 1..(Size' + 1) /\ Size' \in 1..MaxScenarios
    BY <1>1, <1>2, <1>3 DEF SuiteTyped
  <2>2. seeds' \in [1..Size' -> Nat]
    BY <1>1, <1>2, <1>3 DEF SuiteTyped
  <2>3. saved' \in 0..Len(outcome'.traces)
    <3>1. Len(outcome'.traces) \in Nat
      BY <1>7 DEF TestOutcomes
    <3>2. QED BY <1>1, <1>3, <3>1
  <2>4. QED BY <1>1, <1>2, <1>3, <1>7, <2>1, <2>2, <2>3 DEF SuiteTyped, TestOutcomes, Names
<1>8. CASE suite[next] \in {"panic", "error"}
  <2>1. phase' \in {"crashed", "aborted"} /\ outcome' = outcome
    BY <1>8 DEF RunSerial
  <2>2. TotalRuns' = m
    BY <2>1 DEF TotalRuns
  <2>3. ProgressInv'
    BY <1>1, <1>3, <2>1 DEF ProgressInv
  <2>4. Tally(outcome, TotalRuns)'
    BY <1>1, <1>2, <2>1, <2>2, TallyLater
  <2>5. SuiteTyped'
    BY <1>2, <1>7, <2>1, SuiteFacts
  <2>6. QED BY <1>4, <1>5, <1>6, <2>3, <2>4, <2>5 DEF SuiteInv
<1>9. CASE suite[next] \in {"pass", "fail"}
  <2>1. /\ outcome' = RecordRun(outcome, next)
        /\ phase' = IF next = Size \/ (failFast /\ outcome'.failed > 0) THEN "traces" ELSE "run"
    BY <1>9 DEF RunSerial
  <2>2. /\ Tally(outcome', m + 1) /\ outcome' \in TestOutcomes
        /\ suite[next] = "pass" => outcome'.failed = outcome.failed
    BY <1>2, <1>3, <1>9, <2>1, TallyRun
  <2>3. TotalRuns' = m + 1
    BY <2>2 DEF Tally, TotalRuns
  <2>4. Tally(outcome, TotalRuns)'
    BY <1>1, <2>2, <2>3, TallyLater
  <2>5. SuiteTyped'
    BY <1>7, <2>1, <2>2
  <2>6. ProgressInv'
    <3>1. \A i \in 1..m : suite[i] \in {"pass", "fail"} /\ (failFast => suite[i] = "pass")
      BY <1>1, <1>2 DEF ProgressInv
    <3>2. failFast => outcome.failed = 0
      <4>1. failFast => Counted(m, "fail") = 0 /\ Counted(m, "error") = 0
        <5>1. ASSUME failFast, NEW v \in {"fail", "error"} PROVE {i \in 1..m : suite[i] = v} = {}
          BY <3>1, <5>1
        <5>2. QED BY <5>1, FS_EmptySet DEF Counted
      <4>2. QED BY <1>2, <4>1 DEF Tally
    <3>3. failFast => (outcome'.failed > 0 <=> suite[next] # "pass")
      <4>1. ASSUME failFast, suite[next] # "pass" PROVE outcome'.failed > 0
        <5>1. outcome'.failed \in Nat /\ outcome'.passed \in Nat
          BY <2>2 DEF TestOutcomes
        <5>2. outcome'.failures = Counted(m + 1, "fail") /\ outcome'.failures \in Nat
              /\ outcome'.errors \in Nat /\ outcome'.failed = outcome'.failures + outcome'.errors
          BY <2>2 DEF Tally, TestOutcomes
        <5>3. Counted(m + 1, "fail") = Counted(m, "fail") + 1 /\ Counted(m, "fail") \in Nat
          BY <1>2, <1>3, <1>9, <4>1, CountStep
        <5>4. QED BY <5>1, <5>2, <5>3
      <4>2. QED BY <2>2, <3>2, <4>1
    <3>4. CASE phase' = "traces"
      <4>1. m + 1 = Size \/ (failFast /\ suite[next] # "pass")
        BY <1>2, <2>1, <3>3, <3>4
      <4>2. Complete'
        BY <1>1, <1>2, <1>3, <2>3, <3>1, <4>1 DEF Complete
      <4>3. QED BY <1>1, <1>3, <3>4, <4>2 DEF ProgressInv
    <3>5. CASE phase' = "run"
      <4>1. m + 1 < Size /\ (failFast => suite[next] = "pass")
        BY <1>2, <2>1, <3>3, <3>5
      <4>2. \A i \in 1..(m + 1) : suite[i] \in {"pass", "fail"} /\ (failFast => suite[i] = "pass")
        BY <1>2, <1>9, <3>1, <4>1
      <4>3. /\ TotalRuns' < Size' /\ next' = TotalRuns' + 1 /\ saved' = 0
            /\ \A i \in 1..TotalRuns' : suite'[i] \in {"pass", "fail"} /\ (failFast' => suite'[i] = "pass")
        BY <1>1, <1>2, <1>3, <2>3, <4>1, <4>2
      <4>4. QED BY <3>5, <4>3 DEF ProgressInv
    <3>6. QED BY <2>1, <3>4, <3>5
  <2>7. QED BY <1>4, <1>5, <1>6, <2>4, <2>5, <2>6 DEF SuiteInv
<1>10. suite[next] \in {"pass", "fail", "error", "panic"}
  BY <1>2, <1>3, SuiteFacts
<1>11. QED BY <1>8, <1>9, <1>10
-----------------------------------------------------------------------------
(* A parallel suite: a scenario moves from one place to the next. *)
LEMMA PlacesAreNumbers ==
  ASSUME SuiteTyped, ThreadsInv
  PROVE  /\ ToSet(queue) \subseteq 1..Size /\ ToSet(results) \subseteq 1..Size
         /\ IsFiniteSet(Unmerged) /\ IsFiniteSet(Unmerged \ ToSet(results))
<1>1. \A k \in DOMAIN queue : queue[k] \in 1..Size
  BY QueuesHoldNumbers
<1>2. \A k \in DOMAIN results : results[k] \in 1..Size
  BY QueuesHoldNumbers
<1>3. IsFiniteSet(Unmerged)
  <2>1. TotalRuns + 1 \in Int /\ next - 1 \in Int
    BY SuiteFacts DEF SuiteTyped
  <2>2. QED BY <2>1, FS_Interval DEF Unmerged
<1>4. IsFiniteSet(Unmerged \ ToSet(results))
  BY <1>3, FS_Subset
<1>5. QED BY <1>1, <1>2, <1>3, <1>4 DEF ToSet

LEMMA SpawnStep == ASSUME SuiteInv, SpawnWorker PROVE SuiteInv'
<1>1. /\ phase = "run" /\ ~Serial /\ next <= Size /\ inFlight < Jobs
      /\ worker' = [worker EXCEPT ![next] = "running"]
      /\ seeds' = [seeds EXCEPT ![next] = next]
      /\ next' = next + 1 /\ inFlight' = inFlight + 1
      /\ UNCHANGED <<suite, jobs, failFast, policy, phase, queue, results, outcome, saved,
                     disk, report>>
  BY DEF SpawnWorker, MaySpawn, options, output
<1>2. /\ SuiteTyped /\ Tally(outcome, TotalRuns) /\ ThreadsInv /\ ProgressInv /\ SeedsFollowPlace
      /\ SavedInv /\ Size \in Nat \ {0} /\ TotalRuns \in Nat /\ next \in 1..Size /\ next \in Nat
  <2>1. /\ SuiteTyped /\ Tally(outcome, TotalRuns) /\ ThreadsInv /\ ProgressInv
        /\ SeedsFollowPlace /\ SavedInv
    BY DEF SuiteInv
  <2>2. Size \in Nat \ {0} /\ TotalRuns \in Nat
    BY <2>1, SuiteFacts
  <2>3. next \in 1..(Size + 1)
    BY <2>1 DEF SuiteTyped
  <2>4. next \in 1..Size /\ next \in Nat
    BY <1>1, <2>2, <2>3
  <2>5. QED BY <2>1, <2>2, <2>4
<1>3. /\ Size' = Size /\ Serial' = Serial /\ DOMAIN suite = 1..Size
      /\ TotalRuns' = TotalRuns
  BY <1>1, <1>2, SuiteFacts DEF Size, Serial, Jobs, TotalRuns
<1>4. TotalRuns = 0
  BY <1>1, <1>2 DEF ThreadsInv
<1>5. SeedsFollowPlace'
  <2>1. \A i \in 1..Size : seeds'[i] = IF i = next THEN next ELSE seeds[i]
    BY <1>1, <1>2, <1>3 DEF SuiteTyped
  <2>2. QED BY <1>1, <1>2, <1>3, <2>1 DEF SeedsFollowPlace
<1>6. SuiteTyped'
  <2>1. next' \in 1..(Size' + 1) /\ Size' \in 1..MaxScenarios /\ inFlight' \in Nat
    BY <1>1, <1>2, <1>3 DEF SuiteTyped
  <2>2. /\ seeds' \in [1..Size' -> Nat]
        /\ worker' \in [1..Size' -> {"idle", "running", "sent", "dead"}]
    BY <1>1, <1>2, <1>3 DEF SuiteTyped
  <2>3. QED BY <1>1, <1>2, <1>3, <2>1, <2>2 DEF SuiteTyped, TestOutcomes, Names
<1>7. ThreadsInv'
  <2>1. \A i \in 1..Size : worker'[i] = IF i = next THEN "running" ELSE worker[i]
    BY <1>1, <1>2 DEF SuiteTyped
  <2>2. /\ Unmerged' = Unmerged \cup {next} /\ next \notin Unmerged
    BY <1>1, <1>2, <1>3, <1>4 DEF Unmerged
  <2>3. next \notin ToSet(queue) \cup ToSet(results)
    BY <1>2, <2>2 DEF ThreadsInv
  <2>4. ToSet(queue)' = ToSet(queue) /\ ToSet(results)' = ToSet(results)
        /\ Distinct(queue)' = Distinct(queue) /\ Distinct(results)' = Distinct(results)
    BY <1>1 DEF ToSet, Distinct
  <2>5. inFlight' = Cardinality(Unmerged \ ToSet(results))'
    <3>1. (Unmerged \ ToSet(results))' = (Unmerged \ ToSet(results)) \cup {next}
      BY <2>2, <2>3, <2>4
    <3>2. Cardinality((Unmerged \ ToSet(results)) \cup {next})
            = Cardinality(Unmerged \ ToSet(results)) + 1
      BY <1>2, <2>2, PlacesAreNumbers, FS_AddElement
    <3>3. QED BY <1>1, <1>2, <3>1, <3>2 DEF ThreadsInv
  <2>6. \A i \in 1..Size' : /\ worker'[i] # "idle" => i < next' /\ ~Serial'
                            /\ worker'[i] = "sent" => suite'[i] # "panic"
    BY <1>1, <1>2, <1>3, <2>1 DEF ThreadsInv
  <2>7. \A i \in ToSet(queue)' \cup ToSet(results)' : i \in Unmerged' /\ worker'[i] = "sent"
    <3>1. ASSUME NEW i \in ToSet(queue) \cup ToSet(results) PROVE i \in Unmerged' /\ worker'[i] = "sent"
      <4>1. i \in Unmerged /\ worker[i] = "sent" /\ i \in 1..Size /\ i # next
        BY <1>2, <2>3, PlacesAreNumbers DEF ThreadsInv
      <4>2. QED BY <2>1, <2>2, <4>1
    <3>2. QED BY <2>4, <3>1
  <2>8. QED BY <1>2, <1>3, <1>4, <2>4, <2>5, <2>6, <2>7 DEF ThreadsInv
<1>8. Tally(outcome, TotalRuns)'
  BY <1>1, <1>2, <1>3, TallyLater
<1>9. ProgressInv'
  BY <1>1, <1>2, <1>3 DEF ProgressInv
<1>10. SavedInv'
  BY <1>1, <1>2 DEF SavedInv, ProgressInv
<1>11. QED BY <1>5, <1>6, <1>7, <1>8, <1>9, <1>10 DEF SuiteInv

(* What a step that leaves the outcome and the traces alone keeps. *)
LEMMA SameOutcome ==
  ASSUME SuiteInv,
         UNCHANGED <<suite, jobs, failFast, policy, phase, next, seeds, outcome, saved, disk, report>>
  PROVE  /\ Tally(outcome, TotalRuns)' /\ SavedInv' /\ ProgressInv' /\ SeedsFollowPlace'
         /\ Size' = Size /\ Serial' = Serial /\ TotalRuns' = TotalRuns /\ Unmerged' = Unmerged
<1>1. Size' = Size /\ Serial' = Serial /\ TotalRuns' = TotalRuns /\ Unmerged' = Unmerged
  BY DEF Size, Serial, Jobs, TotalRuns, Unmerged
<1>2. Tally(outcome, TotalRuns)'
  BY <1>1, TallyLater DEF SuiteInv
<1>3. SavedInv' /\ SeedsFollowPlace'
  BY DEF SuiteInv, SavedInv, SeedsFollowPlace, Target, ToSet
<1>4. Complete' = Complete
  BY <1>1 DEF Complete
<1>5. ProgressInv'
  BY <1>1, <1>4 DEF SuiteInv, ProgressInv
<1>6. QED BY <1>1, <1>2, <1>3, <1>5

LEMMA WorkStep == ASSUME SuiteInv, NEW w \in DOMAIN suite, Work(w) PROVE SuiteInv'
<1>1. /\ worker[w] = "running"
      /\ \/ Unwinds(w) /\ worker' = [worker EXCEPT ![w] = "dead"] /\ UNCHANGED queue
         \/ ~Unwinds(w) /\ worker' = [worker EXCEPT ![w] = "sent"] /\ queue' = Append(queue, w)
      /\ UNCHANGED <<suite, jobs, failFast, policy, phase, next, inFlight, results, seeds,
                     outcome, saved, disk, report>>
  BY DEF Work, options, output
<1>2. /\ SuiteTyped /\ ThreadsInv /\ w \in 1..Size /\ TotalRuns \in Nat /\ next \in Nat
      /\ TotalRuns <= Size
  <2>1. SuiteTyped /\ ThreadsInv /\ TotalRuns \in 0..Size
    BY DEF SuiteInv, Tally
  <2>2. next \in Nat
    BY <2>1, SuiteFacts DEF SuiteTyped
  <2>3. QED BY <2>1, <2>2, SuiteFacts
<1>3. /\ Tally(outcome, TotalRuns)' /\ SavedInv' /\ ProgressInv' /\ SeedsFollowPlace'
      /\ Size' = Size /\ Serial' = Serial /\ TotalRuns' = TotalRuns /\ Unmerged' = Unmerged
  BY <1>1, SameOutcome
<1>4. w \in Unmerged /\ ~Serial /\ w \notin ToSet(queue) \cup ToSet(results)
  <2>1. w < next /\ ~Serial
    BY <1>1, <1>2 DEF ThreadsInv
  <2>2. ~ (w \in 1..TotalRuns)
    BY <1>1, <1>2, <2>1 DEF ThreadsInv
  <2>3. w \in Unmerged
    BY <1>2, <2>1, <2>2 DEF Unmerged
  <2>4. w \notin ToSet(queue) \cup ToSet(results)
    BY <1>1, <1>2 DEF ThreadsInv
  <2>5. QED BY <2>1, <2>3, <2>4
<1>5. /\ queue' \in Seq(1..Size) /\ Distinct(queue)'
      /\ ToSet(queue)' = IF Unwinds(w) THEN ToSet(queue) ELSE ToSet(queue) \cup {w}
      /\ ToSet(results)' = ToSet(results) /\ Distinct(results)'
  <2>1. /\ Append(queue, w) \in Seq(1..Size) /\ Distinct(Append(queue, w))
        /\ ToSet(Append(queue, w)) = ToSet(queue) \cup {w}
    <3> DEFINE S == 1..Size
    <3>1. queue \in Seq(S) /\ Distinct(queue) /\ w \in S /\ w \notin ToSet(queue)
      BY <1>2, <1>4 DEF SuiteTyped, ThreadsInv
    <3> HIDE DEF S
    <3>2. /\ Append(queue, w) \in Seq(S) /\ Distinct(Append(queue, w))
          /\ ToSet(Append(queue, w)) = ToSet(queue) \cup {w}
      BY <3>1, AppendNew
    <3>3. QED BY <3>2 DEF S
  <2>2. ToSet(queue)' = ToSet(queue') /\ Distinct(queue)' = Distinct(queue')
        /\ ToSet(results)' = ToSet(results') /\ Distinct(results)' = Distinct(results')
    BY Zenon DEF ToSet, Distinct
  <2>3. queue \in Seq(1..Size) /\ Distinct(queue) /\ Distinct(results)
    BY <1>2 DEF SuiteTyped, ThreadsInv
  <2>4. QED BY <1>1, <2>1, <2>2, <2>3
<1>6. \A i \in 1..Size : worker'[i] = IF i # w THEN worker[i] ELSE IF Unwinds(w) THEN "dead" ELSE "sent"
  BY <1>1, <1>2 DEF SuiteTyped
<1>7. SuiteTyped'
  <2>1. worker' \in [1..Size' -> {"idle", "running", "sent", "dead"}]
    BY <1>1, <1>2, <1>3 DEF SuiteTyped
  <2>2. QED BY <1>1, <1>2, <1>3, <1>5, <2>1 DEF SuiteTyped, TestOutcomes, Names
<1>8. ThreadsInv'
  <2>1. \A i \in 1..Size' : /\ worker'[i] # "idle" => i < next' /\ ~Serial'
                            /\ worker'[i] = "sent" => suite'[i] # "panic"
    BY <1>1, <1>2, <1>3, <1>4, <1>6 DEF ThreadsInv, Unwinds
  <2>2. ~Serial' => \A i \in 1..TotalRuns' : worker'[i] = "sent"
    <3>1. \A i \in 1..TotalRuns : i \in 1..Size /\ i # w
      <4>1. w \in Int /\ w > TotalRuns /\ Size \in Nat
        BY <1>2, <1>4, SuiteFacts DEF Unmerged
      <4>2. QED BY <1>2, <4>1
    <3>2. QED BY <1>2, <1>3, <1>6, <3>1 DEF ThreadsInv
  <2>3. \A i \in ToSet(queue)' \cup ToSet(results)' : i \in Unmerged' /\ worker'[i] = "sent"
    <3>1. ASSUME NEW i \in ToSet(queue) \cup ToSet(results) PROVE i \in Unmerged /\ worker'[i] = "sent"
      <4>1. i \in Unmerged /\ worker[i] = "sent" /\ i \in 1..Size /\ i # w
        BY <1>2, <1>4, PlacesAreNumbers DEF ThreadsInv
      <4>2. QED BY <1>6, <4>1
    <3>2. ~Unwinds(w) => w \in Unmerged /\ worker'[w] = "sent"
      BY <1>2, <1>4, <1>6
    <3>3. QED BY <1>3, <1>5, <3>1, <3>2
  <2>4. ToSet(queue)' \cap ToSet(results)' = {}
    BY <1>2, <1>4, <1>5 DEF ThreadsInv
  <2>5. ~Serial' => /\ inFlight' = Cardinality(Unmerged \ ToSet(results))'
                    /\ TotalRuns' > 0 => inFlight' = 0 /\ next' = Size' + 1
    BY <1>1, <1>2, <1>3, <1>5 DEF ThreadsInv
  <2>6. QED BY <1>5, <2>1, <2>2, <2>3, <2>4, <2>5 DEF ThreadsInv
<1>9. QED BY <1>3, <1>7, <1>8 DEF SuiteInv
LEMMA ReceiveStep == ASSUME SuiteInv, Receive PROVE SuiteInv'
<1> DEFINE h == Head(queue)
<1>1. /\ phase = "run" /\ ~Serial /\ inFlight > 0 /\ queue # <<>>
      /\ results' = Append(results, h) /\ queue' = Tail(queue) /\ inFlight' = inFlight - 1
      /\ UNCHANGED <<suite, jobs, failFast, policy, phase, next, worker, seeds,
                     outcome, saved, disk, report>>
  BY DEF Receive, options, output
<1>2. /\ SuiteTyped /\ ThreadsInv /\ TotalRuns \in Nat /\ next \in Nat /\ inFlight \in Nat
      /\ queue \in Seq(1..Size) /\ results \in Seq(1..Size)
      /\ Distinct(queue) /\ Distinct(results)
  BY SuiteFacts DEF SuiteInv, SuiteTyped, ThreadsInv
<1>3. /\ Tally(outcome, TotalRuns)' /\ SavedInv' /\ ProgressInv' /\ SeedsFollowPlace'
      /\ Size' = Size /\ Serial' = Serial /\ TotalRuns' = TotalRuns /\ Unmerged' = Unmerged
  BY <1>1, SameOutcome
<1>4. /\ h \in 1..Size /\ h \in ToSet(queue)
      /\ Tail(queue) \in Seq(1..Size) /\ ToSet(Tail(queue)) = ToSet(queue) \ {h}
      /\ Distinct(Tail(queue))
  BY <1>1, <1>2, TailFacts
<1> HIDE DEF h
<1>5. h \in Unmerged /\ h \notin ToSet(results) /\ worker[h] = "sent"
  BY <1>2, <1>4 DEF ThreadsInv
<1>6. /\ Append(results, h) \in Seq(1..Size) /\ Distinct(Append(results, h))
      /\ ToSet(Append(results, h)) = ToSet(results) \cup {h}
  <2> DEFINE S == 1..Size
  <2>1. results \in Seq(S) /\ Distinct(results) /\ h \in S /\ h \notin ToSet(results)
    BY <1>2, <1>4, <1>5
  <2> HIDE DEF S
  <2>2. /\ Append(results, h) \in Seq(S) /\ Distinct(Append(results, h))
        /\ ToSet(Append(results, h)) = ToSet(results) \cup {h}
    BY <2>1, AppendNew
  <2>3. QED BY <2>2 DEF S
<1>7. /\ ToSet(queue)' = ToSet(queue) \ {h} /\ ToSet(results)' = ToSet(results) \cup {h}
      /\ Distinct(queue)' /\ Distinct(results)'
  <2>1. ToSet(queue)' = ToSet(queue') /\ Distinct(queue)' = Distinct(queue')
        /\ ToSet(results)' = ToSet(results') /\ Distinct(results)' = Distinct(results')
    BY Zenon DEF ToSet, Distinct
  <2>2. QED BY <1>1, <1>4, <1>6, <2>1
<1>8. SuiteTyped'
  <2>1. inFlight' \in Nat
    BY <1>1, <1>2
  <2>2. QED BY <1>1, <1>2, <1>3, <1>4, <1>6, <2>1 DEF SuiteTyped, TestOutcomes, Names
<1>9. inFlight' = Cardinality(Unmerged \ ToSet(results))'
  <2>1. (Unmerged \ ToSet(results))' = (Unmerged \ ToSet(results)) \ {h}
    BY <1>3, <1>7
  <2>2. /\ Cardinality((Unmerged \ ToSet(results)) \ {h}) = Cardinality(Unmerged \ ToSet(results)) - 1
    BY <1>2, <1>5, PlacesAreNumbers, FS_RemoveElement
  <2>3. QED BY <1>1, <1>2, <2>1, <2>2 DEF ThreadsInv
<1>10. ThreadsInv'
  <2>1. /\ \A i \in 1..Size' : /\ worker'[i] # "idle" => i < next' /\ ~Serial'
                               /\ worker'[i] = "sent" => suite'[i] # "panic"
        /\ ~Serial' => \A i \in 1..TotalRuns' : worker'[i] = "sent"
    BY <1>1, <1>2, <1>3 DEF ThreadsInv
  <2>2. \A i \in ToSet(queue)' \cup ToSet(results)' : i \in Unmerged' /\ worker'[i] = "sent"
    BY <1>1, <1>2, <1>3, <1>5, <1>7 DEF ThreadsInv
  <2>3. ToSet(queue)' \cap ToSet(results)' = {}
    BY <1>2, <1>7 DEF ThreadsInv
  <2>4. TotalRuns' > 0 => inFlight' = 0 /\ next' = Size' + 1
    BY <1>1, <1>2, <1>3 DEF ThreadsInv
  <2>5. QED BY <1>7, <1>9, <2>1, <2>2, <2>3, <2>4 DEF ThreadsInv
<1>11. QED BY <1>3, <1>8, <1>10 DEF SuiteInv

(* When no worker is waited for, what is not merged yet is received, and   *)
(* the results come out of it in the order of the suite.                   *)
LEMMA NextIsFirst ==
  ASSUME SuiteInv, phase = "run", ~Serial, next > Size, inFlight = 0
  PROVE  /\ FirstInOrder(results) \in DOMAIN results
         /\ results[FirstInOrder(results)] = TotalRuns + 1
         /\ ToSet(results) = (TotalRuns + 1)..Size /\ next = Size + 1
<1> DEFINE m == TotalRuns
<1>1. /\ SuiteTyped /\ ThreadsInv /\ Size \in Nat /\ m \in Nat /\ m < Size /\ next = Size + 1
      /\ next - 1 = Size
  <2>1. SuiteTyped /\ ThreadsInv /\ ProgressInv
    BY DEF SuiteInv
  <2>2. Size \in Nat /\ m \in Nat
    BY <2>1, SuiteFacts
  <2>3. m < Size
    BY <2>1 DEF ProgressInv
  <2>4. next \in 1..(Size + 1)
    BY <2>1 DEF SuiteTyped
  <2>5. QED BY <2>1, <2>2, <2>3, <2>4
<1>2. ToSet(results) = (m + 1)..Size
  <2>1. Unmerged \ ToSet(results) = {}
    BY <1>1, PlacesAreNumbers, FS_EmptySet DEF ThreadsInv
  <2>2. ToSet(results) \subseteq Unmerged
    BY <1>1 DEF ThreadsInv
  <2>3. QED BY <1>1, <2>1, <2>2 DEF Unmerged
<1>3. PICK k \in DOMAIN results : results[k] = m + 1
  <2>1. m + 1 \in ToSet(results)
    BY <1>1, <1>2
  <2>2. QED BY <2>1 DEF ToSet
<1>4. \A l \in DOMAIN results : results[l] \in (m + 1)..Size
  BY <1>2 DEF ToSet
<1>5. \A l \in DOMAIN results : results[k] <= results[l]
  BY <1>1, <1>3, <1>4
<1>6. /\ FirstInOrder(results) \in DOMAIN results
      /\ \A l \in DOMAIN results : results[FirstInOrder(results)] <= results[l]
  BY <1>5, Zenon DEF FirstInOrder
<1>7. results[FirstInOrder(results)] = m + 1
  <2>1. results[FirstInOrder(results)] <= m + 1 /\ results[FirstInOrder(results)] \in (m + 1)..Size
    BY <1>3, <1>4, <1>6
  <2>2. QED BY <1>1, <2>1
<1>8. QED BY <1>1, <1>2, <1>6, <1>7

LEMMA MergeStep == ASSUME SuiteInv, Merge PROVE SuiteInv'
<1> DEFINE m == TotalRuns
           k == FirstInOrder(results)
<1>1. /\ phase = "run" /\ ~Serial /\ next > Size /\ inFlight = 0
      /\ outcome' = IF suite[results[k]] = "error" THEN RecordWorkerError(outcome)
                    ELSE RecordRun(outcome, results[k])
      /\ results' = RemoveAt(results, k)
      /\ phase' = IF results' = <<>> THEN "traces" ELSE "run"
      /\ UNCHANGED <<suite, jobs, failFast, policy, next, inFlight, worker, queue, seeds,
                     saved, disk, report>>
  BY DEF Merge, options, output
<1>2. /\ k \in DOMAIN results /\ results[k] = m + 1
      /\ ToSet(results) = (m + 1)..Size /\ next = Size + 1
  BY <1>1, NextIsFirst
<1>3. /\ SuiteTyped /\ ThreadsInv /\ Size \in Nat \ {0} /\ m \in 0..(Size - 1) /\ m \in Nat
      /\ Tally(outcome, m) /\ results \in Seq(1..Size) /\ Distinct(results) /\ saved = 0
      /\ SeedsFollowPlace
  <2>1. SuiteTyped /\ ThreadsInv /\ ProgressInv /\ Tally(outcome, m) /\ SeedsFollowPlace
    BY DEF SuiteInv
  <2>2. Size \in Nat \ {0} /\ m \in Nat /\ m < Size /\ saved = 0
    BY <1>1, <2>1, SuiteFacts DEF ProgressInv
  <2>3. results \in Seq(1..Size) /\ Distinct(results)
    BY <2>1 DEF SuiteTyped, ThreadsInv
  <2>4. m \in 0..(Size - 1)
    BY <2>2
  <2>5. QED BY <2>1, <2>2, <2>3, <2>4
<1> HIDE DEF k
<1>4. /\ results' \in Seq(1..Size) /\ Distinct(results')
      /\ ToSet(results') = ((m + 1)..Size) \ {m + 1}
      /\ results' = <<>> <=> (m + 1)..Size \subseteq {m + 1}
  <2> DEFINE S == 1..Size
  <2>1. results \in Seq(S) /\ k \in DOMAIN results /\ Distinct(results)
    BY <1>2, <1>3
  <2> HIDE DEF S
  <2>2. /\ RemoveAt(results, k) \in Seq(S) /\ Distinct(RemoveAt(results, k))
        /\ ToSet(RemoveAt(results, k)) = ToSet(results) \ {results[k]}
        /\ RemoveAt(results, k) = <<>> <=> ToSet(results) \subseteq {results[k]}
    BY <2>1, RemoveFacts
  <2>3. QED BY <1>1, <1>2, <2>2 DEF S
<1>5. /\ Size' = Size /\ Serial' = Serial /\ ~failFast
  BY <1>1 DEF Size, Serial, Jobs
<1>6. worker[m + 1] = "sent" /\ suite[m + 1] # "panic" /\ m + 1 \in 1..Size
  <2>1. m + 1 \in 1..Size /\ m + 1 \in ToSet(results)
    BY <1>2, <1>3
  <2>2. QED BY <1>3, <2>1 DEF ThreadsInv
<1>7. Tally(outcome', m + 1) /\ outcome' \in TestOutcomes
  <2>1. CASE suite[m + 1] = "error"
    BY <1>1, <1>2, <1>3, <2>1, TallyError
  <2>2. CASE suite[m + 1] # "error"
    <3>1. suite[m + 1] \in {"pass", "fail"}
      BY <1>3, <1>6, <2>2, SuiteFacts
    <3>2. QED BY <1>1, <1>2, <1>3, <2>2, <3>1, TallyRun
  <2>3. QED BY <2>1, <2>2
<1>8. TotalRuns' = m + 1
  BY <1>7 DEF Tally, TotalRuns
<1>9. Tally(outcome, TotalRuns)'
  BY <1>1, <1>7, <1>8, TallyLater
<1>10. SuiteTyped'
  <2>1. saved' \in 0..Len(outcome'.traces)
    <3>1. Len(outcome'.traces) \in Nat
      BY <1>7 DEF TestOutcomes
    <3>2. QED BY <1>1, <1>3, <3>1
  <2>2. QED BY <1>1, <1>3, <1>4, <1>5, <1>7, <2>1 DEF SuiteTyped, TestOutcomes, Names
<1>11. /\ ToSet(queue)' = ToSet(queue) /\ Distinct(queue)' = Distinct(queue)
       /\ ToSet(results)' = ToSet(results') /\ Distinct(results)'
  <2>1. ToSet(queue)' = ToSet(queue') /\ Distinct(queue)' = Distinct(queue')
        /\ ToSet(results)' = ToSet(results') /\ Distinct(results)' = Distinct(results')
    BY Zenon DEF ToSet, Distinct
  <2>2. QED BY <1>1, <1>4, <2>1
<1>12. ToSet(queue) = {}
  BY <1>2, <1>3 DEF ThreadsInv, Unmerged
<1>13. ToSet(results') = (m + 2)..Size /\ Unmerged' = (m + 2)..Size
  <2>1. ToSet(results') = (m + 2)..Size
    BY <1>3, <1>4
  <2>2. Unmerged' = (m + 1 + 1)..(Size + 1 - 1)
    <3>1. next' = Size + 1
      BY <1>1, <1>2
    <3>2. QED BY <1>3, <1>8, <3>1 DEF Unmerged
  <2>3. QED BY <1>3, <2>1, <2>2
<1>14. ThreadsInv'
  <2>1. /\ \A i \in 1..Size' : /\ worker'[i] # "idle" => i < next' /\ ~Serial'
                               /\ worker'[i] = "sent" => suite'[i] # "panic"
    BY <1>1, <1>3, <1>5 DEF ThreadsInv
  <2>2. \A i \in 1..TotalRuns' : worker'[i] = "sent"
    BY <1>1, <1>3, <1>6, <1>8 DEF ThreadsInv
  <2>3. \A i \in ToSet(queue)' \cup ToSet(results)' : i \in Unmerged' /\ worker'[i] = "sent"
    <3>1. ASSUME NEW i \in ToSet(results') PROVE i \in Unmerged' /\ worker'[i] = "sent"
      BY <1>1, <1>2, <1>3, <1>4, <1>13, <3>1 DEF ThreadsInv
    <3>2. QED BY <1>11, <1>12, <3>1
  <2>4. inFlight' = Cardinality(Unmerged \ ToSet(results))'
    <3>1. (Unmerged \ ToSet(results))' = {}
      BY <1>11, <1>13
    <3>2. QED BY <1>1, <3>1, FS_EmptySet
  <2>5. QED BY <1>1, <1>2, <1>3, <1>5, <1>11, <1>12, <2>1, <2>2, <2>3, <2>4 DEF ThreadsInv
<1>15. ProgressInv'
  <2>1. CASE results' = <<>>
    <3>1. m + 1 = Size
      BY <1>3, <1>4, <2>1
    <3>2. Complete'
      BY <1>1, <1>5, <1>8, <3>1 DEF Complete
    <3>3. QED BY <1>1, <1>3, <2>1, <3>2 DEF ProgressInv
  <2>2. CASE results' # <<>>
    <3>1. m + 1 < Size
      BY <1>3, <1>4, <2>2
    <3>2. QED BY <1>1, <1>3, <1>5, <1>8, <2>2, <3>1 DEF ProgressInv
  <2>3. QED BY <2>1, <2>2
<1>16. SavedInv' /\ SeedsFollowPlace'
  BY <1>1, <1>3 DEF SavedInv, SeedsFollowPlace
<1>17. QED BY <1>9, <1>10, <1>14, <1>15, <1>16 DEF SuiteInv
-----------------------------------------------------------------------------
(* Of a rising sequence the k-th in order is the k-th: k - 1 of its        *)
(* elements are smaller.                                                   *)
LEMMA RisingIsOrdered ==
  ASSUME NEW n \in Nat, NEW s \in Seq(1..n), Rising(s), NEW k \in 1..Len(s)
  PROVE  KthInOrder(s, k) = s[k]
<1> DEFINE below(i) == {j \in ToSet(s) : j < i}
<1>1. /\ Len(s) \in Nat /\ DOMAIN s = 1..Len(s) /\ \A l \in 1..Len(s) : s[l] \in Nat
  <2> DEFINE S == 1..n
  <2>1. s \in Seq(S)
    OBVIOUS
  <2>2. Len(s) \in Nat /\ DOMAIN s = 1..Len(s) /\ \A l \in 1..Len(s) : s[l] \in S
    <3> HIDE DEF S
    <3>1. QED BY <2>1
  <2>3. QED BY <2>2
<1>2. ToSet(s) = {s[l] : l \in 1..Len(s)}
  BY <1>1 DEF ToSet
<1>3. \A l, m \in 1..Len(s) : s[l] < s[m] <=> l < m
  <2>1. \A l, m \in 1..Len(s) : l < m => s[l] < s[m]
    BY <1>1 DEF Rising
  <2>2. QED BY <1>1, <2>1
<1>4. ASSUME NEW m \in 1..Len(s)
      PROVE  Cardinality(below(s[m])) = m - 1
  <2> DEFINE f == [l \in 1..(m - 1) |-> s[l]]
  <2>1. below(s[m]) = {s[l] : l \in 1..(m - 1)}
    <3>1. ASSUME NEW j \in below(s[m]) PROVE j \in {s[l] : l \in 1..(m - 1)}
      <4>1. PICK l \in 1..Len(s) : j = s[l]
        BY <1>2
      <4>2. l \in 1..(m - 1)
        BY <1>1, <1>3, <4>1
      <4>3. QED BY <4>1, <4>2
    <3>2. ASSUME NEW l \in 1..(m - 1) PROVE s[l] \in below(s[m])
      BY <1>1, <1>2, <1>3
    <3>3. QED BY <3>1, <3>2
  <2>2. f \in Bijection(1..(m - 1), below(s[m]))
    <3>1. f \in [1..(m - 1) -> below(s[m])] /\ \A j \in below(s[m]) : \E l \in 1..(m - 1) : f[l] = j
      <4> HIDE DEF below
      <4>1. QED BY <2>1
    <3>2. \A l, o \in 1..(m - 1) : f[l] = f[o] => l = o
      <4>1. \A l, o \in 1..(m - 1) : l \in 1..Len(s) /\ o \in 1..Len(s) /\ f[l] = s[l] /\ f[o] = s[o]
        BY <1>1
      <4> HIDE DEF f
      <4>2. QED BY <1>1, <1>3, <4>1
    <3> HIDE DEF f, below
    <3>3. QED BY <3>1, <3>2, Zenon DEF Bijection, Injection, Surjection, IsInjective
  <2>3. ExistsBijection(1..(m - 1), below(s[m]))
    <3> HIDE DEF f, below
    <3>1. QED BY <2>2 DEF ExistsBijection
  <2>4. IsFiniteSet(1..(m - 1)) /\ Cardinality(1..(m - 1)) = m - 1
    <3> DEFINE b == m - 1
    <3>1. 1 \in Int /\ b \in Int /\ (IF 1 > b THEN 0 ELSE b - 1 + 1) = b
      BY <1>1
    <3> HIDE DEF b
    <3>2. IsFiniteSet(1..b) /\ Cardinality(1..b) = b
      BY <3>1, FS_Interval
    <3>3. QED BY <3>2 DEF b
  <2> HIDE DEF below
  <2>5. QED BY <2>3, <2>4, FS_Bijection
<1>5. s[k] \in ToSet(s) /\ Cardinality(below(s[k])) = k - 1
  BY <1>2, <1>4
<1>6. ASSUME NEW i \in ToSet(s), Cardinality(below(i)) = k - 1
      PROVE  i = s[k]
  <2>1. PICK m \in 1..Len(s) : i = s[m]
    BY <1>2
  <2>2. Cardinality(below(s[m])) = m - 1
    BY <1>4
  <2> HIDE DEF below
  <2>3. m - 1 = k - 1
    BY <1>6, <2>1, <2>2
  <2>4. m = k
    BY <1>1, <2>3
  <2>5. QED BY <2>1, <2>4
<1>7. KthInOrder(s, k) = CHOOSE i \in ToSet(s) : Cardinality(below(i)) = k - 1
  BY DEF KthInOrder
<1> HIDE DEF below
<1>8. QED BY <1>5, <1>6, <1>7

(* Traces and report: every trace has a name of its own, so that none      *)
(* takes the place of another.                                             *)
LEMMA TraceStep == ASSUME SuiteInv, WriteTrace PROVE SuiteInv'
<1> DEFINE traces == outcome.traces
           k == saved + 1
           name == Target(k)
<1>a. /\ phase = "traces" /\ saved < Len(traces)
      /\ IF policy = "error" /\ disk[name] # <<>>
         THEN phase' = "aborted" /\ UNCHANGED <<saved, disk>>
         ELSE /\ disk' = [disk EXCEPT ![name] = FilesWith(@, KthInOrder(traces, k))]
              /\ saved' = k /\ UNCHANGED phase
      /\ UNCHANGED <<suite, jobs, failFast, policy, next, inFlight, worker, queue, results, seeds,
                     outcome, report>>
  BY DEF WriteTrace, options, threads
<1>b. KthInOrder(traces, k) = traces[k]
  <2>1. /\ traces \in Seq(1..Size) /\ Rising(traces) /\ Size \in Nat
        /\ saved \in 0..Len(traces)
    BY SuiteFacts DEF SuiteInv, SuiteTyped, Tally, TestOutcomes
  <2>2. Len(traces) \in Nat
    BY <2>1
  <2> HIDE DEF traces
  <2>3. k \in 1..Len(traces)
    BY <1>a, <2>1, <2>2
  <2> HIDE DEF k
  <2>4. QED BY <2>1, <2>3, RisingIsOrdered
<1>1. /\ phase = "traces" /\ saved < Len(traces)
      /\ IF policy = "error" /\ disk[name] # <<>>
         THEN phase' = "aborted" /\ UNCHANGED <<saved, disk>>
         ELSE /\ disk' = [disk EXCEPT ![name] = FilesWith(@, traces[k])]
              /\ saved' = k /\ UNCHANGED phase
      /\ UNCHANGED <<suite, jobs, failFast, policy, next, inFlight, worker, queue, results, seeds,
                     outcome, report>>
  BY <1>a, <1>b
<1>2. /\ SuiteTyped /\ Tally(outcome, TotalRuns) /\ ThreadsInv /\ ProgressInv /\ SavedInv
      /\ SeedsFollowPlace /\ Complete
  BY <1>1 DEF SuiteInv, ProgressInv
<1>3. /\ Size' = Size /\ Serial' = Serial /\ TotalRuns' = TotalRuns /\ Complete' = Complete
      /\ Unmerged' = Unmerged
  BY <1>1 DEF Size, Serial, Jobs, TotalRuns, Complete, Unmerged
<1>4. /\ Len(traces) \in Nat /\ Len(traces) <= MaxScenarios /\ saved \in Nat
      /\ \A l \in 1..Len(traces) : traces[l] \in 1..MaxScenarios
  <2>1. traces \in Seq(1..Size) /\ Len(traces) <= TotalRuns /\ TotalRuns <= Size
    BY <1>2, SuiteFacts DEF Tally, TestOutcomes
  <2>2. Size <= MaxScenarios /\ Size \in Nat /\ TotalRuns \in Nat /\ MaxScenarios \in Nat
    BY <1>2, SuiteFacts, BoundsAssumption
  <2>3. Len(traces) \in Nat /\ \A l \in 1..Len(traces) : traces[l] \in 1..Size
    <3> DEFINE S == 1..Size
    <3>1. traces \in Seq(S)
      BY <2>1
    <3> HIDE DEF traces, S
    <3>2. Len(traces) \in Nat /\ \A l \in 1..Len(traces) : traces[l] \in S
      BY <3>1
    <3>3. QED BY <3>2 DEF S
  <2>4. saved \in Nat
    BY <1>2, <2>3 DEF SuiteTyped
  <2> HIDE DEF traces
  <2>5. QED BY <2>1, <2>2, <2>3, <2>4
<1>5. /\ k \in 1..Len(traces) /\ name \in Names
      /\ \A l \in 1..saved : Target(l) # name /\ Target(l) \in Names
  <2>1. k = saved + 1 /\ k \in 1..Len(traces) /\ MaxScenarios \in Nat
    BY <1>1, <1>4, BoundsAssumption
  <2>2. \A l : Target(l) = IF Len(traces) = 1 THEN 0 ELSE l
    BY DEF Target
  <2> HIDE DEF traces, k
  <2>3. \A l \in 1..Len(traces) : Target(l) \in Names
    BY <1>4, <2>1, <2>2 DEF Names
  <2>4. \A l \in 1..saved : l \in 1..Len(traces) /\ l # k /\ Len(traces) # 1
    BY <1>4, <2>1
  <2>5. QED BY <2>1, <2>2, <2>3, <2>4
<1>6. /\ Tally(outcome, TotalRuns)' /\ SeedsFollowPlace' /\ ThreadsInv'
  <2>1. Tally(outcome, TotalRuns)'
    BY <1>1, <1>2, <1>3, TallyLater
  <2>2. SeedsFollowPlace'
    BY <1>1, <1>2 DEF SeedsFollowPlace
  <2>3. ThreadsInv'
    BY <1>1, <1>2, <1>3 DEF ThreadsInv, ToSet, Distinct
  <2>4. QED BY <2>1, <2>2, <2>3
<1>7. CASE policy = "error" /\ disk[name] # <<>>
  <2>1. phase' = "aborted" /\ saved' = saved /\ disk' = disk
    BY <1>1, <1>7
  <2>2. SuiteTyped'
    BY <1>1, <1>2, <1>3, <2>1 DEF SuiteTyped, TestOutcomes, Names
  <2>3. ProgressInv'
    BY <1>1, <1>2, <1>3, <2>1 DEF ProgressInv
  <2>4. SavedInv'
    BY <1>1, <1>2, <2>1 DEF SavedInv, Target, ToSet
  <2>5. QED BY <1>6, <2>2, <2>3, <2>4 DEF SuiteInv
<1>8. CASE ~ (policy = "error" /\ disk[name] # <<>>)
  <2> DEFINE S == (1..MaxScenarios) \cup {Old}
             files == FilesWith(disk[name], traces[k])
  <2>1. disk' = [disk EXCEPT ![name] = files] /\ saved' = k /\ phase' = "traces"
    BY <1>1, <1>8
  <2>2. disk \in [Names -> Seq(S)] /\ disk[name] \in Seq(S) /\ traces[k] \in S
    BY <1>2, <1>4, <1>5 DEF SuiteTyped
  <2>3. files \in Seq(S) /\ traces[k] \in ToSet(files)
    <3>1. ASSUME NEW f \in Seq(S), NEW t \in S PROVE FilesWith(f, t) \in Seq(S) /\ t \in ToSet(FilesWith(f, t))
      <4>1. CASE policy = "overwrite" /\ f # <<>>
        <5>1. FilesWith(f, t) = <<t>> \o Tail(f) /\ Tail(f) \in Seq(S)
          BY <4>1 DEF FilesWith
        <5>2. /\ <<t>> \o Tail(f) \in Seq(S) /\ (<<t>> \o Tail(f))[1] = t
              /\ 1 \in DOMAIN (<<t>> \o Tail(f))
          BY <5>1
        <5>3. QED BY <5>1, <5>2 DEF ToSet
      <4>2. CASE ~ (policy = "overwrite" /\ f # <<>>)
        <5>1. FilesWith(f, t) = Append(f, t)
          BY <4>2 DEF FilesWith
        <5>2. Append(f, t) \in Seq(S) /\ ToSet(Append(f, t)) = ToSet(f) \cup {t}
          <6> HIDE DEF S
          <6>1. QED BY AppendFacts
        <5>3. QED BY <5>1, <5>2
      <4>3. QED BY <4>1, <4>2
    <3> HIDE DEF S, name, traces
    <3>2. QED BY <2>2, <3>1
  <2>4. \A n \in Names : disk'[n] = IF n = name THEN files ELSE disk[n]
    <3> HIDE DEF name, files
    <3>1. QED BY <1>5, <2>1, <2>2
  <2>5. disk' \in [Names -> Seq(S)]
    <3> HIDE DEF name, files
    <3>1. QED BY <1>5, <2>1, <2>2, <2>3
  <2>6. SuiteTyped'
    <3>1. saved' \in 0..Len(outcome'.traces)
      BY <1>1, <1>4, <1>5, <2>1
    <3>2. QED BY <1>1, <1>2, <1>3, <2>1, <2>5, <3>1 DEF SuiteTyped, TestOutcomes, Names
  <2>7. ProgressInv'
    BY <1>1, <1>2, <1>3, <2>1 DEF ProgressInv
  <2>8. SavedInv'
    <3>1. ASSUME NEW l \in 1..k PROVE traces[l] \in ToSet(disk'[Target(l)])
      <4>1. CASE l = k
        <5>1. disk'[Target(l)] = files /\ traces[l] = traces[k]
          BY <1>5, <2>4, <4>1
        <5>2. QED BY <2>3, <5>1
      <4>2. CASE l # k
        <5>1. l \in 1..saved
          BY <1>4, <4>2
        <5>2. disk'[Target(l)] = disk[Target(l)]
          BY <1>5, <2>4, <5>1
        <5>3. QED BY <1>2, <5>1, <5>2 DEF SavedInv
      <4>3. QED BY <4>1, <4>2
    <3>2. \A l : Target(l)' = Target(l)
      BY <1>1 DEF Target
    <3>3. ASSUME NEW l \in 1..saved' PROVE (outcome.traces[l] \in ToSet(disk[Target(l)]))'
      <4>1. l \in 1..k /\ outcome'.traces[l] = traces[l] /\ Target(l)' = Target(l)
        BY <1>1, <2>1, <3>2
      <4>2. outcome'.traces[l] \in ToSet(disk'[Target(l)'])
        BY <3>1, <4>1
      <4>3. QED BY <4>2 DEF ToSet
    <3>4. QED BY <3>3 DEF SavedInv
  <2>9. QED BY <1>6, <2>6, <2>7, <2>8 DEF SuiteInv
<1>9. QED BY <1>7, <1>8

LEMMA ReportStep == ASSUME SuiteInv, WriteReport PROVE SuiteInv'
<1>1. /\ phase = "traces" /\ saved = Len(outcome.traces) /\ phase' = "done"
      /\ report' = [status |-> IF outcome.failed = 0 THEN "pass" ELSE "fail",
                    passed |-> outcome.passed, failed |-> outcome.failed,
                    failures |-> outcome.failures, errors |-> outcome.errors]
      /\ UNCHANGED <<suite, jobs, failFast, policy, next, inFlight, worker, queue, results, seeds,
                     outcome, saved, disk>>
  BY DEF WriteReport, options, threads
<1>2. /\ SuiteTyped /\ Tally(outcome, TotalRuns) /\ ThreadsInv /\ ProgressInv /\ SavedInv
      /\ SeedsFollowPlace /\ Complete
  BY <1>1 DEF SuiteInv, ProgressInv
<1>3. /\ Size' = Size /\ Serial' = Serial /\ TotalRuns' = TotalRuns /\ Complete' = Complete
      /\ Unmerged' = Unmerged
  BY <1>1 DEF Size, Serial, Jobs, TotalRuns, Complete, Unmerged
<1>4. Tally(outcome, TotalRuns)'
  BY <1>1, <1>2, <1>3, TallyLater
<1>5. SeedsFollowPlace' /\ SavedInv' /\ ThreadsInv'
  <2>1. SeedsFollowPlace'
    BY <1>1, <1>2 DEF SeedsFollowPlace
  <2>2. SavedInv'
    BY <1>1, <1>2 DEF SavedInv, Target, ToSet
  <2>3. ThreadsInv'
    BY <1>1, <1>2, <1>3, Zenon DEF ThreadsInv
  <2>4. QED BY <2>1, <2>2, <2>3
<1>6. SuiteTyped'
  BY <1>1, <1>2, <1>3 DEF SuiteTyped, TestOutcomes, Names
<1>7. ProgressInv'
  BY <1>1, <1>2, <1>3 DEF ProgressInv
<1>8. QED BY <1>4, <1>5, <1>6, <1>7 DEF SuiteInv
-----------------------------------------------------------------------------
LEMMA SuiteStart == SuiteInit => SuiteInv
<1> SUFFICES ASSUME SuiteInit PROVE SuiteInv
  OBVIOUS
<1>1. PICK n \in 1..MaxScenarios : suite \in [1..n -> Verdicts]
  BY DEF SuiteInit
<1>2. suite \in Seq(Verdicts) /\ Size = n /\ n \in Nat \ {0}
  BY <1>1, BoundsAssumption DEF Size
<1>3. /\ jobs \in 1..MaxJobs /\ failFast \in BOOLEAN /\ policy \in Policies
      /\ phase = "run" /\ next = 1 /\ inFlight = 0 /\ queue = <<>> /\ results = <<>>
      /\ worker = [i \in 1..n |-> "idle"] /\ seeds = [i \in 1..n |-> 0]
      /\ outcome = NoOutcome /\ saved = 0
  BY <1>1 DEF SuiteInit
<1>4. disk \in [Names -> Seq((1..MaxScenarios) \cup {Old})]
  <2>1. PICK old \in {{}, {0}, {2}} : disk = [l \in Names |-> IF l \in old THEN <<Old>> ELSE <<>>]
    BY DEF SuiteInit
  <2>2. <<Old>> \in Seq((1..MaxScenarios) \cup {Old}) /\ <<>> \in Seq((1..MaxScenarios) \cup {Old})
    OBVIOUS
  <2>3. QED BY <2>1, <2>2
<1>5. /\ outcome.passed = 0 /\ outcome.failed = 0 /\ outcome.failures = 0 /\ outcome.errors = 0
      /\ outcome.traces = <<>> /\ TotalRuns = 0 /\ outcome \in TestOutcomes /\ Len(outcome.traces) = 0
  BY <1>3 DEF NoOutcome, TotalRuns, TestOutcomes
<1>6. SuiteTyped
  BY <1>2, <1>3, <1>4, <1>5 DEF SuiteTyped
<1>7. Tally(outcome, TotalRuns)
  <2>1. \A verdict : Counted(0, verdict) = 0
    <3>1. \A verdict : {i \in 1..0 : suite[i] = verdict} = {}
      OBVIOUS
    <3>2. QED BY <3>1, FS_EmptySet DEF Counted
  <2>2. ToSet(outcome.traces) = {} /\ Rising(outcome.traces)
    BY <1>5 DEF ToSet, Rising
  <2>3. {i \in 1..0 : suite[i] \in {"pass", "fail"}} = {}
    OBVIOUS
  <2>4. QED BY <1>2, <1>5, <2>1, <2>2, <2>3 DEF Tally
<1>8. ThreadsInv
  <2>1. ToSet(queue) = {} /\ ToSet(results) = {} /\ Distinct(queue) /\ Distinct(results)
    BY <1>3 DEF ToSet, Distinct
  <2>2. Unmerged = {}
    BY <1>3, <1>5 DEF Unmerged
  <2>3. Cardinality(Unmerged \ ToSet(results)) = 0
    BY <2>1, <2>2, FS_EmptySet
  <2>4. QED BY <1>2, <1>3, <1>5, <2>1, <2>3 DEF ThreadsInv
<1>9. ProgressInv /\ SeedsFollowPlace /\ SavedInv
  BY <1>1, <1>2, <1>3, <1>5 DEF ProgressInv, SeedsFollowPlace, SavedInv
<1>10. QED BY <1>6, <1>7, <1>8, <1>9 DEF SuiteInv

LEMMA SuiteStays == SuiteInv /\ [SuiteNext]_suite_vars => SuiteInv'
<1> SUFFICES ASSUME SuiteInv, [SuiteNext]_suite_vars PROVE SuiteInv'
  OBVIOUS
<1>1. CASE UNCHANGED suite_vars
  <2>1. UNCHANGED <<suite, jobs, failFast, policy, phase, next, inFlight, worker, queue, results,
                    seeds, outcome, saved, disk, report>>
    BY <1>1 DEF suite_vars, options, threads, output
  <2>2. SuiteTyped /\ ThreadsInv
    BY DEF SuiteInv
  <2>3. Size' = Size /\ Serial' = Serial /\ TotalRuns' = TotalRuns /\ Unmerged' = Unmerged
    BY <2>1, Zenon DEF Size, Serial, Jobs, TotalRuns, Unmerged
  <2>4. TestOutcomes' = TestOutcomes
    BY <2>3, Zenon DEF TestOutcomes
  <2>5. SuiteTyped'
    BY <2>1, <2>2, <2>3, <2>4, Zenon DEF SuiteTyped
  <2>6. ThreadsInv'
    BY <2>1, <2>2, <2>3, Zenon DEF ThreadsInv
  <2>7. QED BY <2>1, <2>5, <2>6, SameOutcome DEF SuiteInv
<1>2. CASE SuiteNext
  BY <1>2, SerialStep, SpawnStep, ReceiveStep, MergeStep, TraceStep, ReportStep, WorkStep
     DEF SuiteNext
<1>3. QED BY <1>1, <1>2

LEMMA SuiteInvariant == SuiteSpec => []SuiteInv
BY SuiteStart, SuiteStays, PTL DEF SuiteSpec

(* The suite's types. *)
THEOREM SuiteTypeCorrect == SuiteSpec => []SuiteTyped
<1>1. SuiteInv => SuiteTyped
  BY DEF SuiteInv
<1>2. QED BY <1>1, SuiteInvariant, PTL

(* What ran: the scenarios in the outcome of a suite that is complete. *)
LEMMA CompleteRan ==
  ASSUME SuiteInv, Complete
  PROVE  Ran = 1..TotalRuns
<1>1. /\ Size \in Nat \ {0} /\ TotalRuns \in 0..Size /\ TotalRuns \in Nat /\ DOMAIN suite = 1..Size
  BY SuiteFacts DEF SuiteInv, Tally
<1>2. CASE ~failFast
  BY <1>1, <1>2 DEF Complete, Ran
<1>3. CASE failFast
  <2>1. /\ \A i \in 1..(TotalRuns - 1) : suite[i] = "pass"
        /\ TotalRuns = Size \/ (TotalRuns > 0 /\ suite[TotalRuns] # "pass")
    BY <1>3 DEF Complete
  <2>2. ASSUME NEW i \in 1..TotalRuns PROVE i \in Ran
    BY <1>1, <1>3, <2>1, <2>2 DEF Ran
  <2>3. ASSUME NEW i \in Ran PROVE i \in 1..TotalRuns
    <3>1. i \in 1..Size /\ \A j \in 1..(i - 1) : suite[j] = "pass"
      BY <1>1, <1>3 DEF Ran
    <3>2. CASE i > TotalRuns
      <4>1. TotalRuns \in 1..(i - 1) /\ suite[TotalRuns] # "pass"
        BY <1>1, <2>1, <3>1, <3>2
      <4>2. QED BY <3>1, <4>1
    <3>3. QED BY <1>1, <3>1, <3>2
  <2>4. QED BY <2>2, <2>3
<1>4. QED BY <1>2, <1>3

(* The report of a suite says what its scenarios did, and nothing of their *)
(* workers' timing or number (run_tests, run_parallel_tests).              *)
THEOREM ReportsIgnoreSchedules == SuiteSpec => []ReportIgnoresSchedule
<1>1. ASSUME SuiteInv PROVE ReportIgnoresSchedule
  <2> SUFFICES ASSUME phase = "done"
               PROVE  report = [status |-> IF \A i \in Ran : suite[i] = "pass" THEN "pass" ELSE "fail",
                                passed |-> Count("pass"), failed |-> Count("fail") + Count("error"),
                                failures |-> Count("fail"), errors |-> Count("error")]
    BY DEF ReportIgnoresSchedule
  <2>1. /\ SuiteTyped /\ Tally(outcome, TotalRuns) /\ Complete
        /\ report = [status |-> IF outcome.failed = 0 THEN "pass" ELSE "fail",
                     passed |-> outcome.passed, failed |-> outcome.failed,
                     failures |-> outcome.failures, errors |-> outcome.errors]
    BY <1>1 DEF SuiteInv, ProgressInv
  <2>2. Ran = 1..TotalRuns
    BY <1>1, <2>1, CompleteRan
  <2>3. \A verdict : Count(verdict) = Counted(TotalRuns, verdict)
    BY <2>2, Zenon DEF Count, Counted
  <2>4. /\ outcome.passed = Count("pass") /\ outcome.failures = Count("fail")
        /\ outcome.errors = Count("error") /\ outcome.failed = Count("fail") + Count("error")
    BY <2>1, <2>3 DEF Tally
  <2>5. outcome.failed = 0 <=> \A i \in Ran : suite[i] = "pass"
    <3>1. /\ outcome.failures \in Nat /\ outcome.errors \in Nat
          /\ outcome.failed = outcome.failures + outcome.errors
      BY <2>1, SuiteFacts DEF Tally, TestOutcomes
    <3>2. \A i \in 1..TotalRuns : suite[i] \in {"pass", "fail", "error"}
      <4>1. TotalRuns <= Size /\ Size \in Nat /\ TotalRuns \in Nat
        BY <2>1, SuiteFacts DEF Tally
      <4>2. QED BY <2>1, <4>1, SuiteFacts DEF Tally
    <3>3. \A verdict : Counted(TotalRuns, verdict) = 0 <=> \A i \in 1..TotalRuns : suite[i] # verdict
      <4>1. ASSUME NEW verdict
            PROVE Counted(TotalRuns, verdict) = 0 <=> \A i \in 1..TotalRuns : suite[i] # verdict
        <5> DEFINE Those == {i \in 1..TotalRuns : suite[i] = verdict}
        <5>1. IsFiniteSet(1..TotalRuns)
          BY <2>1, SuiteFacts, FS_Interval
        <5>2. IsFiniteSet(Those)
          BY <5>1, FS_Subset
        <5>3. Cardinality(Those) = 0 <=> Those = {}
          BY <5>2, FS_EmptySet
        <5>4. QED BY <5>3 DEF Counted
      <4>2. QED BY <4>1
    <3>4. outcome.failed = 0 <=> outcome.failures = 0 /\ outcome.errors = 0
      BY <3>1
    <3>5. /\ outcome.failures = 0 <=> \A i \in 1..TotalRuns : suite[i] # "fail"
          /\ outcome.errors = 0 <=> \A i \in 1..TotalRuns : suite[i] # "error"
      BY <2>1, <3>3 DEF Tally
    <3>6. QED BY <2>2, <3>2, <3>4, <3>5
  <2>6. QED BY <2>1, <2>4, <2>5
<1>2. QED BY <1>1, SuiteInvariant, PTL

(* A scenario's seed and its trace's name come from its place in the suite *)
(* (derive_test_seed, write_test_traces).                                  *)
THEOREM PlacesDecideSeedsAndTraces == SuiteSpec => []PlacesDecide
<1>1. ASSUME SuiteInv PROVE PlacesDecide
  <2>1. SeedsFollowPlace
    BY <1>1 DEF SuiteInv
  <2>2. ASSUME phase \in {"traces", "done", "aborted"}, saved > 0
        PROVE  /\ \A j, k \in DOMAIN outcome.traces : j < k => outcome.traces[j] < outcome.traces[k]
               /\ ToSet(outcome.traces) = {i \in Ran : suite[i] \in {"pass", "fail"}}
               /\ \A k \in 1..saved : outcome.traces[k] \in ToSet(disk[Target(k)])
               /\ phase = "done" => saved = Len(outcome.traces)
    <3>1. SuiteTyped /\ Tally(outcome, TotalRuns) /\ ProgressInv /\ SavedInv /\ Complete
      BY <1>1, <2>2 DEF SuiteInv, ProgressInv
    <3>2. Ran = 1..TotalRuns
      BY <1>1, <3>1, CompleteRan
    <3>3. policy # "none"
      <4>1. /\ saved \in 1..Len(outcome.traces) /\ Len(outcome.traces) \in Nat
            /\ outcome.traces \in Seq(1..Size)
        BY <2>2, <3>1 DEF SuiteTyped, TestOutcomes
      <4>2. DOMAIN outcome.traces = 1..Len(outcome.traces)
        BY <4>1
      <4>3. outcome.traces[saved] \in ToSet(outcome.traces)
        BY <4>1, <4>2 DEF ToSet
      <4>4. QED BY <3>1, <4>3 DEF Tally
    <3>4. ToSet(outcome.traces) = {i \in Ran : suite[i] \in {"pass", "fail"}}
      BY <3>1, <3>2, <3>3 DEF Tally
    <3>5. QED BY <2>2, <3>1, <3>4 DEF Tally, Rising, SavedInv, ProgressInv
  <2>3. QED BY <2>1, <2>2 DEF PlacesDecide, TracesKeepOrder
<1>2. QED BY <1>1, SuiteInvariant, PTL

-----------------------------------------------------------------------------
(* The host process backend *)

USE SizesAssumption

(* The stream is over, and its reader took all of it. *)
Ended(s) == holders[s] = {} /\ pending[s] = 0 /\ total[s] <= MaxBytes

(* No byte is lost between the writer and the buffer, and what a reader    *)
(* has put on its channel is true of its stream.                           *)
Account(s) ==
  /\ written[s] = total[s] + pending[s]
  /\ buf[s] = IF total[s] <= MaxBytes THEN total[s] ELSE MaxBytes
  /\ reader[s] = "reading" => total[s] <= MaxBytes /\ channel[s] = "empty"
  /\ channel[s] = "ok" => Ended(s)
  /\ channel[s] = "limit" => total[s] > MaxBytes

(* What each point of the dispatching thread knows. *)
Control ==
  /\ pc = "spawn" => result = "none"
  /\ pc \in {"drain_stdout", "drain_stderr"} => expired /\ child = "reaped"
  /\ pc \in {"flush_stdout", "flush_stderr"} => child = "reaped"
  /\ pc = "flush_stderr" => Ended("stdout")
  /\ pc = "poll_stderr" /\ stdout_done => Ended("stdout")
  /\ pc = "reap" => Ended("stdout") /\ Ended("stderr")
  /\ result = "completed" => child = "reaped" /\ Ended("stdout") /\ Ended("stderr")
  /\ result = "timed_out" => expired /\ child = "reaped"
  /\ result = "limit" => \E s \in Streams : total[s] > MaxBytes

IInv == TypeOK /\ (\A s \in Streams : Account(s)) /\ Control

-----------------------------------------------------------------------------
LEMMA InitIInv == Init => IInv
<1> SUFFICES ASSUME Init PROVE IInv
  OBVIOUS
<1>1. holders \in [Streams -> SUBSET {"child", "heir"}]
  <2>1. {{"child"}} \cup (IF Inherits THEN {{"child", "heir"}} ELSE {})
          \subseteq SUBSET {"child", "heir"}
    OBVIOUS
  <2>2. QED BY <2>1 DEF Init
<1>2. TypeOK
  <2>1. /\ child = "none" /\ pc = "spawn" /\ result = "none"
        /\ stdout_done = FALSE /\ expired = FALSE /\ tidy \in BOOLEAN
        /\ pending = [s \in Streams |-> 0] /\ written = [s \in Streams |-> 0]
        /\ total = [s \in Streams |-> 0] /\ buf = [s \in Streams |-> 0]
        /\ reader = [s \in Streams |-> "reading"]
        /\ channel = [s \in Streams |-> "empty"]
    BY DEF Init
  <2>2. 0 \in 0..MaxBytes
    OBVIOUS
  <2>3. QED BY <1>1, <2>1, <2>2 DEF TypeOK, Results
<1>3. \A s \in Streams : Account(s)
  BY DEF Init, Account
<1>4. Control
  BY DEF Init, Control
<1>5. QED BY <1>2, <1>3, <1>4 DEF IInv

(* What is over stays over: nobody is left to write, nothing to read. *)
LEMMA EndedIsStable ==
  ASSUME IInv, Next, NEW s \in Streams, Ended(s)
  PROVE  Ended(s)'
<1> USE DEF Ended
<1>1. ASSUME NEW h, NEW t \in Streams, Write(h, t) PROVE Ended(s)'
  BY <1>1 DEF Write, readers, IInv, TypeOK
<1>2. ASSUME NEW h, NEW t \in Streams, Close(h, t) PROVE Ended(s)'
  BY <1>2 DEF Close, readers, IInv, TypeOK
<1>3. ASSUME NEW t \in Streams, Reader(t) PROVE Ended(s)'
  <2>1. CASE Read(t)
    <3>1. s # t
      BY <2>1 DEF Read, Kept, OverLimit
    <3>2. pending'[s] = pending[s] /\ total'[s] = total[s] /\ holders' = holders
      BY <2>1, <3>1 DEF Read, Kept, OverLimit, IInv, TypeOK
    <3>3. QED BY <3>2
  <2>2. CASE ReadEnd(t) \/ Return(t)
    BY <2>2 DEF ReadEnd, AtEnd, Return, pipes
  <2>3. QED BY <1>3, <2>1, <2>2 DEF Reader
<1>4. CASE Exit
  BY <1>4 DEF Exit, readers
<1>5. CASE Dispatch
  BY <1>5 DEF Dispatch, Spawn, CheckDeadline, Killed, DrainStdout, DrainStderr, Drain, TryWait,
              FlushStdout, FlushStderr, Flush, PollStdout, PollStderr, Reap,
              pipes, readers
<1>6. CASE Expire
  BY <1>6 DEF Expire, pipes, readers
<1>7. QED BY <1>1, <1>2, <1>3, <1>4, <1>5, <1>6 DEF Next, Outside

-----------------------------------------------------------------------------
(* Steps of the processes outside: bytes enter a pipe one at a time, and a *)
(* reaped child does nothing any more.                                     *)
LEMMA OutsideIInv == ASSUME IInv, Outside PROVE IInv'
<1>1. TypeOK' /\ (\A s \in Streams : Account(s)')
  <2>1. ASSUME NEW h \in {"child", "heir"}, NEW t \in Streams, Write(h, t)
        PROVE  TypeOK' /\ (\A s \in Streams : Account(s)')
    <3>1. CASE reader[t] = "reading"
      <4>1. /\ pending' = [pending EXCEPT ![t] = @ + 1]
            /\ written' = [written EXCEPT ![t] = @ + 1]
            /\ UNCHANGED <<tidy, child, holders, total, buf, reader, channel, pc,
                           stdout_done, expired, result>>
        BY <2>1, <3>1 DEF Write, readers
      <4>2. TypeOK'
        BY <4>1 DEF IInv, TypeOK
      <4>3. ASSUME NEW s \in Streams PROVE Account(s)'
        <5>1. channel[t] = "empty"
          BY <3>1 DEF IInv, Account
        <5>2. QED BY <4>1, <5>1 DEF IInv, TypeOK, Account, Ended
      <4>4. QED BY <4>2, <4>3
    <3>2. CASE reader[t] # "reading"
      <4>1. /\ child' \in {child, "zombie"}
            /\ holders' = [u \in Streams |-> holders[u] \ {h}]
            /\ UNCHANGED <<tidy, pending, written, total, buf, reader, channel, pc,
                           stdout_done, expired, result>>
        BY <2>1, <3>2 DEF Write, readers
      <4>2. TypeOK'
        BY <4>1 DEF IInv, TypeOK
      <4>3. QED BY <4>1, <4>2 DEF IInv, Account, Ended
    <3>3. QED BY <3>1, <3>2
  <2>2. ASSUME NEW h \in {"child", "heir"}, NEW t \in Streams, Close(h, t)
        PROVE  TypeOK' /\ (\A s \in Streams : Account(s)')
    BY <2>2 DEF Close, readers, IInv, TypeOK, Account, Ended
  <2>3. ASSUME Exit PROVE TypeOK' /\ (\A s \in Streams : Account(s)')
    BY <2>3 DEF Exit, readers, IInv, TypeOK, Account, Ended
  <2>4. QED BY <2>1, <2>2, <2>3 DEF Outside
<1>2. /\ UNCHANGED <<pc, result, expired, stdout_done, total>>
      /\ child = "reaped" => child' = "reaped"
  BY DEF Outside, Write, Close, Exit, Alive, readers
<1>3. \A s \in Streams : Ended(s) => Ended(s)'
  BY EndedIsStable DEF Next
<1>4. Control'
  BY <1>2, <1>3 DEF IInv, Control, Streams
<1>5. QED BY <1>1, <1>4 DEF IInv

(* Steps of a reader: it moves bytes from the pipe to its buffer, and      *)
(* reports an end or an excess that is there.                              *)
LEMMA ReaderIInv == ASSUME IInv, NEW t \in Streams, Reader(t) PROVE IInv'
<1>1. TypeOK' /\ (\A s \in Streams : Account(s)')
  <2>1. CASE Read(t)
    <3>1. PICK n \in 1..pending[t] :
            /\ pending' = [pending EXCEPT ![t] = @ - n]
            /\ total' = [total EXCEPT ![t] = @ + n]
            /\ buf' = [buf EXCEPT ![t] = IF @ + n <= MaxBytes THEN @ + n ELSE MaxBytes]
      BY <2>1 DEF Read, Kept, OverLimit
    <3>2. /\ \/ /\ total'[t] > MaxBytes
                /\ channel' = [channel EXCEPT ![t] = "limit"]
                /\ reader' = [reader EXCEPT ![t] = "sent"]
             \/ total'[t] <= MaxBytes /\ UNCHANGED <<channel, reader>>
          /\ reader[t] = "reading"
          /\ UNCHANGED <<tidy, child, holders, written, pc, stdout_done, expired, result>>
      BY <2>1, <3>1 DEF Read, Kept, OverLimit, IInv, TypeOK
    <3>3. /\ pending \in [Streams -> Nat] /\ total \in [Streams -> Nat]
          /\ buf \in [Streams -> 0..MaxBytes] /\ written \in [Streams -> Nat]
          /\ \A s \in Streams : Account(s)
      BY DEF IInv, TypeOK
    <3>4. pending' \in [Streams -> Nat] /\ total' \in [Streams -> Nat]
          /\ buf' \in [Streams -> 0..MaxBytes]
      BY <3>1, <3>3
    <3>5. TypeOK'
      BY <3>2, <3>4 DEF IInv, TypeOK
    <3>6. ASSUME NEW s \in Streams PROVE Account(s)'
      <4>1. CASE s = t
        <5>1. /\ pending'[s] = pending[s] - n /\ total'[s] = total[s] + n
              /\ buf'[s] = IF buf[s] + n <= MaxBytes THEN buf[s] + n ELSE MaxBytes
              /\ written'[s] = written[s] /\ n \in Nat /\ n > 0
          BY <3>1, <3>2, <3>3, <4>1
        <5>2. /\ written[s] = total[s] + pending[s] /\ total[s] <= MaxBytes
              /\ buf[s] = total[s] /\ channel[s] = "empty"
          BY <3>2, <3>3, <4>1 DEF Account
        <5>3. /\ written'[s] = total'[s] + pending'[s]
              /\ buf'[s] = IF total'[s] <= MaxBytes THEN total'[s] ELSE MaxBytes
          BY <5>1, <5>2, <3>3
        <5>4. /\ reader'[s] = "reading" => total'[s] <= MaxBytes /\ channel'[s] = "empty"
              /\ channel'[s] # "ok"
              /\ channel'[s] = "limit" => total'[s] > MaxBytes
          BY <3>2, <4>1, <5>2 DEF IInv, TypeOK
        <5>5. QED BY <5>3, <5>4 DEF Account
      <4>2. CASE s # t
        <5>1. /\ pending'[s] = pending[s] /\ total'[s] = total[s] /\ buf'[s] = buf[s]
              /\ reader'[s] = reader[s] /\ channel'[s] = channel[s]
              /\ written'[s] = written[s] /\ holders' = holders
          BY <3>1, <3>2, <3>3, <4>2 DEF IInv, TypeOK
        <5>2. QED BY <3>3, <5>1 DEF Account, Ended
      <4>3. QED BY <4>1, <4>2
    <3>7. QED BY <3>5, <3>6
  <2>2. CASE ReadEnd(t)
    BY <2>2 DEF ReadEnd, AtEnd, pipes, IInv, TypeOK, Account, Ended
  <2>3. CASE Return(t)
    BY <2>3 DEF Return, pipes, IInv, TypeOK, Account, Ended
  <2>4. QED BY <2>1, <2>2, <2>3 DEF Reader
<1>2. UNCHANGED <<pc, result, expired, stdout_done, child>>
  BY DEF Reader, Read, ReadEnd, Return
<1>3. \A s \in Streams : Ended(s) => Ended(s)'
  BY EndedIsStable DEF Next
<1>4. \A s \in Streams : total[s] > MaxBytes => total'[s] > MaxBytes
  <2>1. CASE Read(t)
    <3>1. PICK n \in 1..pending[t] : total' = [total EXCEPT ![t] = @ + n]
      BY <2>1 DEF Read, Kept, OverLimit
    <3>2. total \in [Streams -> Nat] /\ pending \in [Streams -> Nat]
      BY DEF IInv, TypeOK
    <3>3. QED BY <3>1, <3>2
  <2>2. CASE ReadEnd(t) \/ Return(t)
    BY <2>2 DEF ReadEnd, AtEnd, Return
  <2>3. QED BY <2>1, <2>2 DEF Reader
<1>5. Control'
  BY <1>2, <1>3, <1>4 DEF IInv, Control, Streams
<1>6. QED BY <1>1, <1>5 DEF IInv

-----------------------------------------------------------------------------
(* Steps of the dispatching thread: it empties channels, and each of its   *)
(* points inherits what the message it took says.                          *)
LEMMA DispatchIInv == ASSUME IInv, Dispatch PROVE IInv'
<1> USE DEF Goto, Done, Received
<1>1. /\ UNCHANGED <<pending, written, total, buf, reader, expired>>
      /\ \A s \in Streams : holders'[s] \subseteq holders[s]
      /\ \A s \in Streams : channel'[s] \in {"empty", channel[s]}
  <2>1. UNCHANGED <<pending, written, total, buf, reader, expired>>
    BY DEF Dispatch, Spawn, CheckDeadline, Killed, DrainStdout, DrainStderr, Drain, TryWait,
           FlushStdout, FlushStderr, Flush, PollStdout, PollStderr, Reap, pipes, readers
  <2>2. \/ UNCHANGED holders
        \/ holders' = [s \in Streams |-> holders[s] \ {"child"}]
    BY DEF Dispatch, Spawn, CheckDeadline, Killed, DrainStdout, DrainStderr, Drain, TryWait,
           FlushStdout, FlushStderr, Flush, PollStdout, PollStderr, Reap, pipes
  <2>3. \/ UNCHANGED channel
        \/ \E t \in Streams : channel' = [channel EXCEPT ![t] = "empty"]
    BY DEF Dispatch, Spawn, CheckDeadline, Killed, DrainStdout, DrainStderr, Drain, TryWait,
           FlushStdout, FlushStderr, Flush, PollStdout, PollStderr, Reap, readers, Streams
  <2>4. channel \in [Streams -> {"empty", "ok", "limit"}]
    BY DEF IInv, TypeOK
  <2>5. \A s \in Streams : channel'[s] \in {"empty", channel[s]}
    BY <2>3, <2>4
  <2>6. QED BY <2>1, <2>2, <2>5
<1>2. ASSUME NEW s \in Streams PROVE Account(s)'
  BY <1>1 DEF IInv, Account, Ended
<1>3. \A s \in Streams : Ended(s) => Ended(s)'
  BY EndedIsStable DEF Next
<1>4. TypeOK' /\ Control'
  <2>0. /\ TypeOK /\ Control
        /\ \A s \in Streams : channel[s] = "ok" => Ended(s)
        /\ \A s \in Streams : channel[s] = "limit" => total[s] > MaxBytes
    BY DEF IInv, Account
  <2>1. CASE Spawn
    BY <2>0, <2>1, <1>3 DEF Spawn, TypeOK, Control, pipes, readers, Results, Streams
  <2>2. CASE CheckDeadline
    <3>1. TypeOK'
      BY <2>0, <2>2 DEF CheckDeadline, Killed, TypeOK, readers
    <3>2. Control'
      BY <2>0, <2>2, <1>3 DEF CheckDeadline, Killed, Control, readers, Streams
    <3>3. QED BY <3>1, <3>2
  <2>3. ASSUME DrainStdout \/ DrainStderr PROVE TypeOK' /\ Control'
    <3>1. TypeOK'
      BY <2>0, <2>3 DEF DrainStdout, DrainStderr, Drain, TypeOK, pipes, Results, Streams
    <3>2. Control'
      BY <2>0, <2>3, <1>3 DEF DrainStdout, DrainStderr, Drain, Control, pipes, Streams
    <3>3. QED BY <3>1, <3>2
  <2>4. CASE TryWait
    BY <2>0, <2>4, <1>3 DEF TryWait, TypeOK, Control, pipes, readers, Streams
  <2>5. ASSUME FlushStdout \/ FlushStderr PROVE TypeOK' /\ Control'
    <3>1. TypeOK'
      BY <2>0, <2>5 DEF FlushStdout, FlushStderr, Flush, Outcomes, TypeOK, pipes,
                        Results, Streams
    <3>2. Control'
      BY <2>0, <2>5, <1>3 DEF FlushStdout, FlushStderr, Flush, Outcomes, WaitReturns,
                              Control, pipes, Streams
    <3>3. QED BY <3>1, <3>2
  <2>6. CASE PollStdout
    <3>1. TypeOK'
      BY <2>0, <2>6 DEF PollStdout, TypeOK, pipes, Results, Streams
    <3>2. Control'
      BY <2>0, <2>6, <1>3 DEF PollStdout, PollReturns, Control, pipes, Streams
    <3>3. QED BY <3>1, <3>2
  <2>7. CASE PollStderr
    <3>1. TypeOK'
      BY <2>0, <2>7, ZenonT(60) DEF PollStderr, BothEnded, TypeOK, pipes, Results, Streams
    <3>2. Control'
      BY <2>0, <2>7, <1>3 DEF PollStderr, BothEnded, PollReturns, Control, pipes, Streams
    <3>3. QED BY <3>1, <3>2
  <2>8. CASE Reap
    BY <2>0, <2>8, <1>3 DEF Reap, TypeOK, Control, pipes, readers, Results, Streams
  <2>9. QED BY <2>1, <2>2, <2>3, <2>4, <2>5, <2>6, <2>7, <2>8 DEF Dispatch
<1>5. QED BY <1>2, <1>4 DEF IInv

LEMMA NextIInv == IInv /\ [Next]_vars => IInv'
<1> SUFFICES ASSUME IInv, [Next]_vars PROVE IInv'
  OBVIOUS
<1>1. CASE Expire
  BY <1>1 DEF Expire, IInv, TypeOK, Account, Ended, Control, pipes, readers
<1>2. CASE UNCHANGED vars
  BY <1>2 DEF vars, IInv, TypeOK, Account, Ended, Control, pipes, readers
<1>3. QED
  BY <1>1, <1>2, DispatchIInv, ReaderIInv, OutsideIInv DEF Next

THEOREM InvariantHolds == Spec => []IInv
BY InitIInv, NextIInv, PTL DEF Spec

(* The dispatcher, its readers and the processes it starts keep the types  *)
(* of HostProc; in particular no buffer outgrows the limit.                *)
THEOREM HostProcTypeCorrect == Spec => []TypeOK
<1>1. IInv => TypeOK
  BY DEF IInv
<1>2. QED BY <1>1, InvariantHolds, PTL

(* Whatever interleaving of the child, its heirs, the readers and the      *)
(* polls led to it, a completed dispatch_host_proc returns all the output. *)
THEOREM CompletedIsComplete == Spec => []CompletedHasAllOutput
<1>1. IInv => CompletedHasAllOutput
  <2> SUFFICES ASSUME IInv, result = "completed"
               PROVE  child = "reaped" /\ \A s \in Streams : buf[s] = written[s] /\ holders[s] = {}
    BY DEF CompletedHasAllOutput
  <2>1. child = "reaped" /\ \A s \in Streams : Ended(s)
    BY DEF IInv, Control, Streams
  <2>2. ASSUME NEW s \in Streams PROVE buf[s] = written[s] /\ holders[s] = {}
    <3>1. /\ written[s] = total[s] + pending[s] /\ pending[s] = 0 /\ total[s] <= MaxBytes
          /\ buf[s] = IF total[s] <= MaxBytes THEN total[s] ELSE MaxBytes
          /\ holders[s] = {} /\ total[s] \in Nat
      BY <2>1 DEF IInv, Account, Ended, TypeOK
    <3>2. QED BY <3>1
  <2>3. QED BY <2>1, <2>2
<1>2. QED BY <1>1, InvariantHolds, PTL

(* A timed-out dispatch_host_proc has killed and reaped its child.         *)
THEOREM TimedOutIsClean == Spec => []TimeoutIsClean
<1>1. IInv => TimeoutIsClean
  <2> SUFFICES ASSUME IInv, result = "timed_out"
               PROVE  expired /\ child = "reaped" /\ \A s \in Streams : buf[s] <= written[s]
    BY DEF TimeoutIsClean
  <2>1. expired /\ child = "reaped"
    BY DEF IInv, Control
  <2>2. ASSUME NEW s \in Streams PROVE buf[s] <= written[s]
    <3>1. /\ written[s] = total[s] + pending[s]
          /\ buf[s] = IF total[s] <= MaxBytes THEN total[s] ELSE MaxBytes
          /\ total[s] \in Nat /\ pending[s] \in Nat
      BY DEF IInv, Account, TypeOK
    <3>2. QED BY <3>1
  <2>3. QED BY <2>1, <2>2
<1>2. QED BY <1>1, InvariantHolds, PTL
=============================================================================
