--------------------------- MODULE CommandProofs ---------------------------
(***************************************************************************)
(* Proofs about the commands that call other commands and about the corpus *)
(* they share.  Workflow: for any projects and command lines, a workflow   *)
(* pushes its whole surface, is green only if every answer was healthy as  *)
(* far as the checks look, and removes its files.  Corpus: for any         *)
(* payloads, names, corpora and number of commands and inputs kept.        *)
(***************************************************************************)
EXTENDS Corpus, Workflow, FiniteSetTheorems, SequenceTheorems, WellFoundedInduction, TLAPS

-----------------------------------------------------------------------------
(* The inductive invariant of the workflows.                               *)

(* The names a step can have, and what a step is.                          *)
MenuNames ==
  {"clean_tree", "usage", "version", "init", "discover_scenarios", "topology_coverage",
   "doctor_deep", "test_det", "run_record_trace", "trace_verify", "replay", "ci", "shrink",
   "replay_shrunk", "artifacts_ls", "artifacts_export", "artifacts_pack", "artifacts_diff",
   "report_show", "report_query", "report_query_paths", "report_flaky", "memory_top",
   "memory_graph", "memory_diff", "profile_top", "profile_diff", "profile_explain", "fuzz",
   "explore", "corpus_add", "corpus_list", "corpus_minimize", "corpus_export", "corpus_import",
   "host_backends_run", "env", "discover", "scope_match", "test_det_strict"}
FullNames == MenuNames \ {"discover", "scope_match", "test_det_strict"}
GateNames ==
  {"clean_tree", "discover", "scope_match", "doctor_deep", "test_det_strict", "run_record_trace",
   "trace_verify", "replay", "ci", "profile_top", "profile_diff", "profile_explain"}
StepNames == MenuNames \cup {"policy_conflict"}
Statuses == {"passed", "failed", "skipped", "advisory"}
StepRecords == [name : StepNames, status : Statuses]
(* By how much the steps are behind the menu: one where the conflict of    *)
(* two policies was reported.                                              *)
Shift == IF Full /\ Conflict THEN 1 ELSE 0
Done(n) == \E k \in DOMAIN steps : steps[k].name = n
Ended == pc \in {"reported", "exited"}

AtMenu(i) == pc = Menu[i] /\ Len(steps) = IF i = 1 THEN 0 ELSE i - 1 + Shift

(* The `ci` command alone pushes no steps and writes no files.             *)
CiInv ==
  setup.command = "ci" =>
    /\ pc \in {"ci_command", "reported", "exited"}
    /\ steps = <<>> /\ faulty = {} /\ waiting = None /\ worker = None /\ disk = {}

(* What was pushed is the beginning of the surface, and the next step is   *)
(* the one that follows it in the menu; a workflow that stopped earlier    *)
(* stopped at a step that failed.                                          *)
PlaceInv ==
  /\ \A k \in DOMAIN steps : steps[k].name = Surface[k]
  /\ setup.command # "ci" =>
       \/ \E i \in 1..Len(Menu) : AtMenu(i)
       \/ pc = "policy_conflict" /\ Full /\ Len(steps) = 1 /\ waiting = None
       \/ pc = "finish" /\ waiting = None
          /\ \/ Len(steps) = Len(Surface)
             \/ Len(steps) \in 1..Len(Surface) /\ steps[Len(steps)].status = "failed"
       \/ Ended /\ waiting = None /\ Len(steps) \in 0..Len(Surface)

RunInv ==
  DOMAIN run = {"cwd", "trace", "status", "shrunk_status", "replayed", "classification"}

(* The workflow waits for nothing but the command of the step it is at.    *)
WaitInv ==
  waiting # None => waiting = pc /\ waiting # "clean_tree" /\ waiting \in ToSet(FullMenu)

(* Until the end every temporary file, there or about to be written, is    *)
(* one that will be removed; afterwards at most one thread writes any.     *)
FilesInv ==
  /\ worker # None => worker \in ToSet(FullMenu)
  /\ ~Ended =>
       /\ disk \subseteq temps
       /\ waiting # None => WrittenBy(waiting) \subseteq temps
       /\ worker # None => WrittenBy(worker) \subseteq temps
  /\ Ended => IF worker # None THEN disk = {}
              ELSE \E n \in ToSet(FullMenu) : disk \subseteq WrittenBy(n)

(* As long as no step failed, a wrong answer of a kind the checks look at  *)
(* was let through only where a scenario that does not pass was said to    *)
(* pass, each of those was said to, and what later steps need of earlier   *)
(* ones is there.                                                          *)
GreenInv ==
  ~Ended /\ setup.command # "ci" /\ waiting = None /\ ~AnyFailed(steps) =>
    /\ run.cwd = "project"
    /\ \A n \in faulty : n \in RanScenario /\ Outcome(n) # "pass"
    /\ \A n \in RanScenario : Done(n) /\ Outcome(n) # "pass" => n \in faulty
    /\ Done("run_record_trace") => run.status = "pass" /\ run.trace
    /\ Done("shrink") => run.shrunk_status = "pass"
    /\ Gate /\ Done("replay") => run.replayed
    /\ Done("discover_scenarios") \/ Done("scope_match") => Primary # None

(* The exit code exists only after the end.                                *)
ExitInv ==
  IF Ended THEN GreenMeansVerified ELSE exit = None

WorkflowInv ==
  /\ setup \in Setups /\ steps \in Seq(StepRecords) /\ RunInv
  /\ CiInv /\ PlaceInv /\ WaitInv /\ FilesInv /\ GreenInv /\ ExitInv

-----------------------------------------------------------------------------
(* The menus.                                                              *)

LEMMA FullMenuIs ==
  /\ FullMenu \in Seq(FullNames) /\ Len(FullMenu) = 37
  /\ FullMenu[1] = "clean_tree" /\ FullMenu[2] = "usage" /\ FullMenu[3] = "version"
  /\ FullMenu[4] = "init" /\ FullMenu[5] = "discover_scenarios"
  /\ FullMenu[6] = "topology_coverage" /\ FullMenu[7] = "doctor_deep" /\ FullMenu[8] = "test_det"
  /\ FullMenu[9] = "run_record_trace" /\ FullMenu[10] = "trace_verify" /\ FullMenu[11] = "replay"
  /\ FullMenu[12] = "ci" /\ FullMenu[13] = "shrink" /\ FullMenu[14] = "replay_shrunk"
  /\ FullMenu[15] = "artifacts_ls" /\ FullMenu[16] = "artifacts_export"
  /\ FullMenu[17] = "artifacts_pack" /\ FullMenu[18] = "artifacts_diff"
  /\ FullMenu[19] = "report_show" /\ FullMenu[20] = "report_query"
  /\ FullMenu[21] = "report_query_paths" /\ FullMenu[22] = "report_flaky"
  /\ FullMenu[23] = "memory_top" /\ FullMenu[24] = "memory_graph" /\ FullMenu[25] = "memory_diff"
  /\ FullMenu[26] = "profile_top" /\ FullMenu[27] = "profile_diff"
  /\ FullMenu[28] = "profile_explain" /\ FullMenu[29] = "fuzz" /\ FullMenu[30] = "explore"
  /\ FullMenu[31] = "corpus_add" /\ FullMenu[32] = "corpus_list"
  /\ FullMenu[33] = "corpus_minimize" /\ FullMenu[34] = "corpus_export"
  /\ FullMenu[35] = "corpus_import" /\ FullMenu[36] = "host_backends_run" /\ FullMenu[37] = "env"
<1>1. PrepareNames \in Seq(FullNames) /\ DeterministicNames \in Seq(FullNames) /\ TraceNames \in Seq(FullNames)
      /\ CorpusNames \in Seq(FullNames) /\ ExtendedNames \in Seq(FullNames)
  <2>1. PrepareNames \in Seq(FullNames)  BY DEF PrepareNames, MenuNames, FullNames
  <2>2. DeterministicNames \in Seq(FullNames)  BY DEF DeterministicNames, MenuNames, FullNames
  <2>3. TraceNames \in Seq(FullNames)  BY DEF TraceNames, MenuNames, FullNames
  <2>4. CorpusNames \in Seq(FullNames)  BY DEF CorpusNames, MenuNames, FullNames
  <2>5. ExtendedNames \in Seq(FullNames)  BY <2>4 DEF ExtendedNames, MenuNames, FullNames
  <2> QED BY <2>1, <2>2, <2>3, <2>4, <2>5
<1>2. FullMenu \in Seq(FullNames)
  BY <1>1 DEF FullMenu
<1>3. Len(FullMenu) = 37
  BY DEF FullMenu, PrepareNames, DeterministicNames, TraceNames, ExtendedNames, CorpusNames
<1>4. FullMenu[1] = "clean_tree" /\ FullMenu[2] = "usage" /\ FullMenu[3] = "version" /\
      FullMenu[4] = "init" /\ FullMenu[5] = "discover_scenarios" /\ FullMenu[6] =
      "topology_coverage" /\ FullMenu[7] = "doctor_deep" /\ FullMenu[8] = "test_det" /\ FullMenu[9]
      = "run_record_trace" /\ FullMenu[10] = "trace_verify"
  BY DEF FullMenu, PrepareNames, DeterministicNames, TraceNames, ExtendedNames, CorpusNames
<1>5. FullMenu[11] = "replay" /\ FullMenu[12] = "ci" /\ FullMenu[13] = "shrink" /\
      FullMenu[14] = "replay_shrunk" /\ FullMenu[15] = "artifacts_ls" /\ FullMenu[16] =
      "artifacts_export" /\ FullMenu[17] = "artifacts_pack" /\ FullMenu[18] = "artifacts_diff" /\
      FullMenu[19] = "report_show" /\ FullMenu[20] = "report_query"
  BY DEF FullMenu, PrepareNames, DeterministicNames, TraceNames, ExtendedNames, CorpusNames
<1>6. FullMenu[21] = "report_query_paths" /\ FullMenu[22] = "report_flaky" /\ FullMenu[23] =
      "memory_top" /\ FullMenu[24] = "memory_graph" /\ FullMenu[25] = "memory_diff" /\ FullMenu[26]
      = "profile_top" /\ FullMenu[27] = "profile_diff" /\ FullMenu[28] = "profile_explain" /\
      FullMenu[29] = "fuzz" /\ FullMenu[30] = "explore"
  BY DEF FullMenu, PrepareNames, DeterministicNames, TraceNames, ExtendedNames, CorpusNames
<1>7. FullMenu[31] = "corpus_add" /\ FullMenu[32] = "corpus_list" /\ FullMenu[33] =
      "corpus_minimize" /\ FullMenu[34] = "corpus_export" /\ FullMenu[35] = "corpus_import" /\
      FullMenu[36] = "host_backends_run" /\ FullMenu[37] = "env"
  BY DEF FullMenu, PrepareNames, DeterministicNames, TraceNames, ExtendedNames, CorpusNames
<1> QED BY <1>2, <1>3, <1>4, <1>5, <1>6, <1>7

LEMMA GateMenuIs ==
  /\ GateMenu \in Seq(GateNames) /\ Len(GateMenu) = 12
  /\ GateMenu[1] = "clean_tree" /\ GateMenu[2] = "discover" /\ GateMenu[3] = "scope_match"
  /\ GateMenu[4] = "doctor_deep" /\ GateMenu[5] = "test_det_strict"
  /\ GateMenu[6] = "run_record_trace" /\ GateMenu[7] = "trace_verify" /\ GateMenu[8] = "replay"
  /\ GateMenu[9] = "ci" /\ GateMenu[10] = "profile_top" /\ GateMenu[11] = "profile_diff"
  /\ GateMenu[12] = "profile_explain"
BY DEF GateMenu, GateTraceNames, GateNames

LEMMA GateMenuInjective ==
  \A i, j \in 1..12 : GateMenu[i] = GateMenu[j] => i = j
BY GateMenuIs

LEMMA FullMenuInjective ==
  \A i, j \in 1..37 : FullMenu[i] = FullMenu[j] => i = j
<1> DEFINE Part1 == {"clean_tree", "usage", "version", "init", "discover_scenarios",
                      "topology_coverage", "doctor_deep", "test_det", "run_record_trace"}
           Part2 == {"trace_verify", "replay", "ci", "shrink", "replay_shrunk", "artifacts_ls",
                      "artifacts_export", "artifacts_pack", "artifacts_diff"}
           Part3 == {"report_show", "report_query", "report_query_paths", "report_flaky",
                      "memory_top", "memory_graph", "memory_diff", "profile_top", "profile_diff"}
           Part4 == {"profile_explain", "fuzz", "explore", "corpus_add", "corpus_list",
                      "corpus_minimize", "corpus_export", "corpus_import", "host_backends_run",
                      "env"}
<1>1. /\ \A i \in 1..9 : FullMenu[i] \in Part1
      /\ \A i, j \in 1..9 : FullMenu[i] = FullMenu[j] => i = j
  <2>1. FullMenu[1] = "clean_tree" /\ FullMenu[2] = "usage" /\ FullMenu[3] = "version" /\
        FullMenu[4] = "init" /\ FullMenu[5] = "discover_scenarios" /\ FullMenu[6] =
        "topology_coverage" /\ FullMenu[7] = "doctor_deep" /\ FullMenu[8] = "test_det" /\
        FullMenu[9] = "run_record_trace"
    BY FullMenuIs
  <2>2. \A i \in 1..9 : i = 1 \/ i = 2 \/ i = 3 \/ i = 4 \/ i = 5 \/ i = 6 \/ i = 7 \/ i = 8 \/ i = 9
    OBVIOUS
  <2>3. \A i \in 1..9 : FullMenu[i] \in Part1
    BY <2>1, <2>2
  <2>4. \A i, j \in 1..9 : FullMenu[i] = FullMenu[j] => i = j
    BY <2>1, <2>2
  <2> QED BY <2>3, <2>4
<1>2. /\ \A i \in 10..18 : FullMenu[i] \in Part2
      /\ \A i, j \in 10..18 : FullMenu[i] = FullMenu[j] => i = j
  <2>1. FullMenu[10] = "trace_verify" /\ FullMenu[11] = "replay" /\ FullMenu[12] = "ci" /\
        FullMenu[13] = "shrink" /\ FullMenu[14] = "replay_shrunk" /\ FullMenu[15] =
        "artifacts_ls" /\ FullMenu[16] = "artifacts_export" /\ FullMenu[17] = "artifacts_pack"
        /\ FullMenu[18] = "artifacts_diff"
    BY FullMenuIs
  <2>2. \A i \in 10..18 : i = 10 \/ i = 11 \/ i = 12 \/ i = 13 \/ i = 14 \/ i = 15 \/ i = 16 \/ i = 17 \/ i = 18
    OBVIOUS
  <2>3. \A i \in 10..18 : FullMenu[i] \in Part2
    BY <2>1, <2>2
  <2>4. \A i, j \in 10..18 : FullMenu[i] = FullMenu[j] => i = j
    BY <2>1, <2>2
  <2> QED BY <2>3, <2>4
<1>3. /\ \A i \in 19..27 : FullMenu[i] \in Part3
      /\ \A i, j \in 19..27 : FullMenu[i] = FullMenu[j] => i = j
  <2>1. FullMenu[19] = "report_show" /\ FullMenu[20] = "report_query" /\ FullMenu[21] =
        "report_query_paths" /\ FullMenu[22] = "report_flaky" /\ FullMenu[23] = "memory_top" /\
        FullMenu[24] = "memory_graph" /\ FullMenu[25] = "memory_diff" /\ FullMenu[26] =
        "profile_top" /\ FullMenu[27] = "profile_diff"
    BY FullMenuIs
  <2>2. \A i \in 19..27 : i = 19 \/ i = 20 \/ i = 21 \/ i = 22 \/ i = 23 \/ i = 24 \/ i = 25 \/ i = 26 \/ i = 27
    OBVIOUS
  <2>3. \A i \in 19..27 : FullMenu[i] \in Part3
    BY <2>1, <2>2
  <2>4. \A i, j \in 19..27 : FullMenu[i] = FullMenu[j] => i = j
    BY <2>1, <2>2
  <2> QED BY <2>3, <2>4
<1>4. /\ \A i \in 28..37 : FullMenu[i] \in Part4
      /\ \A i, j \in 28..37 : FullMenu[i] = FullMenu[j] => i = j
  <2>1. FullMenu[28] = "profile_explain" /\ FullMenu[29] = "fuzz" /\ FullMenu[30] = "explore" /\
        FullMenu[31] = "corpus_add" /\ FullMenu[32] = "corpus_list" /\ FullMenu[33] =
        "corpus_minimize" /\ FullMenu[34] = "corpus_export" /\ FullMenu[35] = "corpus_import" /\
        FullMenu[36] = "host_backends_run" /\ FullMenu[37] = "env"
    BY FullMenuIs
  <2>2. \A i \in 28..37 : i = 28 \/ i = 29 \/ i = 30 \/ i = 31 \/ i = 32 \/ i = 33 \/ i = 34 \/ i = 35 \/ i = 36 \/ i = 37
    OBVIOUS
  <2>3. \A i \in 28..37 : FullMenu[i] \in Part4
    BY <2>1, <2>2
  <2>4. \A i, j \in 28..37 : FullMenu[i] = FullMenu[j] => i = j
    BY <2>1, <2>2
  <2> QED BY <2>3, <2>4
<1>5. /\ Part1 \cap Part2 = {} /\ Part1 \cap Part3 = {} /\ Part1 \cap Part4 = {}
      /\ Part2 \cap Part3 = {} /\ Part2 \cap Part4 = {} /\ Part3 \cap Part4 = {}
  OBVIOUS
<1> HIDE DEF Part1, Part2, Part3, Part4
<1> SUFFICES ASSUME NEW i \in 1..37, NEW j \in 1..37, FullMenu[i] = FullMenu[j]
             PROVE  i = j
  OBVIOUS
<1>6. /\ i \in 1..9 \/ i \in 10..18 \/ i \in 19..27 \/ i \in 28..37
      /\ j \in 1..9 \/ j \in 10..18 \/ j \in 19..27 \/ j \in 28..37
  OBVIOUS
<1> QED BY <1>1, <1>2, <1>3, <1>4, <1>5, <1>6

LEMMA MinOfOne ==
  ASSUME NEW i \in Int
  PROVE  Min({i}) = i
BY DEF Min

LEMMA MinIsLeast ==
  ASSUME NEW T, T \subseteq Nat, T # {}
  PROVE  Min(T) \in T /\ \A x \in T : Min(T) <= x
<1> DEFINE R == OpToRel(<, Nat)
<1>1. \A a, b \in Nat : a < b => <<a, b>> \in R
  BY DEF OpToRel
<1>2. IsWellFoundedOn(R, Nat)
  BY NatLessThanWellFounded
<1> HIDE DEF R
<1>3. PICK n \in T : \A m \in T : ~ (<<m, n>> \in R)
  BY <1>2, WFMin
<1>4. \A m \in T : ~ (m < n)
  BY <1>1, <1>3
<1>5. \A m \in T : n <= m
  BY <1>4
<1> QED BY <1>5 DEF Min

LEMMA MenuIs ==
  /\ Menu \in Seq(MenuNames) /\ Len(Menu) \in Nat /\ Len(Menu) > 2
  /\ DOMAIN Menu = 1..Len(Menu)
  /\ Menu[1] = "clean_tree" /\ \A i \in 2..Len(Menu) : Menu[i] # "clean_tree"
  /\ \A i, j \in 1..Len(Menu) : Menu[i] = Menu[j] => i = j
<1>1. /\ Menu \in Seq(MenuNames) /\ Len(Menu) \in {12, 37} /\ Menu[1] = "clean_tree"
      /\ \A i, j \in 1..Len(Menu) : Menu[i] = Menu[j] => i = j
  <2>1. CASE Full
    <3>1. Menu = FullMenu  BY <2>1 DEF Menu
    <3>2. FullMenu \in Seq(FullNames) /\ Len(FullMenu) = 37 /\ FullMenu[1] = "clean_tree"  BY FullMenuIs
    <3>3. FullMenu \in Seq(MenuNames)
      BY <3>2 DEF FullNames
    <3> QED BY <3>1, <3>2, <3>3, FullMenuInjective
  <2>2. CASE ~Full
    <3>1. Menu = GateMenu  BY <2>2 DEF Menu
    <3>2. GateMenu \in Seq(GateNames) /\ Len(GateMenu) = 12 /\ GateMenu[1] = "clean_tree"  BY GateMenuIs
    <3>3. GateNames \subseteq MenuNames
      BY DEF GateNames, MenuNames
    <3>4. GateMenu \in Seq(MenuNames)
      BY <3>2, <3>3
    <3> QED BY <3>1, <3>2, <3>4, GateMenuInjective
  <2> QED BY <2>1, <2>2
<1>2. \A i \in 2..Len(Menu) : Menu[i] # "clean_tree"
  <2> SUFFICES ASSUME NEW i \in 2..Len(Menu), Menu[i] = "clean_tree" PROVE FALSE
    OBVIOUS
  <2>1. i \in 1..Len(Menu) /\ 1 \in 1..Len(Menu) /\ Menu[i] = Menu[1] /\ i # 1
    BY <1>1
  <2> QED BY <2>1, <1>1
<1>3. Menu \in Seq(MenuNames) /\ Len(Menu) \in {12, 37}
  BY <1>1
<1>4. Len(Menu) \in Nat /\ Len(Menu) > 2 /\ DOMAIN Menu = 1..Len(Menu)
  <2>1. Menu \in Seq(MenuNames)
    BY <1>3
  <2>2. DOMAIN Menu = 1..Len(Menu)
    BY <2>1, LenProperties
  <2> DEFINE n == Len(Menu)
  <2>3. n \in {12, 37}
    BY <1>3
  <2> HIDE DEF n
  <2>4. n \in Nat /\ n > 2
    BY <2>3
  <2> QED BY <2>2, <2>4 DEF n
<1> QED BY <1>1, <1>2, <1>4

LEMMA AfterIs ==
  ASSUME NEW i \in 1..Len(Menu)
  PROVE  After(Menu[i]) = IF i = Len(Menu) THEN "finish" ELSE Menu[i + 1]
<1>1. {j \in 1..Len(Menu) : Menu[j] = Menu[i]} = {i}
  BY MenuIs
<1>2. SelectInSeq(Menu, LAMBDA n : n = Menu[i]) = i
  BY <1>1, MinOfOne DEF SelectInSeq
<1> QED BY <1>2 DEF After

LEMMA SurfaceIs ==
  /\ Shift \in {0, 1} /\ Len(Surface) = Len(Menu) + Shift
  /\ Surface \in Seq(StepNames) /\ Surface[1] = "clean_tree"
  /\ \A i \in 2..Len(Menu) : Surface[i + Shift] = Menu[i]
  /\ Full /\ Conflict => Surface[2] = "policy_conflict"
<1>1. Menu \in Seq(MenuNames) /\ Len(Menu) \in Nat /\ Len(Menu) > 2 /\ Menu[1] = "clean_tree"
  BY MenuIs
<1>2. Menu \in Seq(StepNames)
  BY <1>1 DEF StepNames
<1>3. CASE Full /\ Conflict
  <2> DEFINE first == <<Menu[1], "policy_conflict">>
             rest == Tail(Menu)
  <2>1. /\ rest \in Seq(StepNames) /\ Len(rest) = Len(Menu) - 1
        /\ \A i \in 1..Len(rest) : rest[i] = Menu[i + 1]
    BY <1>1, <1>2
  <2>2. first \in Seq(StepNames) /\ Len(first) = 2 /\ first[1] = "clean_tree" /\ first[2] = "policy_conflict"
    BY <1>1 DEF StepNames, MenuNames
  <2>3. Surface = first \o rest /\ Shift = 1
    BY <1>3 DEF Surface, Shift
  <2> HIDE DEF first, rest
  <2>4. /\ first \o rest \in Seq(StepNames) /\ Len(first \o rest) = Len(rest) + 2
        /\ \A i \in 1..2 : (first \o rest)[i] = first[i]
        /\ \A i \in 3..(Len(rest) + 2) : (first \o rest)[i] = rest[i - 2]
    <3>1. Len(rest) \in Nat
      BY <2>1
    <3>2. first \in Seq(StepNames) /\ rest \in Seq(StepNames) /\ Len(first) = 2
      BY <2>1, <2>2
    <3>3. /\ first \o rest \in Seq(StepNames) /\ Len(first \o rest) = Len(first) + Len(rest)
          /\ \A i \in 1..(Len(first) + Len(rest)) :
               (first \o rest)[i] = IF i <= Len(first) THEN first[i] ELSE rest[i - Len(first)]
      BY <3>2, ConcatProperties
    <3> QED BY <3>1, <3>2, <3>3
  <2>5. \A i \in 2..Len(Menu) : Surface[i + 1] = Menu[i]
    <3> SUFFICES ASSUME NEW i \in 2..Len(Menu) PROVE Surface[i + 1] = Menu[i]
      OBVIOUS
    <3>1. i + 1 \in 3..(Len(rest) + 2) /\ (i + 1) - 2 = i - 1 /\ i - 1 \in 1..Len(rest) /\ (i - 1) + 1 = i
      BY <1>1, <2>1
    <3> QED BY <3>1, <2>1, <2>3, <2>4
  <2> QED BY <1>1, <2>1, <2>2, <2>3, <2>4, <2>5
<1>4. CASE ~(Full /\ Conflict)
  <2>1. Surface = Menu /\ Shift = 0
    BY <1>4 DEF Surface, Shift
  <2>2. \A i \in 2..Len(Menu) : Menu[i + 0] = Menu[i]
    BY <1>1
  <2> QED BY <1>1, <1>2, <1>4, <2>1, <2>2
<1> QED BY <1>3, <1>4

-----------------------------------------------------------------------------
(* The steps that are pushed together are the next ones of the menu.       *)

Aligned(i, entries) ==
  /\ i \in 2..Len(Menu) /\ AtMenu(i)
  /\ entries \in Seq(StepRecords) /\ Len(entries) > 0 /\ i + Len(entries) - 1 <= Len(Menu)
  /\ \A k \in 1..Len(entries) : entries[k].name = Menu[i + k - 1]
Onward(i, entries) ==
  \/ i + Len(entries) - 1 = Len(Menu) /\ pc' = "finish"
  \/ i + Len(entries) - 1 < Len(Menu) /\ pc' = Menu[i + Len(entries)]
  \/ pc' = "finish" /\ entries[Len(entries)].status = "failed"

LEMMA SameMenu ==
  ASSUME setup' = setup
  PROVE  /\ Full' = Full /\ Gate' = Gate /\ Menu' = Menu /\ Conflict' = Conflict
         /\ Shift' = Shift /\ Surface' = Surface
<1>1. Full' = Full /\ Gate' = Gate /\ Conflict' = Conflict
  BY DEF Full, Gate, Conflict
<1>2. Menu' = Menu
  BY <1>1 DEF Menu
<1> QED BY <1>1, <1>2 DEF Shift, Surface

LEMMA PushedEntries ==
  ASSUME steps \in Seq(StepRecords), NEW entries \in Seq(StepRecords),
         steps' = steps \o entries
  PROVE  /\ steps' \in Seq(StepRecords)
         /\ Len(steps') = Len(steps) + Len(entries) /\ DOMAIN steps' = 1..Len(steps')
         /\ DOMAIN steps = 1..Len(steps) /\ DOMAIN entries = 1..Len(entries)
         /\ Len(steps) \in Nat /\ Len(entries) \in Nat
         /\ \A k \in 1..Len(steps) : steps'[k] = steps[k]
         /\ \A k \in 1..Len(entries) : steps'[Len(steps) + k] = entries[k]
BY LenProperties, ConcatProperties

LEMMA PushesKeepPlace ==
  ASSUME WorkflowInv, setup.command # "ci", waiting' = None, setup' = setup,
         NEW i, NEW entries, Aligned(i, entries), Onward(i, entries), steps' = steps \o entries
  PROVE  steps' \in Seq(StepRecords) /\ CiInv' /\ PlaceInv'
<1>1. /\ steps \in Seq(StepRecords) /\ entries \in Seq(StepRecords)
      /\ \A k \in DOMAIN steps : steps[k].name = Surface[k]
  BY DEF WorkflowInv, PlaceInv, Aligned
<1>2. /\ i \in 2..Len(Menu) /\ Len(steps) = i - 1 + Shift /\ Len(entries) > 0
      /\ i + Len(entries) - 1 <= Len(Menu) /\ i # 1
      /\ \A k \in 1..Len(entries) : entries[k].name = Menu[i + k - 1]
  BY DEF Aligned, AtMenu
<1>3. /\ steps' \in Seq(StepRecords)
      /\ Len(steps') = Len(steps) + Len(entries) /\ DOMAIN steps' = 1..Len(steps')
      /\ DOMAIN steps = 1..Len(steps) /\ DOMAIN entries = 1..Len(entries)
      /\ Len(steps) \in Nat /\ Len(entries) \in Nat
      /\ \A k \in 1..Len(steps) : steps'[k] = steps[k]
      /\ \A k \in 1..Len(entries) : steps'[Len(steps) + k] = entries[k]
  BY <1>1, PushedEntries
<1>4. /\ Shift \in {0, 1} /\ Len(Surface) = Len(Menu) + Shift /\ Len(Menu) \in Nat
      /\ \A j \in 2..Len(Menu) : Surface[j + Shift] = Menu[j]
  BY SurfaceIs, MenuIs
<1>5. /\ Full' = Full /\ Menu' = Menu /\ Shift' = Shift /\ Surface' = Surface
  BY SameMenu
<1>6. \A k \in DOMAIN steps' : steps'[k].name = Surface[k]
  <2> SUFFICES ASSUME NEW k \in 1..Len(steps') PROVE steps'[k].name = Surface[k]
    BY <1>3
  <2>1. CASE k <= Len(steps)
    BY <2>1, <1>1, <1>3
  <2>2. CASE k > Len(steps)
    <3> DEFINE m == k - Len(steps)
               j == i + m - 1
    <3>1. m \in 1..Len(entries) /\ j \in 2..Len(Menu) /\ k = j + Shift /\ k = Len(steps) + m
      BY <2>2, <1>2, <1>3, <1>4
    <3>2. steps'[k] = entries[m]
      BY <3>1, <1>3
    <3>3. entries[m].name = Menu[j]
      BY <3>1, <1>2
    <3>4. Surface[k] = Menu[j]
      BY <3>1, <1>4
    <3> QED BY <3>2, <3>3, <3>4
  <2> QED BY <2>1, <2>2, <1>3
<1>7. \/ i + Len(entries) - 1 = Len(Menu) /\ pc' = "finish"
      \/ i + Len(entries) - 1 < Len(Menu) /\ pc' = Menu[i + Len(entries)]
      \/ pc' = "finish" /\ entries[Len(entries)].status = "failed"
  BY DEF Onward
<1>8. \/ \E j \in 1..Len(Menu) : AtMenu(j)'
      \/ pc' = "finish" /\ \/ Len(steps') = Len(Surface)
                           \/ Len(steps') \in 1..Len(Surface) /\ steps'[Len(steps')].status = "failed"
  <2>1. CASE i + Len(entries) - 1 = Len(Menu) /\ pc' = "finish"
    <3> DEFINE m == Len(Menu)
               n == Len(entries)
               l == Len(steps)
    <3>0. m \in Nat /\ n \in Nat /\ l = i - 1 + Shift /\ i + n - 1 = m /\ i \in Nat /\ Shift \in {0, 1}
      BY <2>1, <1>2, <1>3, <1>4
    <3>1. Len(steps') = l + n /\ Len(Surface) = m + Shift
      BY <1>3, <1>4
    <3> HIDE DEF m, n, l
    <3>2. l + n = m + Shift
      BY <3>0
    <3> QED BY <2>1, <3>1, <3>2
  <2>2. CASE i + Len(entries) - 1 < Len(Menu) /\ pc' = Menu[i + Len(entries)]
    <3> DEFINE j == i + Len(entries)
    <3>1. j \in 1..Len(Menu) /\ j # 1 /\ Len(steps') = j - 1 + Shift
      BY <2>2, <1>2, <1>3, <1>4
    <3>2. AtMenu(j)'
      BY <2>2, <3>1, <1>5 DEF AtMenu
    <3> QED BY <3>1, <3>2
  <2>3. CASE pc' = "finish" /\ entries[Len(entries)].status = "failed"
    <3>1. steps'[Len(steps')] = entries[Len(entries)] /\ Len(steps') \in 1..Len(Surface)
      BY <1>2, <1>3, <1>4
    <3> QED BY <2>3, <3>1
  <2> QED BY <1>7, <2>1, <2>2, <2>3
<1>9. CiInv'
  BY DEF CiInv
<1> QED BY <1>3, <1>5, <1>6, <1>8, <1>9 DEF PlaceInv

LEMMA PushesKeepFiles ==
  ASSUME WorkflowInv, ~Ended, waiting' = None, worker' = worker, pc' \notin {"reported", "exited"},
         temps \subseteq temps', disk' \subseteq disk \cup temps'
  PROVE  FilesInv' /\ WaitInv'
<1>1. /\ worker # None => worker \in ToSet(FullMenu) /\ WrittenBy(worker) \subseteq temps
      /\ disk \subseteq temps
  BY DEF WorkflowInv, FilesInv
<1>2. ~Ended'
  BY DEF Ended
<1>3. disk' \subseteq temps'
  BY <1>1
<1>4. worker' # None => worker' \in ToSet(FullMenu) /\ WrittenBy(worker') \subseteq temps'
  BY <1>1
<1> QED BY <1>2, <1>3, <1>4 DEF FilesInv, WaitInv

(* What is found depends on the project and the directory alone.           *)
LEMMA SameProject ==
  ASSUME setup' = setup, run'.cwd = run.cwd
  PROVE  /\ Primary' = Primary /\ Distributed' = Distributed /\ HostStep' = HostStep
         /\ RanScenario' = RanScenario /\ \A n : Outcome(n)' = Outcome(n)
<1>1. \A k : Files(k)' = Files(k)
  BY DEF Files
<1> DEFINE S == Files("steps")
           D == Files("distributed")
<1>2. S' = S /\ D' = D
  BY <1>1
<1> HIDE DEF S, D
<1>3. Scoped(S)' = Scoped(S) /\ Scoped(D)' = Scoped(D)
  BY <1>2 DEF Scoped
<1> DEFINE A == Scoped(S)
           B == Scoped(D)
<1>4. A' = A /\ B' = B
  BY <1>3
<1> HIDE DEF A, B
<1>5. /\ FirstOr(A, None)' = FirstOr(A, None) /\ FirstOr(B, None)' = FirstOr(B, None)
      /\ FirstOr({i \in A : setup.files[i].host}, None)' = FirstOr({i \in A : setup.files[i].host}, None)
  BY <1>4 DEF FirstOr
<1>6. Preferred(A)' = Preferred(A) /\ Preferred(B)' = Preferred(B)
  BY <1>4, <1>5 DEF Preferred, FirstOr
<1>7. Primary' = Primary /\ Distributed' = Distributed /\ HostStep' = HostStep
  BY <1>5, <1>6 DEF Primary, Distributed, HostStep, A, B, S, D
<1>8. Full' = Full /\ Gate' = Gate
  BY DEF Full, Gate
<1>9. RanScenario' = RanScenario
  BY <1>7, <1>8 DEF RanScenario
<1>10. TestTargets' = TestTargets
  BY <1>4, <1>7, <1>8 DEF TestTargets, A, S
<1>11. TestRun' = TestRun
  BY <1>10 DEF TestRun, Summary, Trace
<1> QED BY <1>7, <1>9, <1>11 DEF Outcome

Pushed(entries, n) == \E k \in DOMAIN entries : entries[k].name = n

(* What a step may leave behind that neither failed nor followed a failure. *)
WellJudged(entries) ==
  ~AnyFailed(steps) /\ ~AnyFailed(entries) =>
    /\ run'.cwd = run.cwd
    /\ faulty \subseteq faulty'
    /\ \A n \in faulty' \ faulty : n \in RanScenario /\ Outcome(n) # "pass"
    /\ \A n \in RanScenario : Pushed(entries, n) /\ Outcome(n) # "pass" => n \in faulty'
    /\ IF Pushed(entries, "run_record_trace") THEN run'.status = "pass" /\ run'.trace
       ELSE run'.status = run.status /\ run'.trace = run.trace
    /\ IF Pushed(entries, "shrink") THEN run'.shrunk_status = "pass"
       ELSE run'.shrunk_status = run.shrunk_status
    /\ IF Pushed(entries, "replay") THEN Gate => run'.replayed ELSE run'.replayed = run.replayed
    /\ Pushed(entries, "discover_scenarios") \/ Pushed(entries, "scope_match") => Primary # None

LEMMA PushesKeepGreen ==
  ASSUME WorkflowInv, setup.command # "ci", ~Ended, waiting = None, setup' = setup,
         NEW entries \in Seq(StepRecords), steps' = steps \o entries, WellJudged(entries)
  PROVE  GreenInv'
<1> SUFFICES ASSUME ~AnyFailed(steps)' PROVE
      /\ run'.cwd = "project"
      /\ \A n \in faulty' : n \in RanScenario' /\ Outcome(n)' # "pass"
      /\ \A n \in RanScenario' : Done(n)' /\ Outcome(n)' # "pass" => n \in faulty'
      /\ Done("run_record_trace")' => run'.status = "pass" /\ run'.trace
      /\ Done("shrink")' => run'.shrunk_status = "pass"
      /\ Gate' /\ Done("replay")' => run'.replayed
      /\ Done("discover_scenarios")' \/ Done("scope_match")' => Primary' # None
  BY DEF GreenInv
<1>1. steps \in Seq(StepRecords)
  BY DEF WorkflowInv
<1>2. /\ Len(steps') = Len(steps) + Len(entries) /\ DOMAIN steps' = 1..Len(steps')
      /\ DOMAIN steps = 1..Len(steps) /\ DOMAIN entries = 1..Len(entries)
      /\ Len(steps) \in Nat /\ Len(entries) \in Nat
      /\ \A k \in 1..Len(steps) : steps'[k] = steps[k]
      /\ \A k \in 1..Len(entries) : steps'[Len(steps) + k] = entries[k]
  BY <1>1, PushedEntries
<1> DEFINE l == Len(steps)
           m == Len(entries)
<1>3. /\ DOMAIN steps = 1..l /\ DOMAIN entries = 1..m
      /\ \A k \in 1..l : k \in DOMAIN steps' /\ steps'[k] = steps[k]
      /\ \A k \in 1..m : l + k \in DOMAIN steps' /\ steps'[l + k] = entries[k]
      /\ \A k \in DOMAIN steps' : k \in 1..l \/ (k - l \in 1..m /\ l + (k - l) = k)
  BY <1>2
<1> HIDE DEF l, m
<1>4. ~AnyFailed(steps) /\ ~AnyFailed(entries)
  <2>1. \A k \in DOMAIN steps' : steps'[k].status # "failed"
    BY DEF AnyFailed
  <2>2. \A k \in 1..l : steps[k].status # "failed"
    BY <2>1, <1>3
  <2>3. \A k \in 1..m : entries[k].status # "failed"
    BY <2>1, <1>3
  <2> QED BY <2>2, <2>3, <1>3 DEF AnyFailed
<1>5. \A n : Done(n)' <=> Done(n) \/ Pushed(entries, n)
  <2> SUFFICES ASSUME NEW n PROVE Done(n)' <=> Done(n) \/ Pushed(entries, n)
    OBVIOUS
  <2>1. ASSUME Done(n) PROVE Done(n)'
    <3>1. PICK k \in 1..l : steps[k].name = n
      BY <2>1, <1>3 DEF Done
    <3> QED BY <3>1, <1>3 DEF Done
  <2>2. ASSUME Pushed(entries, n) PROVE Done(n)'
    <3>1. PICK k \in 1..m : entries[k].name = n
      BY <2>2, <1>3 DEF Pushed
    <3> QED BY <3>1, <1>3 DEF Done
  <2>3. ASSUME Done(n)' PROVE Done(n) \/ Pushed(entries, n)
    <3>1. PICK k \in DOMAIN steps' : steps'[k].name = n
      BY <2>3 DEF Done
    <3>2. CASE k \in 1..l
      BY <3>1, <3>2, <1>3 DEF Done
    <3>3. CASE k - l \in 1..m /\ l + (k - l) = k
      BY <3>1, <3>3, <1>3 DEF Pushed
    <3> QED BY <3>1, <3>2, <3>3, <1>3
  <2> QED BY <2>1, <2>2, <2>3
<1>6. /\ run.cwd = "project"
      /\ \A n \in faulty : n \in RanScenario /\ Outcome(n) # "pass"
      /\ \A n \in RanScenario : Done(n) /\ Outcome(n) # "pass" => n \in faulty
      /\ Done("run_record_trace") => run.status = "pass" /\ run.trace
      /\ Done("shrink") => run.shrunk_status = "pass"
      /\ Gate /\ Done("replay") => run.replayed
      /\ Done("discover_scenarios") \/ Done("scope_match") => Primary # None
  BY <1>4 DEF WorkflowInv, GreenInv
<1>7. /\ run'.cwd = run.cwd
      /\ faulty \subseteq faulty'
      /\ \A n \in faulty' \ faulty : n \in RanScenario /\ Outcome(n) # "pass"
      /\ \A n \in RanScenario : Pushed(entries, n) /\ Outcome(n) # "pass" => n \in faulty'
      /\ IF Pushed(entries, "run_record_trace") THEN run'.status = "pass" /\ run'.trace
         ELSE run'.status = run.status /\ run'.trace = run.trace
      /\ IF Pushed(entries, "shrink") THEN run'.shrunk_status = "pass"
         ELSE run'.shrunk_status = run.shrunk_status
      /\ IF Pushed(entries, "replay") THEN Gate => run'.replayed ELSE run'.replayed = run.replayed
      /\ Pushed(entries, "discover_scenarios") \/ Pushed(entries, "scope_match") => Primary # None
  BY <1>4 DEF WellJudged
<1>8. /\ Primary' = Primary /\ RanScenario' = RanScenario /\ \A n : Outcome(n)' = Outcome(n)
      /\ Full' = Full /\ Gate' = Gate
  BY <1>7, SameProject, SameMenu
<1> QED BY <1>5, <1>6, <1>7, <1>8

Pushing(entries) ==
  /\ waiting = None /\ waiting' = None
  /\ setup' = setup /\ worker' = worker /\ exit' = exit /\ DOMAIN run' = DOMAIN run
  /\ temps \subseteq temps' /\ disk' \subseteq disk \cup temps'
  /\ steps' = steps \o entries
  /\ \E i \in 2..Len(Menu) : Aligned(i, entries) /\ Onward(i, entries)
  /\ WellJudged(entries)

LEMMA MenuRange ==
  ASSUME NEW i \in 1..Len(Menu)
  PROVE  /\ Menu[i] \in MenuNames
         /\ Menu[i] \notin {"policy_conflict", "finish", "reported", "exited", "ci_command"}
<1>1. Menu[i] \in MenuNames
  <2>1. Menu \in Seq(MenuNames)
    BY MenuIs
  <2> QED BY <2>1, ElementOfSeq
<1>2. \A n \in MenuNames : n \notin {"policy_conflict", "finish", "reported", "exited", "ci_command"}
  BY DEF MenuNames
<1> QED BY <1>1, <1>2

LEMMA PushingKeepsInv ==
  ASSUME WorkflowInv, NEW entries, Pushing(entries)
  PROVE  WorkflowInv'
<1>1. PICK i \in 2..Len(Menu) : Aligned(i, entries) /\ Onward(i, entries)
  BY DEF Pushing
<1>2. /\ i \in 1..Len(Menu) /\ pc = Menu[i] /\ entries \in Seq(StepRecords)
      /\ i + Len(entries) \in 1..Len(Menu) \/ pc' = "finish"
  <2>1. i \in 2..Len(Menu) /\ Len(Menu) \in Nat
    BY MenuIs
  <2>2. Len(entries) \in Nat /\ entries \in Seq(StepRecords)
    BY <1>1, LenProperties DEF Aligned
  <2>3. i + Len(entries) \in 1..Len(Menu) \/ pc' = "finish"
    BY <2>1, <2>2, <1>1 DEF Onward, Aligned
  <2> QED BY <2>1, <2>2, <2>3, <1>1 DEF Aligned, AtMenu
<1>3. ~Ended /\ setup.command # "ci"
  <2>1. pc \notin {"policy_conflict", "finish", "reported", "exited", "ci_command"}
    BY <1>2, MenuRange
  <2> QED BY <2>1 DEF Ended, WorkflowInv, CiInv
<1>4. pc' \notin {"reported", "exited"}
  <2>1. CASE pc' = "finish"
    BY <2>1
  <2>2. CASE pc' # "finish"
    <3>1. pc' = Menu[i + Len(entries)] /\ i + Len(entries) \in 1..Len(Menu)
      BY <2>2, <1>1, <1>2 DEF Onward
    <3> QED BY <3>1, MenuRange
  <2> QED BY <2>1, <2>2
<1>5. steps' \in Seq(StepRecords) /\ CiInv' /\ PlaceInv'
  BY <1>1, <1>3, PushesKeepPlace DEF Pushing
<1>6. FilesInv' /\ WaitInv'
  BY <1>3, <1>4, PushesKeepFiles DEF Pushing
<1>7. GreenInv'
  BY <1>2, <1>3, PushesKeepGreen DEF Pushing
<1>8. ExitInv'
  <2>1. ~Ended' /\ exit' = exit /\ exit = None
    BY <1>3, <1>4 DEF Ended, Pushing, WorkflowInv, ExitInv
  <2> QED BY <2>1 DEF ExitInv
<1>9. setup' \in Setups /\ RunInv'
  BY DEF WorkflowInv, Pushing, RunInv
<1> QED BY <1>5, <1>6, <1>7, <1>8, <1>9 DEF WorkflowInv

LEMMA OnMenu ==
  ASSUME WorkflowInv, pc \in MenuNames
  PROVE  /\ setup.command # "ci" /\ ~Ended
         /\ \E i \in 1..Len(Menu) : AtMenu(i)
<1>1. \A n \in MenuNames : n \notin {"policy_conflict", "finish", "reported", "exited", "ci_command"}
  BY DEF MenuNames
<1>2. ~Ended /\ setup.command # "ci"
  BY <1>1 DEF Ended, WorkflowInv, CiInv
<1> QED BY <1>1, <1>2 DEF WorkflowInv, PlaceInv

(* One step: what was pushed and whether its command answered wrongly.     *)
Pushes(name, status, fault) ==
  /\ pc = name /\ name \in MenuNames \ {"clean_tree"}
  /\ waiting = None /\ waiting' = None
  /\ setup' = setup /\ worker' = worker /\ exit' = exit /\ DOMAIN run' = DOMAIN run
  /\ temps \subseteq temps' /\ disk' \subseteq disk \cup temps'
  /\ status \in Statuses /\ steps' = Push(name, status)
  /\ pc' = After(name) \/ (pc' = "finish" /\ status = "failed")
  /\ faulty' = IF fault THEN faulty \cup {name} ELSE faulty
  /\ ~AnyFailed(steps) /\ status # "failed" =>
       /\ run'.cwd = run.cwd
       /\ fault => name \in RanScenario /\ Outcome(name) # "pass"
       /\ name \in RanScenario /\ Outcome(name) # "pass" => fault
       /\ IF name = "run_record_trace" THEN run'.status = "pass" /\ run'.trace
          ELSE run'.status = run.status /\ run'.trace = run.trace
       /\ IF name = "shrink" THEN run'.shrunk_status = "pass"
          ELSE run'.shrunk_status = run.shrunk_status
       /\ IF name = "replay" THEN Gate => run'.replayed ELSE run'.replayed = run.replayed
       /\ name \in {"discover_scenarios", "scope_match"} => Primary # None

LEMMA PushesKeepInv ==
  ASSUME WorkflowInv, NEW name, NEW status, NEW fault, Pushes(name, status, fault)
  PROVE  WorkflowInv'
<1> DEFINE entries == << [name |-> name, status |-> status] >>
<1>1. /\ entries \in Seq(StepRecords) /\ Len(entries) = 1 /\ DOMAIN entries = {1}
      /\ entries[1].name = name /\ entries[1].status = status
  <2>1. [name |-> name, status |-> status] \in StepRecords
    BY DEF Pushes, StepRecords, StepNames
  <2> QED BY <2>1
<1>2. steps' = steps \o entries
  <2>1. steps \in Seq(StepRecords) /\ [name |-> name, status |-> status] \in StepRecords
    BY DEF WorkflowInv, Pushes, StepRecords, StepNames
  <2> QED BY <2>1, AppendIsConcat DEF Pushes, Push
<1> HIDE DEF entries
<1>3. PICK i \in 1..Len(Menu) : AtMenu(i)
  BY OnMenu DEF Pushes
<1>4. i \in 2..Len(Menu) /\ name = Menu[i] /\ Len(Menu) \in Nat
  <2>1. i # 1
    BY <1>3, MenuIs DEF AtMenu, Pushes
  <2> QED BY <2>1, <1>3, MenuIs DEF AtMenu, Pushes
<1>5. Aligned(i, entries)
  <2>1. i + 1 - 1 = i /\ i <= Len(Menu)
    BY <1>4
  <2> QED BY <2>1, <1>1, <1>3, <1>4 DEF Aligned
<1>6. Onward(i, entries)
  <2>1. After(name) = IF i = Len(Menu) THEN "finish" ELSE Menu[i + 1]
    BY <1>3, <1>4, AfterIs
  <2>2. i + 1 - 1 = i /\ (i = Len(Menu) \/ i < Len(Menu))
    BY <1>4
  <2> QED BY <2>1, <2>2, <1>1 DEF Onward, Pushes
<1>7. \A n : Pushed(entries, n) <=> n = name
  BY <1>1 DEF Pushed
<1>8. AnyFailed(entries) <=> status = "failed"
  BY <1>1 DEF AnyFailed
<1>9. WellJudged(entries)
  BY <1>7, <1>8 DEF WellJudged, Pushes
<1> QED BY <1>2, <1>4, <1>5, <1>6, <1>9, PushingKeepsInv DEF Pushing, Pushes

-----------------------------------------------------------------------------
(* A command that is called directly, and one that is waited for.          *)

LEMMA AnswersAre ==
  ASSUME NEW good, NEW bad, NEW answer \in Answers(good, bad)
  PROVE  /\ answer.ok \in BOOLEAN /\ answer.fault \in BOOLEAN
         /\ ~answer.ok => answer.fault
         /\ answer.ok /\ ~answer.fault => answer.value = good
         /\ answer.ok /\ answer.fault => answer.value \in bad
<1>1. CASE answer = [ok |-> TRUE, value |-> good, fault |-> FALSE]
  BY <1>1
<1>2. CASE \E b \in bad : answer = [ok |-> TRUE, value |-> b, fault |-> TRUE]
  <2>1. PICK b \in bad : answer = [ok |-> TRUE, value |-> b, fault |-> TRUE]
    BY <1>2
  <2> QED BY <2>1
<1>3. CASE answer = [ok |-> FALSE, fault |-> TRUE]
  BY <1>3
<1> QED BY <1>1, <1>2, <1>3 DEF Answers

LEMMA TempsGrow ==
  ASSUME NEW name, RegisterTemp(name)
  PROVE  temps \subseteq temps' /\ WrittenBy(name) \subseteq temps'
<1>1. WrittenBy("corpus_add") \subseteq {"corpus", "corpus_zip", "import"}
  BY DEF WrittenBy
<1> QED BY <1>1 DEF RegisterTemp

LEMMA WrittenIsTemp ==
  ASSUME NEW name, NEW answer, RegisterTemp(name), Written(name, answer)
  PROVE  disk' \subseteq disk \cup temps'
<1>1. disk' \subseteq disk \cup WrittenBy(name)
  BY DEF Written
<1> QED BY <1>1, TempsGrow

(* What the verdict on an answer of a step must show.                      *)
Noticed(name, fault, verdict) ==
  verdict # "failed" =>
    /\ fault => name \in RanScenario /\ Outcome(name) # "pass"
    /\ name \in RanScenario /\ Outcome(name) # "pass" => fault

Answered(name, answer, verdict) ==
  /\ AtStep(name) /\ RegisterTemp(name)
  /\ steps' = Push(name, IF answer.ok THEN verdict ELSE "failed")
  /\ Blamed(name, answer) /\ Written(name, answer)
  /\ pc' = After(name)
  /\ UNCHANGED <<setup, waiting, aborted, run, worker, exit>>

LEMMA AnsweredKeepsInv ==
  ASSUME WorkflowInv, NEW good, NEW bad, NEW answer \in Answers(good, bad),
         NEW name \in MenuNames \ {"clean_tree", "run_record_trace", "shrink", "replay",
                                   "discover_scenarios", "scope_match"},
         NEW verdict, Answered(name, answer, verdict),
         answer.ok => verdict \in Statuses,
         ~AnyFailed(steps) /\ answer.ok => Noticed(name, answer.fault, verdict)
  PROVE  WorkflowInv'
<1> DEFINE status == IF answer.ok THEN verdict ELSE "failed"
<1>1. temps \subseteq temps' /\ disk' \subseteq disk \cup temps'
  BY TempsGrow, WrittenIsTemp DEF Answered
<1>2. status \in Statuses /\ answer.fault \in BOOLEAN
  BY AnswersAre DEF Statuses
<1>3. ~AnyFailed(steps) /\ status # "failed" => Noticed(name, answer.fault, status)
  BY AnswersAre
<1>4. /\ pc = name /\ waiting = None /\ waiting' = None
      /\ setup' = setup /\ worker' = worker /\ exit' = exit /\ run' = run
      /\ steps' = Push(name, status) /\ pc' = After(name)
      /\ faulty' = IF answer.fault THEN faulty \cup {name} ELSE faulty
  BY DEF Answered, AtStep, Blamed
<1> HIDE DEF status
<1>5. Pushes(name, status, answer.fault)
  BY <1>1, <1>2, <1>3, <1>4 DEF Pushes, Noticed
<1> QED BY <1>5, PushesKeepInv

Reached(name, answer, verdict, kept) ==
  /\ AtStep(name) /\ RegisterTemp(name)
  /\ Blamed(name, answer) /\ Written(name, answer)
  /\ IF answer.ok THEN steps' = Push(name, verdict) /\ run' = kept /\ pc' = After(name)
     ELSE steps' = Push(name, "failed") /\ DOMAIN run' = DOMAIN run /\ pc' = "finish"
  /\ UNCHANGED <<setup, waiting, worker, exit>>

LEMMA ReachedKeepsInv ==
  ASSUME WorkflowInv, NEW good, NEW bad, NEW answer \in Answers(good, bad),
         NEW name \in MenuNames \ {"clean_tree"},
         NEW verdict, NEW kept, Reached(name, answer, verdict, kept),
         answer.ok => verdict \in Statuses, DOMAIN kept = DOMAIN run,
         ~AnyFailed(steps) /\ answer.ok /\ verdict # "failed" =>
           /\ Noticed(name, answer.fault, verdict)
           /\ kept.cwd = run.cwd
           /\ IF name = "run_record_trace" THEN kept.status = "pass" /\ kept.trace
              ELSE kept.status = run.status /\ kept.trace = run.trace
           /\ IF name = "shrink" THEN kept.shrunk_status = "pass"
              ELSE kept.shrunk_status = run.shrunk_status
           /\ IF name = "replay" THEN Gate => kept.replayed ELSE kept.replayed = run.replayed
           /\ name \in {"discover_scenarios", "scope_match"} => Primary # None
  PROVE  WorkflowInv'
<1> DEFINE status == IF answer.ok THEN verdict ELSE "failed"
<1>1. temps \subseteq temps' /\ disk' \subseteq disk \cup temps'
  BY TempsGrow, WrittenIsTemp DEF Reached
<1>2. status \in Statuses
  BY AnswersAre DEF Statuses
<1>3. status # "failed" => answer.ok /\ status = verdict
  BY AnswersAre
<1>4. /\ pc = name /\ waiting = None /\ waiting' = None
      /\ setup' = setup /\ worker' = worker /\ exit' = exit
      /\ steps' = Push(name, status)
      /\ pc' = After(name) \/ (pc' = "finish" /\ status = "failed")
      /\ faulty' = IF answer.fault THEN faulty \cup {name} ELSE faulty
      /\ answer.ok => run' = kept
      /\ DOMAIN run' = DOMAIN run
  BY DEF Reached, AtStep, Blamed
<1> HIDE DEF status
<1>5. Pushes(name, status, answer.fault)
  BY <1>1, <1>2, <1>3, <1>4 DEF Pushes, Noticed
<1> QED BY <1>5, PushesKeepInv

Waited(name) ==
  /\ AtStep(name) /\ RegisterTemp(name)
  /\ waiting' = name /\ faulty' = faulty \cup {name}
  /\ UNCHANGED <<setup, pc, steps, aborted, run, disk, worker, exit>>

LEMMA WaitedKeepsInv ==
  ASSUME WorkflowInv, NEW name \in MenuNames \ {"clean_tree"}, name \in ToSet(FullMenu), Waited(name)
  PROVE  WorkflowInv'
<1>1. /\ pc' = pc /\ pc = name /\ setup' = setup /\ steps' = steps /\ waiting' = name /\ waiting' # None
      /\ disk' = disk /\ worker' = worker /\ exit' = exit
      /\ temps \subseteq temps' /\ WrittenBy(name) \subseteq temps'
  BY TempsGrow, AbsenceAssumption DEF Waited, AtStep
<1>2. setup.command # "ci" /\ ~Ended /\ \E i \in 1..Len(Menu) : AtMenu(i)
  BY <1>1, OnMenu
<1>3. Menu' = Menu /\ Surface' = Surface /\ Shift' = Shift
  BY <1>1, SameMenu
<1>4. PlaceInv'
  <2>1. PICK i \in 1..Len(Menu) : AtMenu(i)
    BY <1>2
  <2>2. i \in 1..Len(Menu') /\ AtMenu(i)'
    BY <2>1, <1>1, <1>3 DEF AtMenu
  <2>3. \A k \in DOMAIN steps' : steps'[k].name = Surface'[k]
    BY <1>1, <1>3 DEF WorkflowInv, PlaceInv
  <2> QED BY <2>2, <2>3 DEF PlaceInv
<1>5. ~Ended' /\ setup' \in Setups /\ steps' \in Seq(StepRecords) /\ RunInv'
  BY <1>1, <1>2 DEF Ended, WorkflowInv, Waited, RunInv
<1>6. CiInv' /\ WaitInv' /\ ExitInv' /\ GreenInv'
  BY <1>1, <1>2, <1>5 DEF CiInv, WaitInv, ExitInv, GreenInv, WorkflowInv
<1>7. FilesInv'
  BY <1>1, <1>2, <1>5 DEF FilesInv, WorkflowInv
<1> QED BY <1>4, <1>5, <1>6, <1>7 DEF WorkflowInv

PlainNames ==
  MenuNames \ {"clean_tree", "discover_scenarios", "scope_match", "test_det", "test_det_strict", "run_record_trace",
               "replay", "shrink", "report_query", "fuzz", "explore", "host_backends_run"}

LEMMA JudgedKeepsInv ==
  ASSUME WorkflowInv, NEW good, NEW bad, NEW answer \in Answers(good, bad),
         NEW name \in PlainNames, NEW verdict \in Statuses, Answered(name, answer, verdict),
         ~AnyFailed(steps) /\ answer.ok /\ answer.fault => verdict = "failed"
  PROVE  WorkflowInv'
<1>1. name \in MenuNames \ {"clean_tree", "run_record_trace", "shrink", "replay",
                            "discover_scenarios", "scope_match"}
  BY DEF PlainNames
<1>2. name \notin RanScenario
  BY DEF PlainNames, RanScenario
<1>3. ~AnyFailed(steps) /\ answer.ok => Noticed(name, answer.fault, verdict)
  BY <1>2, AnswersAre DEF Noticed
<1> QED BY <1>1, <1>3, AnsweredKeepsInv

LEMMA JudgedInTimeKeepsInv ==
  ASSUME WorkflowInv, NEW good, NEW bad, NEW answer \in Answers(good, bad),
         NEW name \in PlainNames, NEW verdict \in Statuses, Reached(name, answer, verdict, run),
         ~AnyFailed(steps) /\ answer.ok /\ answer.fault => verdict = "failed"
  PROVE  WorkflowInv'
<1>1. name \in MenuNames \ {"clean_tree", "run_record_trace", "shrink", "replay",
                            "discover_scenarios", "scope_match"}
  BY DEF PlainNames
<1>2. name \notin RanScenario
  BY DEF PlainNames, RanScenario
<1>3. ~AnyFailed(steps) /\ answer.ok => Noticed(name, answer.fault, verdict)
  BY <1>2, AnswersAre DEF Noticed
<1> QED BY <1>1, <1>3, ReachedKeepsInv

LEMMA PairIs ==
  ASSUME NEW e, NEW f
  PROVE  /\ 1 \in DOMAIN <<e, f>> /\ 2 \in DOMAIN <<e, f>> /\ 1 # 2
         /\ <<e, f>>[1] = e /\ <<e, f>>[2] = f
OBVIOUS

LEMMA SingleIs ==
  ASSUME NEW e
  PROVE  1 \in DOMAIN <<e>> /\ <<e>>[1] = e
OBVIOUS

LEMMA AlikeNotDistinct ==
  ASSUME NEW f, NEW i \in DOMAIN f, NEW j \in DOMAIN f, i # j, f[i] = f[j]
  PROVE  ~Distinct(f)
BY DEF Distinct, IsInjective

LEMMA NotListed ==
  ASSUME NEW entry, entry.size = None \/ entry.size = 0
  PROVE  ~ListedFileOk(entry)
<1>1. CASE entry.size = None
  BY <1>1 DEF ListedFileOk
<1>2. CASE entry.size = 0
  <2> DEFINE size == entry.size
  <2>1. size = 0
    BY <1>2
  <2> HIDE DEF size
  <2>2. ~(size > 0)
    BY <2>1
  <2> QED BY <2>2 DEF ListedFileOk, size
<1> QED BY <1>1, <1>2

LEMMA TraceVerifyKeeps ==
  ASSUME WorkflowInv, TraceVerify
  PROVE  WorkflowInv'
<1> DEFINE good == Verified
           bad == BadVerified
<1>1. PICK answer \in Answers(good, bad) :
        Answered("trace_verify", answer, TraceVerifyStatus(answer.value, Strict))
  BY DEF TraceVerify, Direct, Answered
<1>2. ASSUME NEW b \in bad PROVE TraceVerifyStatus(b, Strict) = "failed"
  BY <1>2 DEF BadVerified, Verified, TraceVerifyStatus, PassedIf
<1>3. TraceVerifyStatus(answer.value, Strict) \in Statuses
  BY DEF Statuses, TraceVerifyStatus, PassedIf
<1>4. "trace_verify" \in PlainNames
  BY DEF PlainNames, MenuNames
<1> HIDE DEF good, bad
<1> QED BY <1>1, <1>2, <1>3, <1>4, AnswersAre, JudgedKeepsInv

LEMMA ArtifactsLsKeeps ==
  ASSUME WorkflowInv, ArtifactsLs
  PROVE  WorkflowInv'
<1> DEFINE good == ArtifactList
           bad == {<<>>, ArtifactList \o ArtifactList, <<[ArtifactList[1] EXCEPT !.size = None]>>,
                      <<[ArtifactList[1] EXCEPT !.size = 0]>>,
                      <<[ArtifactList[1] EXCEPT !.reported = 1]>>}
<1>1. PICK answer \in Answers(good, bad) :
        Answered("artifacts_ls", answer, ArtifactsListStatus(answer.value))
  BY DEF ArtifactsLs, Direct, Answered
<1>2. ASSUME NEW b \in bad PROVE ArtifactsListStatus(b) = "failed"
  <2>1. CASE b = <<>>
    BY <2>1 DEF ArtifactsListStatus, CorpusListStatus, PassedIf
  <2>2. CASE b = ArtifactList \o ArtifactList
    <3> DEFINE f == [i \in DOMAIN b |-> b[i].path]
    <3>1. 1 \in DOMAIN f /\ 2 \in DOMAIN f /\ f[1] = f[2] /\ 1 # 2
      BY <2>2 DEF ArtifactList
    <3>2. ~Distinct(f)
      BY <3>1, AlikeNotDistinct
    <3> QED BY <3>2 DEF ArtifactsListStatus, CorpusListStatus, PassedIf
  <2>3. CASE b = <<[ArtifactList[1] EXCEPT !.size = None]>> \/ b = <<[ArtifactList[1] EXCEPT !.size = 0]>>
    <3>1. 1 \in DOMAIN b /\ (b[1].size = None \/ b[1].size = 0)
      BY <2>3 DEF ArtifactList
    <3>2. ~ListedFileOk(b[1])
      BY <3>1, NotListed
    <3> QED BY <3>1, <3>2 DEF ArtifactsListStatus, CorpusListStatus, PassedIf
  <2>5. CASE b = <<[ArtifactList[1] EXCEPT !.reported = 1]>>
    <3>1. DOMAIN b = {1} /\ b[1].size = 2 /\ b[1].reported = 1
      BY <2>5 DEF ArtifactList
    <3> QED BY <3>1, NoneAssumption DEF ArtifactsListStatus, PassedIf
  <2> QED BY <2>1, <2>2, <2>3, <2>5
<1>3. ArtifactsListStatus(answer.value) \in Statuses
  BY DEF Statuses, ArtifactsListStatus, CorpusListStatus, PassedIf
<1>4. "artifacts_ls" \in PlainNames
  BY DEF PlainNames, MenuNames
<1> HIDE DEF good, bad
<1> QED BY <1>1, <1>2, <1>3, <1>4, AnswersAre, JudgedKeepsInv

LEMMA ArtifactsExportKeeps ==
  ASSUME WorkflowInv, ArtifactsExport
  PROVE  WorkflowInv'
<1> DEFINE good == Archive
           bad == BadZips
<1>1. PICK answer \in Answers(good, bad) :
        Answered("artifacts_export", answer, ZipArtifactStatus(answer.value))
  BY DEF ArtifactsExport, Direct, Answered
<1>2. ASSUME NEW b \in bad PROVE ZipArtifactStatus(b) = "failed"
  BY <1>2 DEF Archive, BadZips, ZipArtifactStatus, PassedIf
<1>3. ZipArtifactStatus(answer.value) \in Statuses
  BY DEF Statuses, ZipArtifactStatus, PassedIf
<1>4. "artifacts_export" \in PlainNames
  BY DEF PlainNames, MenuNames
<1> HIDE DEF good, bad
<1> QED BY <1>1, <1>2, <1>3, <1>4, AnswersAre, JudgedKeepsInv

LEMMA ArtifactsPackKeeps ==
  ASSUME WorkflowInv, ArtifactsPack
  PROVE  WorkflowInv'
<1> DEFINE good == Archive
           bad == BadZips
<1>1. PICK answer \in Answers(good, bad) :
        Answered("artifacts_pack", answer, ZipArtifactStatus(answer.value))
  BY DEF ArtifactsPack, Direct, Answered
<1>2. ASSUME NEW b \in bad PROVE ZipArtifactStatus(b) = "failed"
  BY <1>2 DEF Archive, BadZips, ZipArtifactStatus, PassedIf
<1>3. ZipArtifactStatus(answer.value) \in Statuses
  BY DEF Statuses, ZipArtifactStatus, PassedIf
<1>4. "artifacts_pack" \in PlainNames
  BY DEF PlainNames, MenuNames
<1> HIDE DEF good, bad
<1> QED BY <1>1, <1>2, <1>3, <1>4, AnswersAre, JudgedKeepsInv

LEMMA CorpusExportKeeps ==
  ASSUME WorkflowInv, CorpusExport
  PROVE  WorkflowInv'
<1> DEFINE good == Archive
           bad == BadZips
<1>1. PICK answer \in Answers(good, bad) :
        Answered("corpus_export", answer, ZipArtifactStatus(answer.value))
  BY DEF CorpusExport, Direct, Answered
<1>2. ASSUME NEW b \in bad PROVE ZipArtifactStatus(b) = "failed"
  BY <1>2 DEF Archive, BadZips, ZipArtifactStatus, PassedIf
<1>3. ZipArtifactStatus(answer.value) \in Statuses
  BY DEF Statuses, ZipArtifactStatus, PassedIf
<1>4. "corpus_export" \in PlainNames
  BY DEF PlainNames, MenuNames
<1> HIDE DEF good, bad
<1> QED BY <1>1, <1>2, <1>3, <1>4, AnswersAre, JudgedKeepsInv

LEMMA UnchangedDelta ==
  LET d == [Delta EXCEPT !.changed = FALSE]
  IN  d.changed = FALSE /\ d.left # d.right
BY DEF Delta

LEMMA ArtifactsDiffKeeps ==
  ASSUME WorkflowInv, ArtifactsDiff
  PROVE  WorkflowInv'
<1> DEFINE good == Deltas
           bad == {[Deltas EXCEPT !.files = <<Delta, Delta>>], [Deltas EXCEPT !.left = ""],
                      [Deltas EXCEPT !.files = <<[Delta EXCEPT !.changed = FALSE]>>],
                      [Deltas EXCEPT !.files = <<[Delta EXCEPT !.left = None, !.right = None]>>]}
<1>1. PICK answer \in Answers(good, bad) :
        Answered("artifacts_diff", answer, ArtifactsDiffStatus(answer.value))
  BY DEF ArtifactsDiff, Direct, Answered
<1>2. ASSUME NEW b \in bad PROVE ArtifactsDiffStatus(b) = "failed"
  <2>1. CASE b = [Deltas EXCEPT !.files = <<Delta, Delta>>]
    <3> DEFINE f == [i \in DOMAIN b.files |-> b.files[i].key]
    <3>1. b.files = <<Delta, Delta>>
      BY <2>1 DEF Deltas
    <3>2. 1 \in DOMAIN f /\ 2 \in DOMAIN f /\ f[1] = f[2] /\ 1 # 2
      <4>1. /\ 1 \in DOMAIN <<Delta, Delta>> /\ 2 \in DOMAIN <<Delta, Delta>>
            /\ <<Delta, Delta>>[1] = Delta /\ <<Delta, Delta>>[2] = Delta /\ 1 # 2
        BY PairIs
      <4> QED BY <3>1, <4>1, Zenon
    <3>3. ~Distinct(f)
      BY <3>2, AlikeNotDistinct
    <3> QED BY <3>3 DEF ArtifactsDiffStatus, PassedIf
  <2>2. CASE b = [Deltas EXCEPT !.left = ""]
    BY <2>2 DEF Deltas, ArtifactsDiffStatus, PassedIf
  <2>3. CASE b = [Deltas EXCEPT !.files = <<[Delta EXCEPT !.changed = FALSE]>>]
    <3> DEFINE d == [Delta EXCEPT !.changed = FALSE]
    <3>1. d.changed = FALSE /\ d.left # d.right
      BY UnchangedDelta
    <3>2. ~DeltaOk(d)
      BY <3>1 DEF DeltaOk
    <3> HIDE DEF d
    <3>3. b.files = <<d>>
      BY <2>3 DEF Deltas, d
    <3>4. 1 \in DOMAIN b.files /\ b.files[1] = d
      <4>1. 1 \in DOMAIN <<d>> /\ <<d>>[1] = d
        BY SingleIs
      <4> QED BY <3>3, <4>1, Zenon
    <3> QED BY <3>2, <3>4 DEF ArtifactsDiffStatus, PassedIf
  <2>4. CASE b = [Deltas EXCEPT !.files = <<[Delta EXCEPT !.left = None, !.right = None]>>]
    <3> DEFINE d == [Delta EXCEPT !.left = None, !.right = None]
    <3>1. d.left = None /\ d.right = None
      BY DEF Delta
    <3>2. ~DeltaOk(d)
      BY <3>1 DEF DeltaOk
    <3> HIDE DEF d
    <3>3. b.files = <<d>>
      BY <2>4 DEF Deltas, d
    <3>4. 1 \in DOMAIN b.files /\ b.files[1] = d
      <4>1. 1 \in DOMAIN <<d>> /\ <<d>>[1] = d
        BY SingleIs
      <4> QED BY <3>3, <4>1, Zenon
    <3> QED BY <3>2, <3>4 DEF ArtifactsDiffStatus, PassedIf
  <2> QED BY <2>1, <2>2, <2>3, <2>4
<1>3. ArtifactsDiffStatus(answer.value) \in Statuses
  BY DEF Statuses, ArtifactsDiffStatus, PassedIf
<1>4. "artifacts_diff" \in PlainNames
  BY DEF PlainNames, MenuNames
<1> HIDE DEF good, bad
<1> QED BY <1>1, <1>2, <1>3, <1>4, AnswersAre, JudgedKeepsInv

LEMMA ReportShowKeeps ==
  ASSUME WorkflowInv, ReportShow
  PROVE  WorkflowInv'
<1> DEFINE good == Shown
           bad == {[Shown EXCEPT !.content = ""], [Shown EXCEPT !.format = "json"]}
<1>1. PICK answer \in Answers(good, bad) :
        Answered("report_show", answer, ReportShowStatus(answer.value))
  BY DEF ReportShow, Direct, Answered
<1>2. ASSUME NEW b \in bad PROVE ReportShowStatus(b) = "failed"
  BY <1>2 DEF Shown, ReportShowStatus, PassedIf
<1>3. ReportShowStatus(answer.value) \in Statuses
  BY DEF Statuses, ReportShowStatus, PassedIf
<1>4. "report_show" \in PlainNames
  BY DEF PlainNames, MenuNames
<1> HIDE DEF good, bad
<1> QED BY <1>1, <1>2, <1>3, <1>4, AnswersAre, JudgedKeepsInv

LEMMA ReportQueryPathsKeeps ==
  ASSUME WorkflowInv, ReportQueryPaths
  PROVE  WorkflowInv'
<1> DEFINE good == <<"status", "mode">>
           bad == {<<>>, <<"status", "">>, <<"mode", "mode">>}
<1>1. PICK answer \in Answers(good, bad) :
        Answered("report_query_paths", answer, ReportQueryPathsStatus(answer.value))
  BY DEF ReportQueryPaths, Direct, Answered
<1>2. ASSUME NEW b \in bad PROVE ReportQueryPathsStatus(b) = "failed"
  <2>1. CASE b = <<>>
    BY <2>1 DEF ReportQueryPathsStatus, PassedIf
  <2>2. CASE b = <<"status", "">>
    <3>1. 2 \in DOMAIN b /\ b[2] = ""
      <4>1. 2 \in DOMAIN <<"status", "">> /\ <<"status", "">>[2] = ""
        BY PairIs
      <4> QED BY <2>2, <4>1, Zenon
    <3>2. "" \in ToSet(b)
      BY <3>1 DEF ToSet
    <3> QED BY <3>2 DEF ReportQueryPathsStatus, PassedIf
  <2>3. CASE b = <<"mode", "mode">>
    <3>1. 1 \in DOMAIN b /\ 2 \in DOMAIN b /\ b[1] = b[2] /\ 1 # 2
      <4>1. /\ 1 \in DOMAIN <<"mode", "mode">> /\ 2 \in DOMAIN <<"mode", "mode">>
            /\ <<"mode", "mode">>[1] = <<"mode", "mode">>[2] /\ 1 # 2
        BY PairIs
      <4> QED BY <2>3, <4>1, Zenon
    <3>2. ~Distinct(b)
      BY <3>1, AlikeNotDistinct
    <3> QED BY <3>2 DEF ReportQueryPathsStatus, PassedIf
  <2> QED BY <2>1, <2>2, <2>3
<1>3. ReportQueryPathsStatus(answer.value) \in Statuses
  BY DEF Statuses, ReportQueryPathsStatus, PassedIf
<1>4. "report_query_paths" \in PlainNames
  BY DEF PlainNames, MenuNames
<1> HIDE DEF good, bad
<1> QED BY <1>1, <1>2, <1>3, <1>4, AnswersAre, JudgedKeepsInv

LEMMA ProfileTopKeeps ==
  ASSUME WorkflowInv, ProfileTop
  PROVE  WorkflowInv'
<1> DEFINE good == Top
           bad == {[Top EXCEPT !.warnings = <<"w">>], [Top EXCEPT !.empty = <<"time">>],
                      [Top EXCEPT !.empty = <<"io", "io">>]}
<1>1. PICK answer \in Answers(good, bad) :
        Answered("profile_top", answer, ProfileTopStatus(answer.value))
  BY DEF ProfileTop, Direct, Answered
<1>2. ASSUME NEW b \in bad PROVE ProfileTopStatus(b) = "failed"
  BY <1>2 DEF Top, ProfileTopStatus, KnownProfileDomain, Distinct, IsInjective
<1>3. ProfileTopStatus(answer.value) \in Statuses
  BY DEF Statuses, ProfileTopStatus
<1>4. "profile_top" \in PlainNames
  BY DEF PlainNames, MenuNames
<1> HIDE DEF good, bad
<1> QED BY <1>1, <1>2, <1>3, <1>4, AnswersAre, JudgedKeepsInv

LEMMA CorpusAddKeeps ==
  ASSUME WorkflowInv, CorpusAdd
  PROVE  WorkflowInv'
<1> DEFINE good == [added |-> "full"]
           bad == {[added |-> None], [added |-> "empty"]}
<1>1. PICK answer \in Answers(good, bad) :
        Answered("corpus_add", answer, CorpusAddStatus(answer.value))
  BY DEF CorpusAdd, Direct, Answered
<1>2. ASSUME NEW b \in bad PROVE CorpusAddStatus(b) = "failed"
  BY <1>2 DEF CorpusAddStatus, FileArtifactStatus, PassedIf
<1>3. CorpusAddStatus(answer.value) \in Statuses
  BY DEF Statuses, CorpusAddStatus, FileArtifactStatus, PassedIf
<1>4. "corpus_add" \in PlainNames
  BY DEF PlainNames, MenuNames
<1> HIDE DEF good, bad
<1> QED BY <1>1, <1>2, <1>3, <1>4, AnswersAre, JudgedKeepsInv

LEMMA CorpusListKeeps ==
  ASSUME WorkflowInv, CorpusList
  PROVE  WorkflowInv'
<1> DEFINE good == <<SeedEntry>>
           bad == BadEntries \cup {<<SeedEntry, SeedEntry>>}
<1>1. PICK answer \in Answers(good, bad) :
        Answered("corpus_list", answer, CorpusListStatus(answer.value))
  BY DEF CorpusList, Direct, Answered
<1>2. ASSUME NEW b \in bad PROVE CorpusListStatus(b) = "failed"
  <2>1. CASE b = <<>>
    BY <2>1 DEF CorpusListStatus, PassedIf
  <2>2. CASE b = <<[SeedEntry EXCEPT !.size = None]>> \/ b = <<[SeedEntry EXCEPT !.size = 0]>>
    <3>1. 1 \in DOMAIN b /\ (b[1].size = None \/ b[1].size = 0)
      BY <2>2 DEF SeedEntry
    <3>2. ~ListedFileOk(b[1])
      BY <3>1, NotListed
    <3> QED BY <3>1, <3>2 DEF CorpusListStatus, PassedIf
  <2>3. CASE b = <<SeedEntry, SeedEntry>>
    <3> DEFINE f == [i \in DOMAIN b |-> b[i].path]
    <3>1. 1 \in DOMAIN f /\ 2 \in DOMAIN f /\ f[1] = f[2] /\ 1 # 2
      BY <2>3
    <3>2. ~Distinct(f)
      BY <3>1, AlikeNotDistinct
    <3> QED BY <3>2 DEF CorpusListStatus, PassedIf
  <2> QED BY <2>1, <2>2, <2>3 DEF BadEntries
<1>3. CorpusListStatus(answer.value) \in Statuses
  BY DEF Statuses, CorpusListStatus, PassedIf
<1>4. "corpus_list" \in PlainNames
  BY DEF PlainNames, MenuNames
<1> HIDE DEF good, bad
<1> QED BY <1>1, <1>2, <1>3, <1>4, AnswersAre, JudgedKeepsInv

LEMMA CorpusMinimizeKeeps ==
  ASSUME WorkflowInv, CorpusMinimize
  PROVE  WorkflowInv'
<1> DEFINE good == Minimized
           bad == {[Minimized EXCEPT !.files_after = 0, !.removed = 1],
                      [Minimized EXCEPT !.removed = 1], [Minimized EXCEPT !.bytes_removed = 1]}
<1>1. PICK answer \in Answers(good, bad) :
        Answered("corpus_minimize", answer, CorpusMinimizeStatus(answer.value))
  BY DEF CorpusMinimize, Direct, Answered
<1>2. ASSUME NEW b \in bad PROVE CorpusMinimizeStatus(b) = "failed"
  <2>1. CASE b = [Minimized EXCEPT !.files_after = 0, !.removed = 1]
    <3>1. b.files_after = 0 /\ b.files_before = 1
      BY <2>1 DEF Minimized
    <3> QED BY <3>1 DEF CorpusMinimizeStatus, PassedIf
  <2>2. CASE b = [Minimized EXCEPT !.removed = 1]
    <3>1. b.files_after = 1 /\ b.files_before = 1 /\ b.removed = 1
      BY <2>2 DEF Minimized
    <3> QED BY <3>1 DEF CorpusMinimizeStatus, PassedIf
  <2>3. CASE b = [Minimized EXCEPT !.bytes_removed = 1]
    <3>1. b.bytes_before = 1 /\ b.bytes_after = 1 /\ b.bytes_removed = 1
      BY <2>3 DEF Minimized
    <3> QED BY <3>1 DEF CorpusMinimizeStatus, PassedIf
  <2> QED BY <2>1, <2>2, <2>3
<1>3. CorpusMinimizeStatus(answer.value) \in Statuses
  BY DEF Statuses, CorpusMinimizeStatus, PassedIf
<1>4. "corpus_minimize" \in PlainNames
  BY DEF PlainNames, MenuNames
<1> HIDE DEF good, bad
<1> QED BY <1>1, <1>2, <1>3, <1>4, AnswersAre, JudgedKeepsInv

LEMMA CorpusImportKeeps ==
  ASSUME WorkflowInv, CorpusImport
  PROVE  WorkflowInv'
<1> DEFINE good == [dir |-> TRUE, entries |-> <<SeedEntry>>]
           bad == {[dir |-> FALSE, entries |-> <<>>]}
                      \cup {[dir |-> TRUE, entries |-> e] : e \in BadEntries}
<1>1. PICK answer \in Answers(good, bad) :
        Answered("corpus_import", answer, CorpusImportStatus(answer.value))
  BY DEF CorpusImport, Direct, Answered
<1>2. ASSUME NEW b \in bad PROVE CorpusImportStatus(b) = "failed"
  BY <1>2 DEF SeedEntry, BadEntries, CorpusImportStatus, ListedFileOk, PassedIf
<1>3. CorpusImportStatus(answer.value) \in Statuses
  BY DEF Statuses, CorpusImportStatus, PassedIf
<1>4. "corpus_import" \in PlainNames
  BY DEF PlainNames, MenuNames
<1> HIDE DEF good, bad
<1> QED BY <1>1, <1>2, <1>3, <1>4, AnswersAre, JudgedKeepsInv

-----------------------------------------------------------------------------
(* What is known when a step is reached without a failure.                 *)

LEMMA EarlierDone ==
  ASSUME WorkflowInv, NEW i \in 2..Len(Menu), AtMenu(i), NEW j \in 1..(i - 1)
  PROVE  Done(Menu[j])
<1>1. /\ Len(steps) = i - 1 + Shift /\ Shift \in {0, 1} /\ Len(Menu) \in Nat
      /\ \A k \in DOMAIN steps : steps[k].name = Surface[k]
      /\ DOMAIN steps = 1..Len(steps)
  BY SurfaceIs, MenuIs, LenProperties DEF AtMenu, WorkflowInv, PlaceInv
<1>2. CASE j = 1
  <2>1. Surface[1] = Menu[1] /\ 1 \in DOMAIN steps
    BY <1>1, SurfaceIs, MenuIs
  <2> QED BY <1>1, <1>2, <2>1 DEF Done
<1>3. CASE j # 1
  <2>1. j \in 2..Len(Menu) /\ j + Shift \in DOMAIN steps
    BY <1>1, <1>3
  <2>2. Surface[j + Shift] = Menu[j]
    BY <2>1, SurfaceIs
  <2> QED BY <1>1, <2>1, <2>2 DEF Done
<1> QED BY <1>2, <1>3

LEMMA PlaceOf ==
  ASSUME WorkflowInv, pc \in MenuNames, NEW k \in 1..Len(Menu), pc = Menu[k]
  PROVE  AtMenu(k)
<1>1. PICK i \in 1..Len(Menu) : AtMenu(i)
  BY OnMenu
<1>2. Menu[i] = Menu[k]
  BY <1>1 DEF AtMenu
<1>3. i = k
  BY <1>2, MenuIs
<1> QED BY <1>1, <1>3

Unfailed == WorkflowInv /\ waiting = None /\ ~AnyFailed(steps)

LEMMA GreenFacts ==
  ASSUME Unfailed, pc \in MenuNames
  PROVE  /\ run.cwd = "project"
         /\ Done("run_record_trace") => run.status = "pass" /\ run.trace
         /\ Done("shrink") => run.shrunk_status = "pass"
         /\ Gate /\ Done("replay") => run.replayed
         /\ Done("discover_scenarios") \/ Done("scope_match") => Primary # None
<1>1. ~Ended /\ setup.command # "ci"
  BY OnMenu DEF Unfailed
<1> QED BY <1>1 DEF Unfailed, WorkflowInv, GreenInv

FirstNames == {"clean_tree", "usage", "version", "init", "discover_scenarios", "topology_coverage",
               "discover", "scope_match"}

LEMMA FoundBefore ==
  ASSUME Unfailed, pc \in MenuNames \ FirstNames
  PROVE  Primary # None
<1>1. PICK i \in 1..Len(Menu) : AtMenu(i)
  BY OnMenu DEF Unfailed
<1>2. pc = Menu[i] /\ pc \notin FirstNames
  BY <1>1 DEF AtMenu
<1>3. CASE Full
  <2>1. Menu = FullMenu /\ Len(FullMenu) = 37
    BY <1>3, FullMenuIs DEF Menu
  <2>2. FullMenu[1] \in FirstNames /\ FullMenu[2] \in FirstNames /\ FullMenu[3] \in FirstNames
        /\ FullMenu[4] \in FirstNames /\ FullMenu[5] \in FirstNames /\ FullMenu[6] \in FirstNames
    BY FullMenuIs DEF FirstNames
  <2>3. i \in 2..37 /\ 5 \in 1..(i - 1)
    BY <1>2, <2>1, <2>2
  <2>4. Done(Menu[5])
    BY <1>1, <2>1, <2>3, EarlierDone DEF Unfailed
  <2>5. Menu[5] = "discover_scenarios"
    BY <2>1, FullMenuIs
  <2> QED BY <2>4, <2>5, GreenFacts
<1>4. CASE ~Full
  <2>1. Menu = GateMenu /\ Len(GateMenu) = 12
    BY <1>4, GateMenuIs DEF Menu
  <2>2. GateMenu[1] \in FirstNames /\ GateMenu[2] \in FirstNames /\ GateMenu[3] \in FirstNames
    BY GateMenuIs DEF FirstNames
  <2>3. i \in 2..12 /\ 3 \in 1..(i - 1)
    BY <1>2, <2>1, <2>2
  <2>4. Done(Menu[3])
    BY <1>1, <2>1, <2>3, EarlierDone DEF Unfailed
  <2>5. Menu[3] = "scope_match"
    BY <2>1, GateMenuIs
  <2> QED BY <2>4, <2>5, GreenFacts
<1> QED BY <1>3, <1>4

LEMMA TraceBefore ==
  ASSUME Unfailed, pc \in ToSet(TraceNames)
  PROVE  run.status = "pass" /\ run.trace
<1>1. pc \in MenuNames
  BY FullMenuIs DEF ToSet, TraceNames, MenuNames
<1>2. PICK i \in 1..Len(Menu) : AtMenu(i)
  BY <1>1, OnMenu DEF Unfailed
<1>3. pc = Menu[i]
  BY <1>2 DEF AtMenu
<1>4. pc \notin {"clean_tree", "usage", "version", "init", "discover_scenarios", "topology_coverage",
                 "discover", "scope_match", "doctor_deep", "test_det", "test_det_strict",
                 "run_record_trace"}
  BY DEF ToSet, TraceNames
<1>5. CASE Full
  <2>1. Menu = FullMenu /\ Len(FullMenu) = 37
    BY <1>5, FullMenuIs DEF Menu
  <2> DEFINE Early == {"clean_tree", "usage", "version", "init", "discover_scenarios",
                        "topology_coverage", "doctor_deep", "test_det", "run_record_trace"}
  <2>5. /\ FullMenu[1] \in Early /\ FullMenu[2] \in Early /\ FullMenu[3] \in Early
        /\ FullMenu[4] \in Early /\ FullMenu[5] \in Early /\ FullMenu[6] \in Early
        /\ FullMenu[7] \in Early /\ FullMenu[8] \in Early /\ FullMenu[9] \in Early
    BY FullMenuIs
  <2>6. pc \notin Early
    BY <1>4
  <2> HIDE DEF Early
  <2>7. i \notin {1, 2, 3, 4, 5, 6, 7, 8, 9} /\ i \in 1..37
    BY <1>3, <2>1, <2>5, <2>6
  <2>2. i \in 2..37 /\ 9 \in 1..(i - 1)
    BY <2>7
  <2>3. Done(Menu[9])
    BY <1>2, <2>1, <2>2, EarlierDone DEF Unfailed
  <2>4. Menu[9] = "run_record_trace"
    BY <2>1, FullMenuIs
  <2> QED BY <1>1, <2>3, <2>4, GreenFacts
<1>6. CASE ~Full
  <2>1. Menu = GateMenu /\ Len(GateMenu) = 12
    BY <1>6, GateMenuIs DEF Menu
  <2>2. i \in 2..12 /\ 6 \in 1..(i - 1)
    BY <1>3, <1>4, <2>1, GateMenuIs
  <2>3. Done(Menu[6])
    BY <1>2, <2>1, <2>2, EarlierDone DEF Unfailed
  <2>4. Menu[6] = "run_record_trace"
    BY <2>1, GateMenuIs
  <2> QED BY <1>1, <2>3, <2>4, GreenFacts
<1> QED BY <1>5, <1>6

LEMMA OnlyFull ==
  ASSUME WorkflowInv, pc \in MenuNames \ GateNames
  PROVE  Full /\ ~Gate
<1>1. PICK i \in 1..Len(Menu) : pc = Menu[i]
  BY OnMenu DEF AtMenu
<1>2. ASSUME ~Full PROVE FALSE
  <2>1. Menu = GateMenu /\ GateMenu \in Seq(GateNames)
    BY <1>2, GateMenuIs DEF Menu
  <2>2. pc \in GateNames
    BY <1>1, <2>1, ElementOfSeq
  <2> QED BY <2>2
<1> QED BY <1>2 DEF Full, Gate

LEMMA OnlyGate ==
  ASSUME WorkflowInv, pc \in {"discover", "scope_match", "test_det_strict"}
  PROVE  Gate /\ ~Full
<1>1. pc \in MenuNames /\ pc \notin FullNames
  BY DEF MenuNames, FullNames
<1>2. PICK i \in 1..Len(Menu) : pc = Menu[i]
  BY <1>1, OnMenu DEF AtMenu
<1>3. ASSUME Full PROVE FALSE
  <2>1. Menu = FullMenu /\ FullMenu \in Seq(FullNames)
    BY <1>3, FullMenuIs DEF Menu
  <2>2. pc \in FullNames
    BY <1>2, <2>1, ElementOfSeq
  <2> QED BY <2>2, <1>1
<1>4. setup.command \in {"full", "gate", "ci"} /\ setup.command # "ci"
  BY <1>1, OnMenu, SetupsAssumption DEF WorkflowInv
<1> QED BY <1>3, <1>4 DEF Full, Gate

LEMMA FilesFound ==
  ASSUME WorkflowInv
  PROVE  /\ Primary # None => \E i \in DOMAIN setup.files : Primary = setup.files[i]
         /\ Scoped(Files("steps")) # {} <=> Primary # None
<1> DEFINE S == Scoped(Files("steps"))
           I == {i \in S : setup.files[i].preferred}
<1>1. /\ DOMAIN setup.files = 1..Len(setup.files)
      /\ \A i \in DOMAIN setup.files : setup.files[i] # None
  BY SetupsAssumption DEF WorkflowInv
<1>2. S \subseteq DOMAIN setup.files /\ I \subseteq S
  BY DEF Scoped, Files
<1>3. \A T \in SUBSET DOMAIN setup.files : T # {} => Min(T) \in T
  <2> SUFFICES ASSUME NEW T \in SUBSET DOMAIN setup.files, T # {} PROVE Min(T) \in T
    OBVIOUS
  <2>1. T \subseteq Nat
    BY <1>1
  <2> QED BY <2>1, MinIsLeast
<1> HIDE DEF S, I
<1>4. Primary = IF I = {} THEN (IF S = {} THEN None ELSE setup.files[Min(S)]) ELSE setup.files[Min(I)]
  BY DEF Primary, Preferred, FirstOr, S, I
<1>5. CASE I # {}
  <2>1. Min(I) \in DOMAIN setup.files /\ Primary = setup.files[Min(I)] /\ S # {}
    BY <1>2, <1>3, <1>4, <1>5
  <2> QED BY <2>1, <1>1 DEF S
<1>6. CASE I = {} /\ S # {}
  <2>1. Min(S) \in DOMAIN setup.files /\ Primary = setup.files[Min(S)]
    BY <1>2, <1>3, <1>4, <1>6
  <2> QED BY <2>1, <1>1, <1>6 DEF S
<1>7. CASE I = {} /\ S = {}
  BY <1>4, <1>7 DEF S
<1> QED BY <1>5, <1>6, <1>7

LEMMA PrimaryIs ==
  ASSUME WorkflowInv, Primary # None
  PROVE  /\ MemoryOf(setup, Primary) # None /\ MemoryOf(setup, Primary).summary # None
         /\ Primary.name # "other" /\ Primary.peak \in Nat
         /\ Primary.titles \in Seq(STRING \ {"other"})
<1>1. PICK i \in DOMAIN setup.files : Primary = setup.files[i]
  BY FilesFound
<1> QED BY <1>1, SetupsAssumption DEF WorkflowInv

-----------------------------------------------------------------------------
(* What is wrong with a summary of a run that should have passed is seen.  *)

RunModes == {"Test", "Run", "Replay", "Fuzz", "Explore"}

LEMMA BadSummaryRejected ==
  ASSUME NEW mode \in RunModes, NEW warned, NEW host,
         NEW b \in BadSummaries(Summary("pass", mode, warned, host))
  PROVE  ~(b.status = "pass" /\ b.run_id # "" /\ b.seed = "expected" /\ b.mode = mode)
<1> DEFINE s == Summary("pass", mode, warned, host)
<1>1. s.status = "pass" /\ mode # "Other"
      /\ DOMAIN s = {"status", "mode", "run_id", "seed", "warned", "report", "manifest", "trace"}
  BY DEF Summary, Trace, RunModes
<1> HIDE DEF s
<1>2. CASE b = [s EXCEPT !.run_id = ""]
  BY <1>1, <1>2
<1>3. CASE b = [s EXCEPT !.seed = "other"]
  BY <1>1, <1>3
<1>4. CASE b = [s EXCEPT !.mode = "Other"]
  BY <1>1, <1>4
<1>5. CASE b = [s EXCEPT !.status = Flipped(@)]
  <2>1. b.status = Flipped(s.status)
    BY <1>1, <1>5
  <2> QED BY <1>1, <2>1 DEF Flipped
<1> QED BY <1>2, <1>3, <1>4, <1>5 DEF BadSummaries, s

LEMMA AstrayRejected ==
  ASSUME NEW mode \in RunModes, NEW warned, NEW host,
         NEW b \in Astray(Summary("pass", mode, warned, host))
  PROVE  RunSummaryPassStatus(b, Strict, mode) = "failed"
<1> DEFINE s == Summary("pass", mode, warned, host)
<1>1. DOMAIN s = {"status", "mode", "run_id", "seed", "warned", "report", "manifest", "trace"}
  BY DEF Summary, Trace
<1>2. CASE b \in BadSummaries(s)
  BY <1>2, BadSummaryRejected DEF RunSummaryPassStatus, PassedIf, Identified
<1> HIDE DEF s
<1>3. CASE b = [s EXCEPT !.report = "other"] \/ b = [s EXCEPT !.manifest = "missing"]
  <2>1. b.report = "other" \/ b.manifest = "missing"
    BY <1>1, <1>3
  <2> QED BY <2>1 DEF RunSummaryPassStatus, PassedIf, SummaryArtifactIdentity
<1> QED BY <1>2, <1>3 DEF Astray, s

LEMMA BadTraceRejected ==
  ASSUME NEW status, NEW mode, NEW warned, NEW host,
         NEW b \in BadTraces(Summary(status, mode, warned, host))
  PROVE  ~TraceEvidence(b)
<1> DEFINE s == Summary(status, mode, warned, host)
<1>1. /\ DOMAIN s = {"status", "mode", "run_id", "seed", "warned", "report", "manifest", "trace"}
      /\ s.trace = [file |-> "full", content |-> "same", reported |-> TRUE, host |-> host]
  BY DEF Summary, Trace
<1> HIDE DEF s
<1>2. CASE \E f \in {"missing", "dir", "empty"} : b = [s EXCEPT !.trace.file = f]
  <2>1. PICK f \in {"missing", "dir", "empty"} : b = [s EXCEPT !.trace.file = f]
    BY <1>2
  <2>2. b.trace = [s.trace EXCEPT !.file = f]
    BY <1>1, <2>1
  <2>3. b.trace.file # "full"
    BY <1>1, <2>1, <2>2
  <2> QED BY <2>3 DEF TraceEvidence, FileArtifactStatus, PassedIf
<1>3. CASE b = [s EXCEPT !.trace.content = "other"]
  <2>1. b.trace = [s.trace EXCEPT !.content = "other"]
    BY <1>1, <1>3
  <2>2. b.trace.content # "same"
    BY <1>1, <2>1
  <2> QED BY <2>2 DEF TraceEvidence, TraceSummaryIdentity
<1>4. CASE b = [s EXCEPT !.trace.reported = FALSE]
  <2>1. b.trace = [s.trace EXCEPT !.reported = FALSE]
    BY <1>1, <1>4
  <2>2. ~b.trace.reported
    BY <1>1, <2>1
  <2> QED BY <2>2 DEF TraceEvidence
<1> QED BY <1>2, <1>3, <1>4 DEF BadTraces, s

(* The verdict on a run is the scenario's outcome, or the answer is wrong. *)
LEMMA RunNoticed ==
  ASSUME NEW mode \in RunModes, NEW status, NEW warned, NEW host,
         NEW bad, NEW answer \in Answers(Summary(status, mode, warned, host), bad), answer.ok,
         NEW name \in RanScenario, Outcome(name) = status, NEW verdict,
         verdict # "failed" => answer.value.status = "pass",
         status = "pass" => \A b \in bad : answer.value = b => verdict = "failed"
  PROVE  Noticed(name, answer.fault, verdict)
<1> DEFINE s == Summary(status, mode, warned, host)
<1>1. s.status = status
  BY DEF Summary, Trace
<1> HIDE DEF s
<1>2. /\ answer.fault \in BOOLEAN
      /\ ~answer.fault => answer.value = s
      /\ answer.fault => answer.value \in bad
  BY AnswersAre DEF s
<1>3. verdict # "failed" /\ answer.fault => status # "pass"
  BY <1>2
<1>4. verdict # "failed" /\ ~answer.fault => status = "pass"
  BY <1>1, <1>2
<1> QED BY <1>2, <1>3, <1>4 DEF Noticed

LEMMA PassNeedsPass ==
  ASSUME NEW s, NEW mode
  PROVE  /\ RunSummaryPassStatus(s, Strict, mode) \in Statuses
         /\ RunSummaryPassStatus(s, Strict, mode) # "failed" => s.status = "pass"
         /\ ReplaySummaryStatus("pass", s, Strict, mode) \in Statuses
         /\ ReplaySummaryStatus("pass", s, Strict, mode) # "failed" =>
              s.status = "pass" /\ RunSummaryPassStatus(s, Strict, mode) # "failed"
<1>1. SameClass("pass", s.status) <=> s.status = "pass"
  BY DEF SameClass
<1> QED BY <1>1 DEF RunSummaryPassStatus, ReplaySummaryStatus, PassedIf, Statuses

LEMMA InFullMenu ==
  ASSUME NEW n \in FullNames
  PROVE  n \in ToSet(FullMenu)
<1>1. \A i \in 1..37 : FullMenu[i] \in ToSet(FullMenu)
  <2>1. DOMAIN FullMenu = 1..37
    BY FullMenuIs, LenProperties
  <2> QED BY <2>1 DEF ToSet
<1>2. ASSUME n \in {"clean_tree", "usage", "version", "init", "discover_scenarios",
             "topology_coverage", "doctor_deep", "test_det", "run_record_trace"}
      PROVE  n \in ToSet(FullMenu)
  <2>1. FullMenu[1] = "clean_tree" /\ FullMenu[2] = "usage" /\ FullMenu[3] = "version" /\
        FullMenu[4] = "init" /\ FullMenu[5] = "discover_scenarios" /\
        FullMenu[6] = "topology_coverage" /\ FullMenu[7] = "doctor_deep" /\
        FullMenu[8] = "test_det" /\ FullMenu[9] = "run_record_trace"
    BY FullMenuIs
  <2>2. 1..9 \subseteq 1..37
    OBVIOUS
  <2> QED BY <1>1, <1>2, <2>1, <2>2
<1>3. ASSUME n \in {"trace_verify", "replay", "ci", "shrink", "replay_shrunk", "artifacts_ls",
             "artifacts_export", "artifacts_pack", "artifacts_diff"}
      PROVE  n \in ToSet(FullMenu)
  <2>1. FullMenu[10] = "trace_verify" /\ FullMenu[11] = "replay" /\ FullMenu[12] = "ci" /\
        FullMenu[13] = "shrink" /\ FullMenu[14] = "replay_shrunk" /\
        FullMenu[15] = "artifacts_ls" /\ FullMenu[16] = "artifacts_export" /\
        FullMenu[17] = "artifacts_pack" /\ FullMenu[18] = "artifacts_diff"
    BY FullMenuIs
  <2>2. 10..18 \subseteq 1..37
    OBVIOUS
  <2> QED BY <1>1, <1>3, <2>1, <2>2
<1>4. ASSUME n \in {"report_show", "report_query", "report_query_paths", "report_flaky", "memory_top",
             "memory_graph", "memory_diff", "profile_top", "profile_diff"}
      PROVE  n \in ToSet(FullMenu)
  <2>1. FullMenu[19] = "report_show" /\ FullMenu[20] = "report_query" /\
        FullMenu[21] = "report_query_paths" /\ FullMenu[22] = "report_flaky" /\
        FullMenu[23] = "memory_top" /\ FullMenu[24] = "memory_graph" /\
        FullMenu[25] = "memory_diff" /\ FullMenu[26] = "profile_top" /\
        FullMenu[27] = "profile_diff"
    BY FullMenuIs
  <2>2. 19..27 \subseteq 1..37
    OBVIOUS
  <2> QED BY <1>1, <1>4, <2>1, <2>2
<1>5. ASSUME n \in {"profile_explain", "fuzz", "explore", "corpus_add", "corpus_list",
             "corpus_minimize", "corpus_export", "corpus_import", "host_backends_run", "env"}
      PROVE  n \in ToSet(FullMenu)
  <2>1. FullMenu[28] = "profile_explain" /\ FullMenu[29] = "fuzz" /\ FullMenu[30] = "explore" /\
        FullMenu[31] = "corpus_add" /\ FullMenu[32] = "corpus_list" /\
        FullMenu[33] = "corpus_minimize" /\ FullMenu[34] = "corpus_export" /\
        FullMenu[35] = "corpus_import" /\ FullMenu[36] = "host_backends_run" /\
        FullMenu[37] = "env"
    BY FullMenuIs
  <2>2. 28..37 \subseteq 1..37
    OBVIOUS
  <2> QED BY <1>1, <1>5, <2>1, <2>2
<1> QED BY <1>2, <1>3, <1>4, <1>5 DEF FullNames, MenuNames

LEMMA TestDetKeeps ==
  ASSUME WorkflowInv, TestDet
  PROVE  WorkflowInv'
<1> DEFINE status == IF \A f \in TestTargets : f.status = "pass" THEN "pass" ELSE "fail"
           warned == \E f \in TestTargets : f.warned
           good == Summary(status, "Test", warned, FALSE)
           bad == Astray(good)
<1>1. \/ Waited("test_det")
      \/ \E answer \in Answers(good, bad) :
           Reached("test_det", answer, Tested(answer.value), run)
  BY DEF TestDet, Supervised, Reached, Waited, Stays, TestRun
<1>2. "test_det" \in FullNames \ GateNames /\ pc = "test_det"
  BY <1>1 DEF FullNames, MenuNames, GateNames, Waited, Reached, AtStep
<1>3. "test_det" \in RanScenario /\ Outcome("test_det") = status
  <2>1. ~Gate
    BY <1>2, OnlyFull DEF FullNames
  <2>2. Outcome("test_det") = status
    BY DEF Outcome, TestRun, Summary
  <2> QED BY <2>1, <2>2 DEF RanScenario
<1> HIDE DEF status, warned
<1>4. CASE Waited("test_det")
  BY <1>2, <1>4, InFullMenu, WaitedKeepsInv DEF FullNames
<1>5. ASSUME NEW answer \in Answers(good, bad),
             Reached("test_det", answer, Tested(answer.value), run)
      PROVE  WorkflowInv'
  <2>1. Tested(answer.value) \in Statuses
        /\ (Tested(answer.value) # "failed" => answer.value.status = "pass")
    BY PassNeedsPass DEF Tested
  <2>2. status = "pass" => \A b \in bad : answer.value = b => Tested(answer.value) = "failed"
    BY AstrayRejected DEF Tested, RunModes
  <2>3. answer.ok => Noticed("test_det", answer.fault, Tested(answer.value))
    BY <1>3, <2>1, <2>2, RunNoticed DEF RunModes
  <2> HIDE DEF good, bad
  <2> QED BY <1>2, <1>5, <2>1, <2>3, ReachedKeepsInv DEF FullNames
<1> QED BY <1>1, <1>4, <1>5

LEMMA TestDetStrictKeeps ==
  ASSUME WorkflowInv, TestDetStrict
  PROVE  WorkflowInv'
<1> DEFINE status == IF \A f \in TestTargets : f.status = "pass" THEN "pass" ELSE "fail"
           warned == \E f \in TestTargets : f.warned
           good == Summary(status, "Test", warned, FALSE)
           bad == Astray(good)
<1>1. PICK answer \in Answers(good, bad) :
        Answered("test_det_strict", answer, Tested(answer.value))
  BY DEF TestDetStrict, Direct, Answered, TestRun
<1>2. "test_det_strict" \in RanScenario /\ Outcome("test_det_strict") = status
  <2>1. Gate
    BY <1>1, OnlyGate DEF Answered, AtStep
  <2>2. Outcome("test_det_strict") = status
    BY DEF Outcome, TestRun, Summary
  <2> QED BY <2>1, <2>2 DEF RanScenario
<1> HIDE DEF status, warned
<1>3. Tested(answer.value) \in Statuses
      /\ (Tested(answer.value) # "failed" => answer.value.status = "pass")
  BY PassNeedsPass DEF Tested
<1>4. status = "pass" => \A b \in bad : answer.value = b => Tested(answer.value) = "failed"
  BY AstrayRejected DEF Tested, RunModes
<1>5. answer.ok => Noticed("test_det_strict", answer.fault, Tested(answer.value))
  BY <1>2, <1>3, <1>4, RunNoticed DEF RunModes
<1> HIDE DEF good, bad
<1> QED BY <1>1, <1>3, <1>5, AnsweredKeepsInv DEF MenuNames

LEMMA RecordedIs ==
  ASSUME NEW s
  PROVE  /\ Recorded(s) \in Statuses
         /\ Recorded(s) # "failed" =>
              RunSummaryPassStatus(s, Strict, "Run") # "failed" /\ TraceEvidence(s)
<1>1. Recorded(s) =
        PassedIf(RunSummaryPassStatus(s, Strict, "Run") = "passed" /\ TraceEvidence(s))
  BY DEF Recorded, RecordedTraceStatus
<1> QED BY <1>1 DEF PassedIf, Statuses

LEMMA BadRecordRejected ==
  ASSUME NEW warned, NEW host,
         NEW b \in Astray(Summary("pass", "Run", warned, host))
                   \cup BadTraces(Summary("pass", "Run", warned, host))
  PROVE  Recorded(b) = "failed"
<1>1. CASE b \in Astray(Summary("pass", "Run", warned, host))
  BY <1>1, AstrayRejected, RecordedIs DEF RunModes
<1>2. CASE b \in BadTraces(Summary("pass", "Run", warned, host))
  BY <1>2, BadTraceRejected, RecordedIs
<1> QED BY <1>1, <1>2

LEMMA RunRecordTraceKeeps ==
  ASSUME WorkflowInv, RunRecordTrace
  PROVE  WorkflowInv'
<1> DEFINE status == Primary.status
           warned == Primary.warned
           good == Summary(status, "Run", warned, FALSE)
           bad == Astray(good) \cup BadTraces(good)
<1>1. \/ Waited("run_record_trace")
      \/ \E answer \in Answers(good, bad) :
           Reached("run_record_trace", answer, Recorded(answer.value), KeepTrace(answer.value))
  BY DEF RunRecordTrace, Supervised, Reached, Waited, PrimaryRun
<1>2. "run_record_trace" \in RanScenario /\ Outcome("run_record_trace") = status
  BY DEF RanScenario, Outcome
<1>3. "run_record_trace" \in MenuNames \ {"clean_tree"} /\ "run_record_trace" \in FullNames
  BY DEF MenuNames, FullNames
<1> HIDE DEF status, warned
<1>4. CASE Waited("run_record_trace")
  BY <1>3, <1>4, InFullMenu, WaitedKeepsInv
<1>5. ASSUME NEW answer \in Answers(good, bad),
             Reached("run_record_trace", answer, Recorded(answer.value), KeepTrace(answer.value))
      PROVE  WorkflowInv'
  <2>1. /\ Recorded(answer.value) \in Statuses
        /\ Recorded(answer.value) # "failed" =>
             answer.value.status = "pass" /\ TraceEvidence(answer.value)
    BY RecordedIs, PassNeedsPass
  <2>2. status = "pass" => \A b \in bad : answer.value = b => Recorded(answer.value) = "failed"
    BY BadRecordRejected
  <2>3. answer.ok => Noticed("run_record_trace", answer.fault, Recorded(answer.value))
    BY <1>2, <2>1, <2>2, RunNoticed DEF RunModes
  <2> DEFINE kept == KeepTrace(answer.value)
  <2>4. /\ DOMAIN kept = DOMAIN run /\ kept.cwd = run.cwd
        /\ kept.status = answer.value.status
        /\ kept.trace = (answer.value.trace.reported
                         /\ FileArtifactStatus(answer.value.trace.file) = "passed")
        /\ kept.shrunk_status = run.shrunk_status /\ kept.replayed = run.replayed
    BY DEF KeepTrace, WorkflowInv, RunInv
  <2>5. TraceEvidence(answer.value) => kept.trace
    BY <2>4 DEF TraceEvidence
  <2> HIDE DEF good, bad, kept
  <2>6. Reached("run_record_trace", answer, Recorded(answer.value), kept)
    BY <1>5 DEF kept
  <2> QED BY <1>3, <2>1, <2>3, <2>4, <2>5, <2>6, ReachedKeepsInv
<1> QED BY <1>1, <1>4, <1>5

LEMMA ReplayKeeps ==
  ASSUME WorkflowInv, Replay
  PROVE  WorkflowInv'
<1> DEFINE status == Primary.status
           warned == Primary.warned
           good == Summary(status, "Replay", warned, FALSE)
           bad == Astray(good)
<1>1. /\ ~Gate /\ AtStep("replay")
      /\ \/ Waited("replay")
         \/ \E answer \in Answers(good, bad) :
              Reached("replay", answer, Replayed(answer.value), run)
  BY DEF Replay, Supervised, Reached, Waited, PrimaryRun, Stays, Full, Gate
<1>2. "replay" \in RanScenario /\ Outcome("replay") = status
  BY DEF RanScenario, Outcome
<1>3. "replay" \in MenuNames \ {"clean_tree"} /\ "replay" \in FullNames
      /\ "replay" \in ToSet(TraceNames)
  BY DEF MenuNames, FullNames, TraceNames, ToSet
<1> HIDE DEF status, warned
<1>4. CASE Waited("replay")
  BY <1>3, <1>4, InFullMenu, WaitedKeepsInv
<1>5. ASSUME NEW answer \in Answers(good, bad),
             Reached("replay", answer, Replayed(answer.value), run)
      PROVE  WorkflowInv'
  <2>1. Replayed(answer.value) \in Statuses
    BY DEF Replayed, ReplaySummaryStatus, PassedIf, Statuses
  <2>2. ASSUME ~AnyFailed(steps), answer.ok
        PROVE  Noticed("replay", answer.fault, Replayed(answer.value))
    <3>1. run.status = "pass"
      BY <1>1, <1>3, <2>2, TraceBefore DEF Unfailed, AtStep
    <3>2. Replayed(answer.value) # "failed" =>
            answer.value.status = "pass"
            /\ RunSummaryPassStatus(answer.value, Strict, "Replay") # "failed"
      BY <3>1, PassNeedsPass DEF Replayed
    <3>3. status = "pass" => \A b \in bad : answer.value = b => Replayed(answer.value) = "failed"
      BY <3>2, AstrayRejected DEF RunModes
    <3> QED BY <1>2, <2>2, <3>2, <3>3, RunNoticed DEF RunModes
  <2> HIDE DEF good, bad
  <2> QED BY <1>1, <1>3, <1>5, <2>1, <2>2, ReachedKeepsInv
<1> QED BY <1>1, <1>4, <1>5

LEMMA ShrinkKeeps ==
  ASSUME WorkflowInv, Shrink
  PROVE  WorkflowInv'
<1> DEFINE status == Primary.status
           warned == Primary.warned
           good == Summary(status, "Replay", warned, FALSE)
           bad == BadSummaries(good) \cup BadTraces(good)
<1>1. /\ AtStep("shrink")
      /\ \/ Waited("shrink")
         \/ \E answer \in Answers(good, bad) :
              Reached("shrink", answer, Shrunk(answer.value), KeepShrunk(answer.value))
  <2>1. ASSUME NEW answer
        PROVE  DOMAIN [run EXCEPT !.classification = "tooling_failure"] = DOMAIN run
    OBVIOUS
  <2> QED BY <2>1 DEF Shrink, Supervised, Reached, Waited, PrimaryRun
<1>2. "shrink" \in RanScenario /\ Outcome("shrink") = status
  <2>1. ~Gate
    BY <1>1, OnlyFull DEF AtStep, MenuNames, GateNames
  <2> QED BY <2>1 DEF RanScenario, Outcome
<1>3. "shrink" \in MenuNames \ {"clean_tree"} /\ "shrink" \in FullNames
      /\ "shrink" \in ToSet(TraceNames)
  BY DEF MenuNames, FullNames, TraceNames, ToSet
<1> HIDE DEF status, warned
<1>4. CASE Waited("shrink")
  BY <1>3, <1>4, InFullMenu, WaitedKeepsInv
<1>5. ASSUME NEW answer \in Answers(good, bad),
             Reached("shrink", answer, Shrunk(answer.value), KeepShrunk(answer.value))
      PROVE  WorkflowInv'
  <2>1. Shrunk(answer.value) \in Statuses
    BY DEF Shrunk, ShrinkStepStatus, PassedIf, Statuses
  <2>2. ASSUME ~AnyFailed(steps), Shrunk(answer.value) # "failed"
        PROVE  /\ answer.value.status = "pass" /\ Identified(answer.value, Strict, "Replay")
               /\ TraceEvidence(answer.value)
    <3>1. run.status = "pass"
      BY <1>1, <1>3, <2>2, TraceBefore DEF Unfailed, AtStep
    <3>2. ShrinkAccepts(run.status, answer.value, setup.allow)
          /\ Identified(answer.value, Strict, "Replay") /\ TraceEvidence(answer.value)
      BY <2>2 DEF Shrunk, ShrinkStepStatus, PassedIf
    <3> QED BY <3>1, <3>2 DEF ShrinkAccepts, SameClass
  <2>3. ASSUME ~AnyFailed(steps), answer.ok
        PROVE  Noticed("shrink", answer.fault, Shrunk(answer.value))
    <3>1. ASSUME status = "pass", answer.value \in bad PROVE Shrunk(answer.value) = "failed"
      <4>1. CASE answer.value \in BadSummaries(good)
        <5>1. ~(answer.value.status = "pass" /\ answer.value.run_id # ""
                /\ answer.value.seed = "expected" /\ answer.value.mode = "Replay")
          BY <3>1, <4>1, BadSummaryRejected DEF RunModes
        <5> QED BY <2>2, <2>3, <5>1 DEF Identified
      <4>2. CASE answer.value \in BadTraces(good)
        BY <2>2, <2>3, <4>2, BadTraceRejected
      <4> QED BY <3>1, <4>1, <4>2
    <3>2. Shrunk(answer.value) # "failed" => answer.value.status = "pass"
      BY <2>2, <2>3
    <3>3. status = "pass" => \A b \in bad : answer.value = b => Shrunk(answer.value) = "failed"
      BY <3>1
    <3> QED BY <1>2, <2>3, <3>2, <3>3, RunNoticed DEF RunModes
  <2> DEFINE kept == KeepShrunk(answer.value)
  <2>4. /\ DOMAIN kept = DOMAIN run /\ kept.cwd = run.cwd
        /\ kept.status = run.status /\ kept.trace = run.trace
        /\ kept.shrunk_status = answer.value.status /\ kept.replayed = run.replayed
    BY DEF KeepShrunk, WorkflowInv, RunInv
  <2> HIDE DEF good, bad, kept
  <2>5. Reached("shrink", answer, Shrunk(answer.value), kept)
    BY <1>5 DEF kept
  <2> QED BY <1>3, <2>1, <2>2, <2>3, <2>4, <2>5, ReachedKeepsInv
<1> QED BY <1>1, <1>4, <1>5

LEMMA ShrunkBefore ==
  ASSUME Unfailed, pc = "replay_shrunk"
  PROVE  run.shrunk_status = "pass"
<1>1. pc \in MenuNames \ GateNames
  BY DEF MenuNames, GateNames
<1>2. Menu = FullMenu
  BY <1>1, OnlyFull DEF Unfailed, Menu
<1>3. Len(Menu) = 37 /\ Menu[14] = "replay_shrunk" /\ Menu[13] = "shrink"
  BY <1>2, FullMenuIs
<1>4. AtMenu(14)
  BY <1>1, <1>3, PlaceOf DEF Unfailed
<1>5. Done(Menu[13])
  BY <1>3, <1>4, EarlierDone DEF Unfailed
<1> QED BY <1>1, <1>3, <1>5, GreenFacts

LEMMA PassingRun ==
  [PrimaryRun("Replay") EXCEPT !.status = "pass"]
    = Summary("pass", "Replay", Primary.warned, FALSE)
<1> DEFINE status == Primary.status
           warned == Primary.warned
           host == FALSE
<1>1. PrimaryRun("Replay") = Summary(status, "Replay", warned, host)
  BY DEF PrimaryRun
<1> HIDE DEF status, warned, host
<1>2. [Summary(status, "Replay", warned, host) EXCEPT !.status = "pass"]
        = Summary("pass", "Replay", warned, host)
  BY DEF Summary
<1> QED BY <1>1, <1>2, Zenon DEF warned, host

LEMMA ReplayShrunkKeeps ==
  ASSUME WorkflowInv, ReplayShrunk
  PROVE  WorkflowInv'
<1> DEFINE good == [PrimaryRun("Replay") EXCEPT !.status = run.shrunk_status]
           bad == Astray(good)
           verdict(v) == ReplaySummaryStatus(run.shrunk_status, v, Strict, "Replay")
<1>1. /\ AtStep("replay_shrunk")
      /\ \/ Waited("replay_shrunk")
         \/ \E answer \in Answers(good, bad) :
              Reached("replay_shrunk", answer, verdict(answer.value), run)
  BY DEF ReplayShrunk, Supervised, Reached, Waited, Stays
<1>2. "replay_shrunk" \notin RanScenario
  BY DEF RanScenario
<1>3. "replay_shrunk" \in MenuNames \ {"clean_tree"} /\ "replay_shrunk" \in FullNames
  BY DEF MenuNames, FullNames
<1>6. ASSUME run.shrunk_status = "pass"
      PROVE  good = Summary("pass", "Replay", Primary.warned, FALSE)
  <2>1. [PrimaryRun("Replay") EXCEPT !.status = "pass"] = Summary("pass", "Replay", Primary.warned, FALSE)
    BY PassingRun
  <2> QED BY <1>6, <2>1, Zenon
<1>4. CASE Waited("replay_shrunk")
  BY <1>3, <1>4, InFullMenu, WaitedKeepsInv
<1>5. ASSUME NEW answer \in Answers(good, bad),
             Reached("replay_shrunk", answer, verdict(answer.value), run)
      PROVE  WorkflowInv'
  <2>1. verdict(answer.value) \in Statuses
    BY DEF ReplaySummaryStatus, PassedIf, Statuses
  <2>2. ASSUME ~AnyFailed(steps), answer.ok
        PROVE  Noticed("replay_shrunk", answer.fault, verdict(answer.value))
    <3>1. run.shrunk_status = "pass"
      BY <1>1, <2>2, ShrunkBefore DEF Unfailed, AtStep
    <3>2. good = Summary("pass", "Replay", Primary.warned, FALSE)
      BY <1>6, <3>1
    <3> HIDE DEF good
    <3>3. ASSUME answer.value \in bad PROVE verdict(answer.value) = "failed"
      <4>1. answer.value \in Astray(Summary("pass", "Replay", Primary.warned, FALSE))
        BY <3>2, <3>3
      <4>2. RunSummaryPassStatus(answer.value, Strict, "Replay") = "failed"
        BY <4>1, AstrayRejected DEF RunModes
      <4> QED BY <3>1, <4>2, PassNeedsPass
    <3> QED BY <1>2, <2>2, <3>3, AnswersAre DEF Noticed
  <2> HIDE DEF good, bad, verdict
  <2> QED BY <1>1, <1>3, <1>5, <2>1, <2>2, ReachedKeepsInv
<1> QED BY <1>1, <1>4, <1>5

-----------------------------------------------------------------------------
(* A step that is skipped.                                                 *)

LEMMA FullAfter ==
  ASSUME Full
  PROVE  /\ After("topology_coverage") = "doctor_deep" /\ After("fuzz") = "explore"
         /\ After("explore") = "corpus_add" /\ After("host_backends_run") = "env"
         /\ After("env") = "finish"
<1>1. Menu = FullMenu /\ Len(Menu) = 37
  BY FullMenuIs DEF Menu
<1>2. /\ Menu[6] = "topology_coverage" /\ Menu[7] = "doctor_deep" /\ Menu[29] = "fuzz"
      /\ Menu[30] = "explore" /\ Menu[31] = "corpus_add" /\ Menu[36] = "host_backends_run"
      /\ Menu[37] = "env"
  BY <1>1, FullMenuIs
<1>3. After(Menu[6]) = Menu[7] /\ After(Menu[29]) = Menu[30] /\ After(Menu[30]) = Menu[31]
  BY <1>1, AfterIs
<1>4. After(Menu[36]) = Menu[37] /\ After(Menu[37]) = "finish"
  BY <1>1, AfterIs
<1> QED BY <1>2, <1>3, <1>4

LEMMA GateAfter ==
  ASSUME ~Full
  PROVE  /\ After("clean_tree") = "discover" /\ After("discover") = "scope_match"
         /\ After("scope_match") = "doctor_deep" /\ After("profile_diff") = "profile_explain"
<1>1. Menu = GateMenu /\ Len(Menu) = 12
  BY GateMenuIs DEF Menu
<1>2. /\ Menu[1] = "clean_tree" /\ Menu[2] = "discover" /\ Menu[3] = "scope_match"
      /\ Menu[4] = "doctor_deep" /\ Menu[11] = "profile_diff" /\ Menu[12] = "profile_explain"
  BY <1>1, GateMenuIs
<1>3. After(Menu[1]) = Menu[2] /\ After(Menu[2]) = Menu[3] /\ After(Menu[3]) = Menu[4]
  BY <1>1, AfterIs
<1>4. After(Menu[11]) = Menu[12]
  BY <1>1, AfterIs
<1> QED BY <1>2, <1>3, <1>4

LEMMA SkipOne ==
  ASSUME WorkflowInv, NEW name \in StepNames
  PROVE  SkipAll(<<name>>) = Push(name, "skipped")
<1> DEFINE entries == [i \in DOMAIN <<name>> |-> [name |-> <<name>>[i], status |-> "skipped"]]
           entry == [name |-> name, status |-> "skipped"]
<1>1. entries = <<entry>>
  OBVIOUS
<1>2. steps \in Seq(StepRecords) /\ entry \in StepRecords
  BY DEF WorkflowInv, StepRecords, Statuses
<1> HIDE DEF entries, entry
<1>3. steps \o <<entry>> = Append(steps, entry)
  BY <1>2, AppendIsConcat
<1> QED BY <1>1, <1>3 DEF SkipAll, Push, entries, entry

LEMMA SkippedKeepsInv ==
  ASSUME WorkflowInv,
         NEW name \in MenuNames \ {"clean_tree", "run_record_trace", "shrink", "replay",
                                   "discover_scenarios", "scope_match"},
         AtStep(name), Skipped(<<name>>, After(name)),
         ~AnyFailed(steps) => name \notin RanScenario
  PROVE  WorkflowInv'
<1>1. steps' = Push(name, "skipped")
  BY SkipOne DEF Skipped, StepNames
<1>2. /\ pc = name /\ waiting = None /\ waiting' = None
      /\ setup' = setup /\ worker' = worker /\ exit' = exit /\ run' = run
      /\ temps' = temps /\ disk' = disk /\ faulty' = faulty /\ pc' = After(name)
  BY DEF Skipped, AtStep
<1>3. Pushes(name, "skipped", FALSE)
  BY <1>1, <1>2 DEF Pushes, Statuses
<1> QED BY <1>3, PushesKeepInv

LEMMA TraceGiven ==
  ASSUME NEW status, NEW mode, NEW warned, NEW host
  PROVE  [Summary(status, mode, warned, host) EXCEPT !.trace = Trace(host)]
           = Summary(status, mode, warned, host)
BY DEF Summary

LEMMA FuzzStepKeeps ==
  ASSUME WorkflowInv, FuzzStep
  PROVE  WorkflowInv'
<1> DEFINE status == Primary.status
           warned == Primary.warned
           good == Summary(status, "Fuzz", warned, FALSE)
           bad == Astray(good)
           verdict(v) == RunSummaryPassStatus(v, Strict, "Fuzz")
<1>1. AtStep("fuzz")
  BY DEF FuzzStep, Supervised
<1>2. "fuzz" \in MenuNames \ {"clean_tree"} /\ "fuzz" \in FullNames /\ "fuzz" \notin GateNames
      /\ "fuzz" \notin FirstNames
  BY DEF MenuNames, FullNames, GateNames, FirstNames
<1>3. Full /\ ~Gate
  BY <1>1, <1>2, OnlyFull DEF AtStep
<1>4. CASE Primary = None /\ Skipped(<<"fuzz">>, "explore")
  <2>1. AnyFailed(steps)
    BY <1>1, <1>2, <1>4, FoundBefore DEF Unfailed, AtStep
  <2>2. After("fuzz") = "explore"
    BY <1>3, FullAfter
  <2> QED BY <1>1, <1>2, <1>4, <2>1, <2>2, SkippedKeepsInv
<1>5. CASE /\ RegisterTemp("fuzz") /\ steps' = Push("fuzz", "failed")
           /\ faulty' = faulty \cup {"fuzz"} /\ pc' = "explore"
           /\ UNCHANGED <<setup, waiting, aborted, run, disk, worker, exit>>
  <2>1. temps \subseteq temps'
    BY <1>5, TempsGrow
  <2>2. After("fuzz") = "explore"
    BY <1>3, FullAfter
  <2>3. Pushes("fuzz", "failed", TRUE)
    BY <1>1, <1>2, <1>5, <2>1, <2>2 DEF Pushes, Statuses, AtStep
  <2> QED BY <2>3, PushesKeepInv
<1>6. CASE Waited("fuzz")
  BY <1>2, <1>6, InFullMenu, WaitedKeepsInv
<1>7. ASSUME NEW answer \in Answers(good, bad), Reached("fuzz", answer, verdict(answer.value), run)
      PROVE  WorkflowInv'
  <2>1. "fuzz" \in RanScenario /\ Outcome("fuzz") = status
    BY <1>3 DEF RanScenario, Outcome
  <2> HIDE DEF status, warned
  <2>2. verdict(answer.value) \in Statuses
        /\ (verdict(answer.value) # "failed" => answer.value.status = "pass")
    BY PassNeedsPass
  <2>3. status = "pass" => \A b \in bad : answer.value = b => verdict(answer.value) = "failed"
    BY AstrayRejected DEF RunModes
  <2>4. answer.ok => Noticed("fuzz", answer.fault, verdict(answer.value))
    BY <2>1, <2>2, <2>3, RunNoticed DEF RunModes
  <2> HIDE DEF good, bad, verdict
  <2> QED BY <1>2, <1>7, <2>2, <2>4, ReachedKeepsInv
<1>8. FuzzRun = good
  BY TraceGiven DEF FuzzRun, PrimaryRun
<1> HIDE DEF good, bad
<1>9. CASE Supervised("fuzz", FuzzRun, Astray(FuzzRun),
                      LAMBDA s : RunSummaryPassStatus(s, Strict, "Fuzz"), Stays)
  <2>1. \/ Waited("fuzz")
        \/ \E answer \in Answers(good, bad) : Reached("fuzz", answer, verdict(answer.value), run)
    BY <1>8, <1>9 DEF Supervised, Reached, Waited, Stays, bad
  <2> QED BY <1>6, <1>7, <2>1
<1> QED BY <1>4, <1>5, <1>9 DEF FuzzStep

LEMMA ExploreStepKeeps ==
  ASSUME WorkflowInv, ExploreStep
  PROVE  WorkflowInv'
<1> DEFINE status == Distributed.status
           warned == Distributed.warned
           good == Summary(status, "Explore", warned, FALSE)
           bad == Astray(good)
           verdict(v) == RunSummaryPassStatus(v, Strict, "Explore")
<1>1. AtStep("explore")
  BY DEF ExploreStep, Supervised
<1>2. "explore" \in MenuNames \ {"clean_tree"} /\ "explore" \in FullNames
      /\ "explore" \notin GateNames
  BY DEF MenuNames, FullNames, GateNames
<1>3. Full /\ ~Gate
  BY <1>1, <1>2, OnlyFull DEF AtStep
<1>4. CASE Distributed = None
  <2>1. Skipped(<<"explore">>, "corpus_add") /\ "explore" \notin RanScenario
    BY <1>4 DEF ExploreStep, RanScenario
  <2>2. After("explore") = "corpus_add"
    BY <1>3, FullAfter
  <2> QED BY <1>1, <1>2, <2>1, <2>2, SkippedKeepsInv
<1>5. CASE Distributed # None
  <2>1. "explore" \in RanScenario /\ Outcome("explore") = status
    BY <1>3, <1>5 DEF RanScenario, Outcome
  <2>2. \/ Waited("explore")
        \/ \E answer \in Answers(good, bad) :
             Reached("explore", answer, verdict(answer.value), run)
    BY <1>5 DEF ExploreStep, Supervised, Reached, Waited, Stays
  <2> HIDE DEF status, warned
  <2>3. CASE Waited("explore")
    BY <1>2, <2>3, InFullMenu, WaitedKeepsInv
  <2>4. ASSUME NEW answer \in Answers(good, bad),
               Reached("explore", answer, verdict(answer.value), run)
        PROVE  WorkflowInv'
    <3>1. verdict(answer.value) \in Statuses
          /\ (verdict(answer.value) # "failed" => answer.value.status = "pass")
      BY PassNeedsPass
    <3>2. status = "pass" => \A b \in bad : answer.value = b => verdict(answer.value) = "failed"
      BY AstrayRejected DEF RunModes
    <3>3. answer.ok => Noticed("explore", answer.fault, verdict(answer.value))
      BY <2>1, <3>1, <3>2, RunNoticed DEF RunModes
    <3> HIDE DEF good, bad, verdict
    <3> QED BY <1>2, <2>4, <3>1, <3>3, ReachedKeepsInv
  <2> QED BY <2>2, <2>3, <2>4
<1> QED BY <1>4, <1>5

LEMMA BadHostRejected ==
  ASSUME NEW warned, NEW good, good = Summary("pass", "Run", warned, TRUE),
         NEW b \in Astray(good) \cup {[good EXCEPT !.trace.host = FALSE],
                                      [good EXCEPT !.trace.file = "missing"]}
  PROVE  HostBackendsStatus(b, Strict) = "failed"
<1>1. CASE b \in Astray(good)
  <2>1. RunSummaryPassStatus(b, Strict, "Run") = "failed"
    BY <1>1, AstrayRejected DEF RunModes
  <2> QED BY <2>1 DEF HostBackendsStatus, PassedIf
<1>2. CASE b \in {[good EXCEPT !.trace.host = FALSE], [good EXCEPT !.trace.file = "missing"]}
  <2>1. /\ DOMAIN good = {"status", "mode", "run_id", "seed", "warned", "report", "manifest",
                          "trace"}
        /\ good.trace = [file |-> "full", content |-> "same", reported |-> TRUE, host |-> TRUE]
    BY DEF Summary, Trace
  <2>2. b.trace.host = FALSE \/ b.trace.file = "missing"
    <3>1. CASE b = [good EXCEPT !.trace.host = FALSE]
      <4>1. b.trace = [good.trace EXCEPT !.host = FALSE]
        BY <2>1, <3>1
      <4> QED BY <2>1, <4>1
    <3>2. CASE b = [good EXCEPT !.trace.file = "missing"]
      <4>1. b.trace = [good.trace EXCEPT !.file = "missing"]
        BY <2>1, <3>2
      <4> QED BY <2>1, <4>1
    <3> QED BY <1>2, <3>1, <3>2
  <2>3. HostBackedTraceStatus(b) = "failed"
    BY <2>2 DEF HostBackedTraceStatus, PassedIf
  <2> QED BY <2>3 DEF HostBackendsStatus, PassedIf
<1> QED BY <1>1, <1>2

LEMMA HostBackendsKeeps ==
  ASSUME WorkflowInv, HostBackends
  PROVE  WorkflowInv'
<1> DEFINE status == HostStep.status
           warned == HostStep.warned
           good == Summary(status, "Run", warned, TRUE)
           bad == Astray(good) \cup {[good EXCEPT !.trace.host = FALSE],
                                     [good EXCEPT !.trace.file = "missing"]}
           verdict(v) == HostBackendsStatus(v, Strict)
           name == "host_backends_run"
<1>1. AtStep(name)
  BY DEF HostBackends, Supervised
<1>2. name \in MenuNames \ {"clean_tree"} /\ name \in FullNames /\ name \notin GateNames
  BY DEF MenuNames, FullNames, GateNames
<1>3. Full /\ ~Gate
  BY <1>1, <1>2, OnlyFull DEF AtStep
<1>4. CASE HostStep = None
  <2>1. Skipped(<<name>>, "env") /\ name \notin RanScenario
    BY <1>4 DEF HostBackends, RanScenario
  <2>2. After(name) = "env"
    BY <1>3, FullAfter
  <2> QED BY <1>1, <1>2, <2>1, <2>2, SkippedKeepsInv
<1>5. CASE HostStep # None
  <2>1. name \in RanScenario /\ Outcome(name) = status
    BY <1>3, <1>5 DEF RanScenario, Outcome
  <2>2. \/ Waited(name)
        \/ \E answer \in Answers(good, bad) : Reached(name, answer, verdict(answer.value), run)
    BY <1>5 DEF HostBackends, Supervised, Reached, Waited, Stays
  <2>20. name \notin {"run_record_trace", "shrink", "replay", "discover_scenarios", "scope_match"}
    OBVIOUS
  <2> HIDE DEF status, warned, name
  <2>3. CASE Waited(name)
    BY <1>2, <2>3, InFullMenu, WaitedKeepsInv
  <2>4. ASSUME NEW answer \in Answers(good, bad), Reached(name, answer, verdict(answer.value), run)
        PROVE  WorkflowInv'
    <3>1. verdict(answer.value) \in Statuses
          /\ (verdict(answer.value) # "failed" => answer.value.status = "pass")
      BY PassNeedsPass DEF HostBackendsStatus, PassedIf, Statuses
    <3>2. status = "pass" => \A b \in bad : answer.value = b => verdict(answer.value) = "failed"
      BY BadHostRejected
    <3> HIDE DEF bad, verdict
    <3>3. answer.ok => Noticed(name, answer.fault, verdict(answer.value))
      BY <2>1, <2>4, <3>1, <3>2, RunNoticed DEF RunModes
    <3> HIDE DEF good
    <3> QED BY <1>2, <2>20, <2>4, <3>1, <3>3, ReachedKeepsInv
  <2> QED BY <2>2, <2>3, <2>4
<1> QED BY <1>4, <1>5

-----------------------------------------------------------------------------
(* The steps that run no scenario and are waited for, and those of gate.   *)

LEMMA DiscoverScenariosKeeps ==
  ASSUME WorkflowInv, DiscoverScenarios
  PROVE  WorkflowInv'
<1> DEFINE found == Scoped(Files("steps")) # {}
           good == [errors |-> Unreadable, steps |-> found]
           bad == {[errors |-> TRUE, steps |-> found]}
           name == "discover_scenarios"
<1>1. \/ Waited(name)
      \/ \E answer \in Answers(good, bad) :
           Reached(name, answer, DiscoverStatus(answer.value), run)
  BY DEF DiscoverScenarios, Supervised, Reached, Waited, Stays
<1>2. /\ name \in MenuNames \ {"clean_tree"} /\ name \in FullNames /\ name \notin RanScenario
      /\ name \notin {"run_record_trace", "shrink", "replay", "profile_explain"}
  BY DEF MenuNames, FullNames, RanScenario
<1>3. CASE Waited(name)
  BY <1>2, <1>3, InFullMenu, WaitedKeepsInv
<1>4. ASSUME NEW answer \in Answers(good, bad),
             Reached(name, answer, DiscoverStatus(answer.value), run)
      PROVE  WorkflowInv'
  <2>1. DiscoverStatus(answer.value) \in Statuses
    BY DEF DiscoverStatus, PassedIf, Statuses
  <2>2. \A b \in bad : DiscoverStatus(b) = "failed"
    BY DEF DiscoverStatus, PassedIf
  <2>3. DiscoverStatus(good) # "failed" => Primary # None
    <3>1. DiscoverStatus(good) # "failed" => found
      BY DEF DiscoverStatus, PassedIf
    <3> QED BY <3>1, FilesFound
  <2> HIDE DEF good, bad, name
  <2>4. /\ answer.fault \in BOOLEAN
        /\ answer.ok /\ ~answer.fault => answer.value = good
        /\ answer.ok /\ answer.fault => answer.value \in bad
    BY AnswersAre
  <2>5. answer.ok /\ DiscoverStatus(answer.value) # "failed" => ~answer.fault /\ Primary # None
    BY <2>2, <2>3, <2>4
  <2>6. answer.ok => Noticed(name, answer.fault, DiscoverStatus(answer.value))
    BY <1>2, <2>5 DEF Noticed
  <2> QED BY <1>2, <1>4, <2>1, <2>5, <2>6, ReachedKeepsInv
<1> QED BY <1>1, <1>3, <1>4

LEMMA BadCoverageRejected ==
  ASSUME NEW b \in BadCoverage
  PROVE  TopologyCoverageStatus(b) = "failed"
<1>1. CASE b = [Coverage EXCEPT !.covered = 0, !.uncovered = 1]
  <2>1. b.covered = 0 /\ b.required = 1
    BY <1>1 DEF Coverage
  <2> QED BY <2>1 DEF TopologyCoverageStatus, PassedIf
<1>2. CASE b = [Coverage EXCEPT !.root = "other"]
  <2>1. b.root = "other"
    BY <1>2 DEF Coverage
  <2> QED BY <2>1 DEF TopologyCoverageStatus, PassedIf
<1>3. CASE b = [Coverage EXCEPT !.warned = TRUE]
  <2>1. b.warned
    BY <1>3 DEF Coverage
  <2> QED BY <2>1 DEF TopologyCoverageStatus, PassedIf
<1>4. CASE b = [Coverage EXCEPT !.total = 2]
  <2>1. b.total = 2 /\ b.returned = 1 /\ b.truncated = FALSE
    BY <1>4 DEF Coverage
  <2> DEFINE total == b.total
             returned == b.returned
  <2>2. total = 2 /\ returned = 1
    BY <2>1
  <2> HIDE DEF total, returned
  <2>3. returned < total
    BY <2>2
  <2>4. ~(b.truncated = (b.returned < b.total))
    BY <2>1, <2>3 DEF total, returned
  <2> QED BY <2>4 DEF TopologyCoverageStatus, PassedIf
<1>5. ASSUME NEW suite, b = [Coverage EXCEPT !.suites = <<suite>>], ~SuiteOk(suite)
      PROVE  TopologyCoverageStatus(b) = "failed"
  <2>1. b.suites = <<suite>>
    BY <1>5 DEF Coverage
  <2>2. 1 \in DOMAIN b.suites /\ b.suites[1] = suite
    <3>1. 1 \in DOMAIN <<suite>> /\ <<suite>>[1] = suite
      BY SingleIs
    <3> QED BY <2>1, <3>1, Zenon
  <2> QED BY <1>5, <2>2 DEF TopologyCoverageStatus, PassedIf
<1>6. CASE b = [Coverage EXCEPT !.suites = <<[Suite EXCEPT !.evidence = {"run"}]>>]
  <2> DEFINE suite == [Suite EXCEPT !.evidence = {"run"}]
  <2>1. suite.evidence = {"run"} /\ suite.covered = <<"run", "fuzz">>
    BY DEF Suite
  <2>2. "fuzz" \in ToSet(suite.covered)
    <3>1. 2 \in DOMAIN <<"run", "fuzz">> /\ <<"run", "fuzz">>[2] = "fuzz"
      BY PairIs
    <3>2. "fuzz" \in ToSet(<<"run", "fuzz">>)
      BY <3>1 DEF ToSet
    <3> QED BY <2>1, <3>2
  <2> HIDE DEF suite
  <2>3. ~SuiteOk(suite)
    <3>1. ToSet(suite.covered) # suite.evidence
      BY <2>1, <2>2
    <3> QED BY <3>1 DEF SuiteOk
  <2> QED BY <1>5, <1>6, <2>3 DEF suite
<1>7. CASE b = [Coverage EXCEPT !.suites = <<[Suite EXCEPT !.covered = <<"run">>, !.evidence = {"run"},
                                                          !.missing = <<"fuzz">>]>>]
  <2> DEFINE suite == [Suite EXCEPT !.covered = <<"run">>, !.evidence = {"run"},
                                    !.missing = <<"fuzz">>]
  <2>1. suite.missing = <<"fuzz">> /\ suite.is_covered = TRUE /\ suite.by_policy = TRUE
    BY DEF Suite
  <2>2. "fuzz" \in ToSet(suite.missing)
    <3>1. 1 \in DOMAIN <<"fuzz">> /\ <<"fuzz">>[1] = "fuzz"
      BY SingleIs
    <3>2. "fuzz" \in ToSet(<<"fuzz">>)
      BY <3>1 DEF ToSet
    <3> QED BY <2>1, <3>2
  <2> HIDE DEF suite
  <2>3. ~SuiteOk(suite)
    <3>1. ToSet(suite.missing) # {}
      BY <2>2
    <3> QED BY <2>1, <3>1 DEF SuiteOk
  <2> QED BY <1>5, <1>7, <2>3 DEF suite
<1> QED BY <1>1, <1>2, <1>3, <1>4, <1>6, <1>7 DEF BadCoverage

LEMMA TopologyCoverageKeeps ==
  ASSUME WorkflowInv, TopologyCoverage
  PROVE  WorkflowInv'
<1> DEFINE good == Coverage
           bad == BadCoverage
           name == "topology_coverage"
<1>1. AtStep(name)
  BY DEF TopologyCoverage, Supervised
<1>2. /\ name \in MenuNames \ {"clean_tree"} /\ name \in FullNames /\ name \notin GateNames
      /\ name \in PlainNames /\ name \notin RanScenario
      /\ name \notin {"run_record_trace", "shrink", "replay", "discover_scenarios", "scope_match"}
  BY DEF MenuNames, FullNames, GateNames, PlainNames, RanScenario
<1>3. CASE ~setup.topology
  <2>1. Skipped(<<name>>, "doctor_deep")
    BY <1>3 DEF TopologyCoverage
  <2>2. After(name) = "doctor_deep"
    BY <1>1, <1>2, OnlyFull, FullAfter DEF AtStep
  <2> HIDE DEF name
  <2> QED BY <1>1, <1>2, <2>1, <2>2, SkippedKeepsInv
<1>4. CASE setup.topology
  <2>1. \/ Waited(name)
        \/ \E answer \in Answers(good, bad) :
             Reached(name, answer, TopologyCoverageStatus(answer.value), run)
    BY <1>4 DEF TopologyCoverage, Supervised, Reached, Waited, Stays
  <2> HIDE DEF name
  <2>2. CASE Waited(name)
    BY <1>2, <2>2, InFullMenu, WaitedKeepsInv
  <2>3. ASSUME NEW answer \in Answers(good, bad),
               Reached(name, answer, TopologyCoverageStatus(answer.value), run)
        PROVE  WorkflowInv'
    <3>1. TopologyCoverageStatus(answer.value) \in Statuses
      BY DEF TopologyCoverageStatus, PassedIf, Statuses
    <3>2. \A b \in bad : TopologyCoverageStatus(b) = "failed"
      BY BadCoverageRejected
    <3> HIDE DEF good, bad
    <3> QED BY <1>2, <2>3, <3>1, <3>2, AnswersAre, JudgedInTimeKeepsInv
  <2> QED BY <2>1, <2>2, <2>3
<1> QED BY <1>3, <1>4

(* Several steps at once, the last of which need not be a failed one.      *)
LEMMA SkippedEntries ==
  ASSUME NEW names \in Seq(StepNames)
  PROVE  LET entries == [i \in DOMAIN names |-> [name |-> names[i], status |-> "skipped"]]
         IN  /\ entries \in Seq(StepRecords) /\ Len(entries) = Len(names)
             /\ DOMAIN entries = 1..Len(names)
             /\ \A k \in 1..Len(names) : entries[k].name = names[k] /\ entries[k].status = "skipped"
<1>1. DOMAIN names = 1..Len(names) /\ Len(names) \in Nat
  BY LenProperties
<1>2. \A k \in 1..Len(names) : names[k] \in StepNames
  BY ElementOfSeq
<1> QED BY <1>1, <1>2 DEF StepRecords, Statuses

LEMMA NoScenarioKeepsInv ==
  ASSUME WorkflowInv, Full, AtStep("doctor_deep"), AnyFailed(steps),
         Skipped(DeterministicNames \o TraceNames, "fuzz")
  PROVE  WorkflowInv'
<1> DEFINE names == DeterministicNames \o TraceNames
           entries == [i \in DOMAIN names |-> [name |-> names[i], status |-> "skipped"]]
<1>1. Menu = FullMenu /\ Len(Menu) = 37 /\ Menu[7] = "doctor_deep" /\ Menu[29] = "fuzz"
  BY FullMenuIs DEF Menu
<1>2. AtMenu(7)
  BY <1>1, PlaceOf DEF AtStep, MenuNames
<1>3. /\ names \in Seq(StepNames) /\ Len(names) = 22
      /\ \A k \in 1..22 : names[k] = Menu[7 + k - 1]
  BY <1>1 DEF DeterministicNames, TraceNames, StepNames, MenuNames, FullMenu, PrepareNames, ExtendedNames, CorpusNames
<1> HIDE DEF names
<1>4. /\ entries \in Seq(StepRecords) /\ Len(entries) = 22
      /\ \A k \in 1..22 : entries[k].name = names[k]
  BY <1>3, SkippedEntries
<1> HIDE DEF entries
<1>5. Aligned(7, entries)
  <2>1. 7 \in 2..Len(Menu) /\ Len(entries) > 0 /\ 7 + Len(entries) - 1 <= Len(Menu)
    BY <1>1, <1>4
  <2> QED BY <2>1, <1>2, <1>3, <1>4 DEF Aligned
<1>7. Onward(7, entries)
  <2>1. 7 + Len(entries) - 1 < Len(Menu) /\ pc' = Menu[7 + Len(entries)]
    BY <1>1, <1>4 DEF Skipped
  <2> QED BY <2>1 DEF Onward
<1>6. steps' = steps \o entries
  BY DEF Skipped, SkipAll, names, entries
<1>8. 7 \in 2..Len(Menu)
  BY <1>5 DEF Aligned
<1>9. Pushing(entries)
  BY <1>5, <1>6, <1>7, <1>8 DEF Pushing, Skipped, AtStep, WellJudged
<1> QED BY <1>9, PushingKeepsInv

LEMMA RunsIs ==
  ASSUME WorkflowInv
  PROVE  Runs \in Nat /\ Runs >= 2
<1>1. setup.doctor_runs \in Nat
  BY SetupsAssumption DEF WorkflowInv
<1> DEFINE T == {2, setup.doctor_runs}
<1>2. \E n \in T : \A m \in T : n >= m
  BY <1>1
<1>3. Max(T) \in T /\ \A m \in T : Max(T) >= m
  BY <1>2 DEF Max
<1> QED BY <1>1, <1>3 DEF Runs

LEMMA DoctorIs ==
  ASSUME WorkflowInv, NEW first
  PROVE  LET sigs == [i \in 1..Runs |-> IF i = 1 THEN first ELSE "sig"]
             r == HealthyDoctor(first)
         IN  /\ DOMAIN r = {"ok", "issues", "signals", "audit"}
             /\ r.audit = [scenario |-> Primary.name, runs |-> Runs, seed |-> "expected",
                           signatures |-> sigs, consistent |-> FirstMismatch(sigs) = None,
                           mismatch |-> FirstMismatch(sigs)]
<1> DEFINE sigs == [i \in 1..Runs |-> IF i = 1 THEN first ELSE "sig"]
<1>1. Len(sigs) = Runs
  BY RunsIs
<1> HIDE DEF sigs
<1> QED BY <1>1 DEF HealthyDoctor, Doctor, sigs

LEMMA OddSignature ==
  ASSUME WorkflowInv
  PROVE  FirstMismatch([i \in 1..Runs |-> IF i = 1 THEN "other" ELSE "sig"]) # None
<1> DEFINE sigs == [i \in 1..Runs |-> IF i = 1 THEN "other" ELSE "sig"]
           differ == {i \in DOMAIN sigs : sigs[i] # sigs[1]}
<1>1. Runs \in Nat /\ Runs >= 2
  BY RunsIs
<1>2. 2 \in differ /\ differ \subseteq Nat
  BY <1>1
<1> HIDE DEF differ
<1>3. Min(differ) \in Nat
  BY <1>2, MinIsLeast
<1> HIDE DEF sigs
<1> QED BY <1>2, <1>3, NoneAssumption DEF FirstMismatch, differ, sigs

LEMMA BadDoctorRejected ==
  ASSUME WorkflowInv, Primary # None, NEW b \in BadDoctor
  PROVE  Doctored(b) = "failed"
<1> DEFINE r == HealthyDoctor("sig")
           sigs == [i \in 1..Runs |-> IF i = 1 THEN "sig" ELSE "sig"]
<1>1. /\ DOMAIN r = {"ok", "issues", "signals", "audit"}
      /\ r.audit = [scenario |-> Primary.name, runs |-> Runs, seed |-> "expected",
                    signatures |-> sigs, consistent |-> FirstMismatch(sigs) = None,
                    mismatch |-> FirstMismatch(sigs)]
  BY DoctorIs
<1>2. Runs \in Nat /\ Primary.name # "other"
  BY RunsIs, PrimaryIs
<1>3. ASSUME \/ b.audit = None \/ b.audit.scenario # Primary.name \/ b.audit.runs # Runs
             \/ b.audit.seed # "expected"
             \/ ~b.audit.consistent
             \/ b.audit.consistent /\ b.audit.mismatch # None
      PROVE  Doctored(b) = "failed"
  <2>1. \/ b.audit = None \/ ~AuditValid(b.audit, Primary.name, Runs) \/ ~b.audit.consistent
    BY <1>3 DEF AuditValid
  <2> QED BY <2>1 DEF Doctored, DoctorReportStatus, PassedIf
<1>4. CASE b = HealthyDoctor("other")
  <2> DEFINE odd == [i \in 1..Runs |-> IF i = 1 THEN "other" ELSE "sig"]
  <2>1. b.audit = [scenario |-> Primary.name, runs |-> Runs, seed |-> "expected",
                   signatures |-> odd, consistent |-> FirstMismatch(odd) = None,
                   mismatch |-> FirstMismatch(odd)]
    BY <1>4, DoctorIs
  <2> DEFINE agrees == FirstMismatch(odd) = None
  <2>2. ~agrees
    BY OddSignature
  <2> HIDE DEF odd, agrees
  <2>4. b.audit.consistent = agrees
    BY <2>1 DEF agrees
  <2>3. ~b.audit.consistent
    BY <2>2, <2>4
  <2> QED BY <1>3, <2>3
<1> HIDE DEF r, sigs
<1>5. CASE b = [r EXCEPT !.audit.scenario = "other"]
  <2>1. b.audit = [r.audit EXCEPT !.scenario = "other"]
    BY <1>1, <1>5
  <2>2. b.audit.scenario = "other"
    BY <1>1, <2>1
  <2> QED BY <1>2, <1>3, <2>2
<1>6. CASE b = [r EXCEPT !.audit.runs = @ + 1]
  <2>1. b.audit = [r.audit EXCEPT !.runs = @ + 1]
    BY <1>1, <1>6
  <2>2. b.audit.runs = Runs + 1
    BY <1>1, <2>1
  <2>3. b.audit.runs # Runs
    BY <1>2, <2>2
  <2> QED BY <1>3, <2>3
<1>7. CASE b = [r EXCEPT !.audit.seed = "other"]
  <2>1. b.audit = [r.audit EXCEPT !.seed = "other"]
    BY <1>1, <1>7
  <2>2. b.audit.seed = "other"
    BY <1>1, <2>1
  <2> QED BY <1>3, <2>2
<1>8. CASE b = [r EXCEPT !.audit = None]
  <2>1. b.audit = None
    BY <1>1, <1>8
  <2> QED BY <1>3, <2>1
<1>9. CASE b = [r EXCEPT !.audit.mismatch = 2]
  <2>1. b.audit = [r.audit EXCEPT !.mismatch = 2]
    BY <1>1, <1>9
  <2>2. b.audit.mismatch = 2 /\ b.audit.consistent \in BOOLEAN
    BY <1>1, <2>1
  <2>3. b.audit.mismatch # None
    BY <2>2, NoneAssumption
  <2> QED BY <1>3, <2>2, <2>3
<1>10. CASE b = [r EXCEPT !.signals = <<"clock">>]
  <2>1. b.signals = <<"clock">>
    BY <1>1, <1>10
  <2>2. "clock" \in ToSet(b.signals)
    <3>1. 1 \in DOMAIN <<"clock">> /\ <<"clock">>[1] = "clock"
      BY SingleIs
    <3>2. "clock" \in ToSet(<<"clock">>)
      BY <3>1 DEF ToSet
    <3> QED BY <2>1, <3>2
  <2>3. ~(ToSet(b.signals) \subseteq {"env"})
    BY <2>2
  <2> QED BY <2>3 DEF Doctored, DoctorReportStatus, PassedIf
<1> QED BY <1>4, <1>5, <1>6, <1>7, <1>8, <1>9, <1>10 DEF BadDoctor, r

LEMMA DoctorDeepKeeps ==
  ASSUME WorkflowInv, DoctorDeep
  PROVE  WorkflowInv'
<1> DEFINE good == HealthyDoctor("sig")
           bad == BadDoctor
           name == "doctor_deep"
<1>1. Full /\ AtStep(name)
  BY DEF DoctorDeep, Supervised
<1>2. /\ name \in MenuNames \ {"clean_tree"} /\ name \in FullNames /\ name \in PlainNames
  BY DEF MenuNames, FullNames, PlainNames
<1>3. CASE Primary # None
  <2>1. \/ Waited(name)
        \/ \E answer \in Answers(good, bad) : Reached(name, answer, Doctored(answer.value), run)
    BY <1>3 DEF DoctorDeep, Supervised, Reached, Waited, Stays
  <2> HIDE DEF name
  <2>2. CASE Waited(name)
    BY <1>2, <2>2, InFullMenu, WaitedKeepsInv
  <2>3. ASSUME NEW answer \in Answers(good, bad), Reached(name, answer, Doctored(answer.value), run)
        PROVE  WorkflowInv'
    <3>1. Doctored(answer.value) \in Statuses
      BY DEF Doctored, DoctorReportStatus, PassedIf, Statuses
    <3>2. \A b \in bad : Doctored(b) = "failed"
      BY <1>3, BadDoctorRejected
    <3> HIDE DEF good, bad
    <3> QED BY <1>2, <2>3, <3>1, <3>2, AnswersAre, JudgedInTimeKeepsInv
  <2> QED BY <2>1, <2>2, <2>3
<1>4. CASE Primary = None
  <2>1. Skipped(DeterministicNames \o TraceNames, "fuzz")
    BY <1>4 DEF DoctorDeep
  <2>2. AnyFailed(steps)
    BY <1>1, <1>2, <1>4, FoundBefore DEF Unfailed, AtStep, FirstNames
  <2> QED BY <1>1, <2>1, <2>2, NoScenarioKeepsInv
<1> QED BY <1>3, <1>4

LEMMA GateDoctorKeeps ==
  ASSUME WorkflowInv, GateDoctor
  PROVE  WorkflowInv'
<1> DEFINE good == HealthyDoctor("sig")
           bad == BadDoctor
<1>1. PICK answer \in Answers(good, bad) : Answered("doctor_deep", answer, Doctored(answer.value))
  BY DEF GateDoctor, Direct, Answered
<1>2. Doctored(answer.value) \in Statuses
  BY DEF Doctored, DoctorReportStatus, PassedIf, Statuses
<1>3. "doctor_deep" \in PlainNames /\ "doctor_deep" \in MenuNames \ FirstNames
  BY DEF PlainNames, MenuNames, FirstNames
<1>4. ASSUME ~AnyFailed(steps), NEW b \in bad PROVE Doctored(b) = "failed"
  <2>1. Primary # None
    BY <1>1, <1>3, <1>4, FoundBefore DEF Unfailed, Answered, AtStep
  <2> QED BY <2>1, <1>4, BadDoctorRejected
<1> HIDE DEF good, bad
<1> QED BY <1>1, <1>2, <1>3, <1>4, AnswersAre, JudgedKeepsInv

-----------------------------------------------------------------------------
(* The gates of ci.                                                        *)

LEMMA PrefixKept ==
  ASSUME NEW S, NEW a \in Seq(S), NEW b \in Seq(S), Len(a) >= 5
  PROVE  /\ a \o b \in Seq(S) /\ Len(a \o b) >= 5 /\ DOMAIN (a \o b) = 1..Len(a \o b)
         /\ \A i \in 1..5 : (a \o b)[i] = a[i]
BY ConcatProperties, LenProperties

(* What ci answers on a trace that has a memory. *)
LEMMA CiIs ==
  ASSUME NEW verify, NEW replay
  PROVE  LET trace == RecordedRun(Primary)
             ci == CiOf(verify, replay)
         IN  /\ DOMAIN ci = {"ok", "checks"} /\ (\E S : ci.checks \in Seq(S))
             /\ Len(ci.checks) >= 5
             /\ ci.ok => /\ TraceVerifyStatus(verify, Strict) = "passed"
                         /\ SameClass(trace.status, replay.status)
                         /\ MemorySummary(trace) = MemorySummary(replay)
<1> DEFINE trace == RecordedRun(Primary)
           c1 == Check("trace_verify", TraceVerifyStatus(verify, Strict) = "passed")
           c2 == Check("replay_outcome_class", SameClass(trace.status, replay.status))
           c3 == Check("replay_warning_parity", trace.warnings = replay.warnings)
           c4 == Check("strict_warning_policy", Strict => trace.warnings = <<>>)
           c5 == Check("replay_memory_parity", MemorySummary(trace) = MemorySummary(replay))
           c6 == Check("memory_policy", LeakAllowed(trace.memory))
           c7 == Check("artifacts_zip_integrity", TRUE)
           S == {c1, c2, c3, c4, c5, c6, c7}
           f == IF trace.memory = None THEN <<>> ELSE <<c6>>
           checks == (((<<c1, c2, c3, c4, c5>> \o f) \o <<c7>>) \o <<>>) \o <<>>
<1>1. CiOf(verify, replay) = [ok |-> \A i \in DOMAIN checks : checks[i].ok, checks |-> checks]
  <2>1. FlakeChecks(CiOptions) = Ok(<<>>) /\ PerfChecks(CiOptions) = <<>>
    BY DEF FlakeChecks, PerfChecks, CiOptions
  <2>2. FlakeChecks(CiOptions) # Err /\ FlakeChecks(CiOptions).value = <<>>
    BY <2>1 DEF Ok, Err
  <2>3. CiChecks(Strict, trace, verify, replay) = (<<c1, c2, c3, c4, c5>> \o f) \o <<c7>>
    BY DEF CiChecks
  <2>4. /\ CiOptions.flake_budget = None /\ CiOptions.max_p99 = None /\ CiOptions.strict = Strict
    BY DEF CiOptions
  <2> HIDE DEF trace, c1, c2, c3, c4, c5, c6, c7, f
  <2>5. /\ Ok(trace).result = "ok" /\ Ok(verify).result = "ok" /\ Ok(replay).result = "ok"
        /\ Ok(trace).value = trace /\ Ok(verify).value = verify /\ Ok(replay).value = replay
    BY DEF Ok
  <2>6. CiEvaluate(CiOptions, Ok(trace), Ok(verify), Ok(replay))
          = Ok([ok |-> \A i \in DOMAIN checks : checks[i].ok, checks |-> checks])
    BY <2>1, <2>2, <2>3, <2>4, <2>5 DEF CiEvaluate
  <2> HIDE DEF checks
  <2> DEFINE report == [ok |-> \A i \in DOMAIN checks : checks[i].ok, checks |-> checks]
  <2>7. CiOf(verify, replay) = CiEvaluate(CiOptions, Ok(trace), Ok(verify), Ok(replay)).value
    BY DEF CiOf, trace
  <2>8. CiEvaluate(CiOptions, Ok(trace), Ok(verify), Ok(replay)) = Ok(report)
    BY <2>6
  <2> HIDE DEF report
  <2>9. Ok(report).value = report
    BY DEF Ok
  <2> QED BY <2>7, <2>8, <2>9 DEF report
<1>2. /\ c1.ok = (TraceVerifyStatus(verify, Strict) = "passed")
      /\ c2.ok = SameClass(trace.status, replay.status)
      /\ c5.ok = (MemorySummary(trace) = MemorySummary(replay))
  BY DEF Check
<1> HIDE DEF c1, c2, c3, c4, c5, c6, c7
<1>3. /\ <<c1, c2, c3, c4, c5>> \in Seq(S) /\ f \in Seq(S) /\ <<c7>> \in Seq(S) /\ <<>> \in Seq(S)
      /\ Len(<<c1, c2, c3, c4, c5>>) = 5
      /\ <<c1, c2, c3, c4, c5>>[1] = c1 /\ <<c1, c2, c3, c4, c5>>[2] = c2
      /\ <<c1, c2, c3, c4, c5>>[5] = c5
  BY SMTT(30)
<1> HIDE DEF S, f
<1> DEFINE e == <<c1, c2, c3, c4, c5>>
<1> HIDE DEF e
<1>4. /\ checks \in Seq(S) /\ Len(checks) >= 5
      /\ \A i \in 1..5 : i \in DOMAIN checks /\ checks[i] = e[i]
  <2>1. e \in Seq(S) /\ f \in Seq(S) /\ <<c7>> \in Seq(S) /\ <<>> \in Seq(S) /\ Len(e) = 5
    BY <1>3 DEF e
  <2> DEFINE g == <<c7>>
             z == <<>>
             p == e \o f
             q == p \o g
             r == q \o z
             n == Len(e)
  <2> HIDE DEF n
  <2>8. n >= 5
    <3>1. n = 5
      BY <2>1 DEF n
    <3> QED BY <3>1
  <2>2. checks = r \o z /\ g \in Seq(S) /\ z \in Seq(S)
    BY <2>1 DEF e
  <2> HIDE DEF g, z
  <2>3. p \in Seq(S) /\ Len(p) >= 5 /\ \A i \in 1..5 : p[i] = e[i]
    BY <2>1, <2>8, PrefixKept DEF n
  <2> HIDE DEF p
  <2>4. q \in Seq(S) /\ Len(q) >= 5 /\ \A i \in 1..5 : q[i] = p[i]
    BY <2>2, <2>3, PrefixKept
  <2> HIDE DEF q
  <2>5. r \in Seq(S) /\ Len(r) >= 5 /\ \A i \in 1..5 : r[i] = q[i]
    BY <2>2, <2>4, PrefixKept
  <2> HIDE DEF checks, r
  <2>6. /\ r \o z \in Seq(S) /\ Len(r \o z) >= 5 /\ DOMAIN (r \o z) = 1..Len(r \o z)
        /\ \A i \in 1..5 : (r \o z)[i] = r[i]
    BY <2>2, <2>5, PrefixKept
  <2>7. \A i \in 1..5 : i \in DOMAIN checks
    <3>1. Len(checks) \in Nat
      BY <2>2, <2>6, LenProperties
    <3> QED BY <2>2, <2>6, <3>1
  <2> QED BY <2>2, <2>3, <2>4, <2>5, <2>6, <2>7
<1> HIDE DEF checks
<1> DEFINE ci == CiOf(verify, replay)
<1>5. DOMAIN ci = {"ok", "checks"} /\ ci.checks = checks
      /\ ci.ok = (\A i \in DOMAIN checks : checks[i].ok)
  BY <1>1
<1>6. ASSUME \A i \in DOMAIN checks : checks[i].ok
      PROVE  /\ TraceVerifyStatus(verify, Strict) = "passed"
             /\ SameClass(trace.status, replay.status)
             /\ MemorySummary(trace) = MemorySummary(replay)
  <2>1. e[1] = c1 /\ e[2] = c2 /\ e[5] = c5
    BY <1>3 DEF e
  <2>2. checks[1] = c1 /\ checks[2] = c2 /\ checks[5] = c5
    BY <1>4, <2>1
  <2>3. 1 \in DOMAIN checks /\ 2 \in DOMAIN checks /\ 5 \in DOMAIN checks
    BY <1>4
  <2>4. c1.ok
    BY <1>6, <2>2, <2>3, Zenon
  <2>5. c2.ok
    BY <1>6, <2>2, <2>3, Zenon
  <2>6. c5.ok
    BY <1>6, <2>2, <2>3, Zenon
  <2> QED BY <1>2, <2>4, <2>5, <2>6, Zenon
<1> HIDE DEF ci
<1>7. \E T : ci.checks \in Seq(T)
  BY <1>4, <1>5
<1>8. Len(ci.checks) >= 5
  BY <1>4, <1>5
<1> QED BY <1>5, <1>6, <1>7, <1>8 DEF ci

LEMMA UnhealthyRejected ==
  ASSUME NEW verify, NEW replay,
         \/ TraceVerifyStatus(verify, Strict) # "passed"
         \/ ~SameClass(RecordedRun(Primary).status, replay.status)
         \/ MemorySummary(RecordedRun(Primary)) # MemorySummary(replay)
  PROVE  CiReportStatus(CiOf(verify, replay)) = "failed"
<1>1. ~CiOf(verify, replay).ok
  BY CiIs
<1> QED BY <1>1 DEF CiReportStatus, PassedIf

LEMMA RepeatedRejected ==
  ASSUME NEW ci, NEW S, NEW checks \in Seq(S), Len(checks) >= 5, ci.checks = checks \o checks
  PROVE  CiReportStatus(ci) = "failed"
<1> DEFINE n == Len(checks)
           all == checks \o checks
           f == [i \in DOMAIN ci.checks |-> ci.checks[i].name]
<1>1. /\ n \in Nat /\ all[1] = checks[1] /\ all[n + 1] = checks[1] /\ n + 1 # 1
      /\ 1 \in DOMAIN all /\ n + 1 \in DOMAIN all
  <2>1. n \in Nat /\ n >= 5
    BY LenProperties
  <2>2. Len(all) = n + n /\ all \in Seq(S)
        /\ \A i \in 1..(n + n) : all[i] = IF i <= n THEN checks[i] ELSE checks[i - n]
    BY ConcatProperties
  <2>3. DOMAIN all = 1..(n + n)
    BY <2>2, LenProperties
  <2> HIDE DEF n, all
  <2>4. 1 \in 1..(n + n) /\ n + 1 \in 1..(n + n) /\ ~(n + 1 <= n) /\ 1 <= n /\ (n + 1) - n = 1
    BY <2>1
  <2> QED BY <2>1, <2>2, <2>3, <2>4
<1> HIDE DEF n, all
<1>2. ci.checks = all
  BY DEF all
<1>3. 1 \in DOMAIN f /\ n + 1 \in DOMAIN f /\ f[1] = f[n + 1]
  BY <1>1, <1>2
<1>4. ~Distinct(f)
  BY <1>1, <1>3, AlikeNotDistinct
<1> QED BY <1>4 DEF CiReportStatus, PassedIf

LEMMA BadCiRejected ==
  ASSUME WorkflowInv, Primary # None, NEW b \in BadCi
  PROVE  CiReportStatus(b) = "failed"
<1> DEFINE R == RecordedRun(Primary)
           M == MemoryOf(setup, Primary)
<1>1. DOMAIN R = {"status", "memory", "warnings"} /\ R.memory = M
  BY DEF RecordedRun
<1>2. CASE \E v \in BadVerified : b = CiOf(v, R)
  <2>1. PICK v \in BadVerified : b = CiOf(v, R)
    BY <1>2
  <2>2. TraceVerifyStatus(v, Strict) = "failed"
    BY <2>1 DEF BadVerified, Verified, TraceVerifyStatus, PassedIf
  <2> QED BY <2>1, <2>2, UnhealthyRejected
<1>3. CASE b = CiOf(Verified, [R EXCEPT !.status = Flipped(@)])
  <2> DEFINE replay == [R EXCEPT !.status = Flipped(@)]
  <2>1. replay.status = Flipped(R.status)
    BY <1>1
  <2> HIDE DEF replay
  <2>2. ~SameClass(R.status, replay.status)
    BY <2>1 DEF SameClass, Flipped
  <2> QED BY <1>3, <2>2, UnhealthyRejected DEF replay
<1>4. CASE b = CiOf(Verified, [R EXCEPT !.memory.summary.peak_bytes = @ + 1])
  <2> DEFINE replay == [R EXCEPT !.memory.summary.peak_bytes = @ + 1]
             S == M.summary
             T == replay.memory.summary
  <2>1. M # None /\ S # None /\ Primary.peak \in Nat
    BY PrimaryIs
  <2>2. /\ DOMAIN M = {"fail_on_leak", "leak_budget", "summary", "leaks", "graph"}
        /\ DOMAIN S = {"leaked_bytes", "leaked_allocs", "peak_bytes"}
        /\ S.peak_bytes = Primary.peak
    BY DEF MemoryOf
  <2>3. T # S
    <3> HIDE DEF R, M
    <3>1. replay.memory = [R.memory EXCEPT !.summary.peak_bytes = @ + 1]
      BY <1>1
    <3> HIDE DEF replay
    <3>2. T = [S EXCEPT !.peak_bytes = @ + 1]
      BY <1>1, <2>2, <3>1
    <3> HIDE DEF S, T
    <3>3. T.peak_bytes = Primary.peak + 1
      BY <2>2, <3>2
    <3>4. Primary.peak + 1 # Primary.peak
      BY <2>1
    <3> QED BY <2>2, <3>3, <3>4
  <2>4. MemorySummary(R) = S
    BY <1>1, <2>1 DEF MemorySummary
  <2>5. MemorySummary(replay) \in {None, T}
    BY DEF MemorySummary
  <2>6. MemorySummary(R) # MemorySummary(replay)
    BY <2>1, <2>3, <2>4, <2>5
  <2> HIDE DEF replay
  <2> QED BY <1>4, <2>6, UnhealthyRejected DEF replay
<1>5. CASE b = [HealthyCi EXCEPT !.checks = <<>>]
  <2>1. DOMAIN HealthyCi = {"ok", "checks"}
    BY CiIs DEF HealthyCi
  <2>2. b.checks = <<>>
    BY <1>5, <2>1
  <2> QED BY <2>2 DEF CiReportStatus, PassedIf
<1>6. CASE b = [HealthyCi EXCEPT !.checks = @ \o @]
  <2>1. DOMAIN HealthyCi = {"ok", "checks"} /\ (\E S : HealthyCi.checks \in Seq(S))
        /\ Len(HealthyCi.checks) >= 5
    BY CiIs DEF HealthyCi
  <2>2. b.checks = HealthyCi.checks \o HealthyCi.checks
    BY <1>6, <2>1
  <2> QED BY <2>1, <2>2, RepeatedRejected
<1> QED BY <1>2, <1>3, <1>4, <1>5, <1>6 DEF BadCi, R

LEMMA CiKeeps ==
  ASSUME WorkflowInv, Ci
  PROVE  WorkflowInv'
<1> DEFINE good == HealthyCi
           bad == BadCi
<1>1. /\ AtStep("ci")
      /\ \/ Waited("ci")
         \/ \E answer \in Answers(good, bad) :
              Reached("ci", answer, CiReportStatus(answer.value), run)
  BY DEF Ci, Supervised, Reached, Waited, Stays
<1>2. /\ "ci" \in MenuNames \ {"clean_tree"} /\ "ci" \in FullNames /\ "ci" \in PlainNames
      /\ "ci" \in MenuNames \ FirstNames
  BY DEF MenuNames, FullNames, PlainNames, FirstNames
<1>3. CASE Waited("ci")
  BY <1>2, <1>3, InFullMenu, WaitedKeepsInv
<1>4. ASSUME NEW answer \in Answers(good, bad),
             Reached("ci", answer, CiReportStatus(answer.value), run)
      PROVE  WorkflowInv'
  <2>1. CiReportStatus(answer.value) \in Statuses
    BY DEF CiReportStatus, PassedIf, Statuses
  <2>2. ASSUME ~AnyFailed(steps), NEW b \in bad PROVE CiReportStatus(b) = "failed"
    <3>1. Primary # None
      BY <1>1, <1>2, <2>2, FoundBefore DEF Unfailed, AtStep
    <3> QED BY <3>1, <2>2, BadCiRejected
  <2> HIDE DEF good, bad
  <2> QED BY <1>2, <1>4, <2>1, <2>2, AnswersAre, JudgedInTimeKeepsInv
<1> QED BY <1>1, <1>3, <1>4

LEMMA GateCiKeeps ==
  ASSUME WorkflowInv, GateCi
  PROVE  WorkflowInv'
<1> DEFINE good == HealthyCi
           bad == BadCi
<1>1. PICK answer \in Answers(good, bad) : Answered("ci", answer, CiReportStatus(answer.value))
  BY DEF GateCi, Direct, Answered
<1>2. CiReportStatus(answer.value) \in Statuses
  BY DEF CiReportStatus, PassedIf, Statuses
<1>3. "ci" \in PlainNames /\ "ci" \in MenuNames \ FirstNames
  BY DEF PlainNames, MenuNames, FirstNames
<1>4. ASSUME ~AnyFailed(steps), NEW b \in bad PROVE CiReportStatus(b) = "failed"
  <2>1. Primary # None
    BY <1>1, <1>3, <1>4, FoundBefore DEF Unfailed, Answered, AtStep
  <2> QED BY <2>1, <1>4, BadCiRejected
<1> HIDE DEF good, bad
<1> QED BY <1>1, <1>2, <1>3, <1>4, AnswersAre, JudgedKeepsInv

-----------------------------------------------------------------------------
(* The read-only commands over reports and memories.                       *)

LEMMA InitCheckKeeps ==
  ASSUME WorkflowInv, InitCheck
  PROVE  WorkflowInv'
<1> DEFINE good == "scaffold"
           bad == {"scaffold missing"}
           verdict(v) == PassedIf(v = "scaffold")
<1>1. PICK answer \in Answers(good, bad) : Answered("init", answer, verdict(answer.value))
  BY DEF InitCheck, Direct, Answered
<1>2. ASSUME NEW b \in bad PROVE verdict(b) = "failed"
  BY DEF PassedIf
<1>3. verdict(answer.value) \in Statuses
  BY DEF Statuses, PassedIf
<1>4. "init" \in PlainNames
  BY DEF PlainNames, MenuNames
<1> HIDE DEF good, bad, verdict
<1> QED BY <1>1, <1>2, <1>3, <1>4, AnswersAre, JudgedKeepsInv

LEMMA InitCannotReturnKeeps ==
  ASSUME WorkflowInv, InitCannotReturn
  PROVE  WorkflowInv'
<1>1. /\ pc = "init" /\ waiting = None /\ waiting' = None /\ setup' = setup /\ worker' = worker
      /\ exit' = exit /\ steps' = Push("init", "failed") /\ pc' = After("init")
      /\ faulty' = faulty \cup {"init"} /\ disk' = disk \cup {"init"}
  BY DEF InitCannotReturn, AtStep
<1>2. DOMAIN run' = DOMAIN run
  BY DEF InitCannotReturn
<1>3. temps \subseteq temps' /\ WrittenBy("init") \subseteq temps'
  BY TempsGrow DEF InitCannotReturn
<1>4. WrittenBy("init") = {"init"}
  BY DEF WrittenBy
<1>5. "init" \in MenuNames \ {"clean_tree"} /\ "failed" \in Statuses
  BY DEF MenuNames, Statuses
<1>6. Pushes("init", "failed", TRUE)
  BY <1>1, <1>2, <1>3, <1>4, <1>5 DEF Pushes
<1> QED BY <1>6, PushesKeepInv

LEMMA ReportQueryKeeps ==
  ASSUME WorkflowInv, ReportQuery
  PROVE  WorkflowInv'
<1> DEFINE good == Primary.status
           bad == {Flipped(Primary.status)}
           name == "report_query"
<1>1. PICK answer \in Answers(good, bad) :
        Answered(name, answer, ReportQueryStatus(answer.value))
  BY DEF ReportQuery, Direct, Answered
<1>2. name \in MenuNames \ GateNames
  BY DEF MenuNames, GateNames
<1>3. ~Gate
  BY <1>1, <1>2, OnlyFull DEF Answered, AtStep
<1>4. name \in RanScenario /\ Outcome(name) = good
  BY <1>3 DEF RanScenario, Outcome
<1>5. /\ name \in MenuNames \ {"clean_tree", "run_record_trace", "shrink", "replay",
                               "discover_scenarios", "scope_match"}
  BY DEF MenuNames
<1>6. \A v : ReportQueryStatus(v) \in Statuses /\ (ReportQueryStatus(v) # "failed" <=> v = "pass")
  BY DEF ReportQueryStatus, PassedIf, Statuses
<1>7. \A b \in bad : b = "pass" <=> good # "pass"
  BY DEF Flipped
<1> HIDE DEF good, bad, name
<1>8. answer.ok => Noticed(name, answer.fault, ReportQueryStatus(answer.value))
  BY <1>4, <1>6, <1>7, AnswersAre DEF Noticed
<1> QED BY <1>1, <1>5, <1>6, <1>8, AnsweredKeepsInv

LEMMA TwoDiffer ==
  ASSUME NEW a, NEW b, a # b
  PROVE  Cardinality({a, b}) > 1
<1>1. IsFiniteSet({a}) /\ Cardinality({a}) = 1
  BY FS_Singleton
<1>2. Cardinality({a} \cup {b}) = 2
  BY <1>1, FS_AddElement
<1>3. {a} \cup {b} = {a, b}
  OBVIOUS
<1> DEFINE n == Cardinality({a, b})
<1>4. n = 2
  BY <1>2, <1>3
<1> HIDE DEF n
<1>5. n > 1
  BY <1>4
<1> QED BY <1>5 DEF n

LEMMA SumOfOne ==
  ASSUME NEW f, NEW s, DOMAIN f = {s}, f[s] \in Nat
  PROVE  MapThenSumSet(LAMBDA k : f[k], DOMAIN f) = f[s]
<1> DEFINE D == {s}
           Sum(g) == g = [t \in SUBSET D |->
                            IF t = {} THEN 0
                            ELSE f[CHOOSE x \in t : TRUE] + g[t \ {CHOOSE x \in t : TRUE}]]
<1>1. MapThenSumSet(LAMBDA k : f[k], DOMAIN f) = (CHOOSE g : Sum(g))[D]
  BY DEF MapThenSumSet, MapThenFoldSet
<1>2. (CHOOSE x \in D : TRUE) = s /\ D \ {s} = {} /\ SUBSET D = {{}, D} /\ D # {}
  OBVIOUS
<1>3. \E g : Sum(g)
  <2> DEFINE g == [t \in SUBSET D |-> IF t = {} THEN 0 ELSE f[s]]
  <2>1. g[{}] = 0
    BY <1>2
  <2>2. \A t \in SUBSET D :
          g[t] = IF t = {} THEN 0
                 ELSE f[CHOOSE x \in t : TRUE] + g[t \ {CHOOSE x \in t : TRUE}]
    BY <1>2, <2>1
  <2>3. Sum(g)
    BY <2>2
  <2> QED BY <2>3
<1>4. Sum(CHOOSE g : Sum(g))
  BY <1>3
<1> DEFINE h == CHOOSE g : Sum(g)
<1>5. h = [t \in SUBSET D |->
             IF t = {} THEN 0
             ELSE f[CHOOSE x \in t : TRUE] + h[t \ {CHOOSE x \in t : TRUE}]]
  BY <1>4
<1> HIDE DEF h
<1>6. h[{}] = 0 /\ h[D] = f[s] + h[{}]
  BY <1>2, <1>5
<1>7. h[D] = f[s]
  BY <1>6
<1> QED BY <1>1, <1>7 DEF h

LEMMA PairFlaky ==
  ASSUME NEW status, NEW titles
  PROVE  LET r == Flaky(Pair(status, titles), None).value
         IN  /\ DOMAIN r = {"run_count", "title_sets", "rate", "status_counts", "is_flaky"}
             /\ \/ status # Primary.status
                \/ ToSet(titles) # ToSet(Primary.titles)
                => r.is_flaky
             /\ status = Primary.status =>
                  /\ DOMAIN r.status_counts = {Primary.status}
                  /\ r.status_counts[Primary.status] = 2
<1> DEFINE both == Pair(status, titles)
           statuses == {both[i].status : i \in DOMAIN both}
           sets == {ToSet(both[i].titles) : i \in DOMAIN both}
           counts == [s \in statuses |-> Cardinality({i \in DOMAIN both : both[i].status = s})]
           flaky == Cardinality(statuses) > 1 \/ Cardinality(sets) > 1
           r == Flaky(both, None).value
           first == [id |-> "trace", status |-> Primary.status, titles |-> Primary.titles]
           second == [id |-> "shrunk", status |-> status, titles |-> titles]
<1>1. both = <<first, second>>
  BY DEF Pair
<1>2. first.id # second.id /\ first.status = Primary.status /\ second.status = status
      /\ first.titles = Primary.titles /\ second.titles = titles
  OBVIOUS
<1> HIDE DEF both, first, second
<1>3. Len(both) = 2 /\ DOMAIN both = {1, 2} /\ both[1] = first /\ both[2] = second
  BY <1>1
<1>4. Distinct([i \in DOMAIN both |-> both[i].id])
  BY <1>2, <1>3 DEF Distinct, IsInjective
<1>5. statuses = {Primary.status, status} /\ sets = {ToSet(Primary.titles), ToSet(titles)}
  BY <1>2, <1>3
<1> DEFINE rate == SharePct(Max({Cardinality({j \in DOMAIN both : <<both[j].status, both[j].titles>>
                                                          = <<both[i].status, both[i].titles>>})
                              : i \in DOMAIN both}), Len(both))
           report == [run_count |-> Len(both), title_sets |-> sets, rate |-> rate,
                      status_counts |-> counts, is_flaky |-> flaky]
<1>6. Flaky(both, None) = Ok(report)
  <2>1. Flaky(both, None) = IF \/ Len(both) < 2 \/ ~Distinct([i \in DOMAIN both |-> both[i].id])
                               \/ None # None /\ rate > None
                            THEN Err ELSE Ok(report)
    BY DEF Flaky
  <2> HIDE DEF report, rate
  <2> DEFINE n == Len(both)
  <2>2. n = 2
    BY <1>3
  <2> HIDE DEF n
  <2>3. ~(n < 2)
    BY <2>2
  <2> QED BY <1>4, <2>1, <2>3 DEF n
<1> HIDE DEF rate
<1> HIDE DEF statuses, sets, counts, flaky
<1>7. /\ DOMAIN r = {"run_count", "title_sets", "rate", "status_counts", "is_flaky"}
      /\ r.status_counts = counts /\ r.is_flaky = flaky
  BY <1>6 DEF Ok
<1>8. status # Primary.status \/ ToSet(titles) # ToSet(Primary.titles) => flaky
  BY <1>5, TwoDiffer DEF flaky
<1>9. ASSUME status = Primary.status
      PROVE  DOMAIN counts = {Primary.status} /\ counts[Primary.status] = 2
  <2>1. statuses = {Primary.status}
    BY <1>5, <1>9
  <2>2. {i \in DOMAIN both : both[i].status = Primary.status} = {1, 2}
    BY <1>2, <1>3, <1>9
  <2>3. Cardinality({1, 2}) = 2
    <3>1. IsFiniteSet({1}) /\ Cardinality({1}) = 1
      BY FS_Singleton
    <3>2. Cardinality({1} \cup {2}) = 2
      BY <3>1, FS_AddElement
    <3>3. {1} \cup {2} = {1, 2}
      OBVIOUS
    <3> QED BY <3>2, <3>3
  <2> QED BY <2>1, <2>2, <2>3 DEF counts
<1> QED BY <1>7, <1>8, <1>9 DEF both

LEMMA ReportFlakyKeeps ==
  ASSUME WorkflowInv, ReportFlaky
  PROVE  WorkflowInv'
<1> DEFINE Twice(status, titles) == Flaky(Pair(status, titles), None).value
           good == Twice(Primary.status, Primary.titles)
           bad == {Twice(Flipped(Primary.status), Primary.titles),
                   Twice(Primary.status, Primary.titles \o <<"other">>),
                   [good EXCEPT !.rate = 50], [good EXCEPT !.run_count = 3]}
           name == "report_flaky"
<1>1. PICK answer \in Answers(good, bad) :
        Answered(name, answer, FlakyReportStatus(answer.value))
  BY DEF ReportFlaky, Direct, Answered
<1>2. FlakyReportStatus(answer.value) \in Statuses
  BY DEF FlakyReportStatus, PassedIf, Statuses
<1>3. name \in PlainNames /\ name \in MenuNames \ FirstNames
  BY DEF PlainNames, MenuNames, FirstNames
<1>4. ASSUME ~AnyFailed(steps), NEW b \in bad PROVE FlakyReportStatus(b) = "failed"
  <2>1. Primary # None
    BY <1>1, <1>3, <1>4, FoundBefore DEF Unfailed, Answered, AtStep
  <2>2. ASSUME b.is_flaky PROVE FlakyReportStatus(b) = "failed"
    BY <2>2 DEF FlakyReportStatus, PassedIf
  <2>3. CASE b = Twice(Flipped(Primary.status), Primary.titles)
    <3>1. Flipped(Primary.status) # Primary.status
      BY DEF Flipped
    <3>2. b.is_flaky
      BY <2>3, <3>1, PairFlaky
    <3> QED BY <2>2, <3>2
  <2>4. CASE b = Twice(Primary.status, Primary.titles \o <<"other">>)
    <3> DEFINE old == Primary.titles
               new == old \o <<"other">>
    <3>1. old \in Seq(STRING \ {"other"})
      BY <2>1, PrimaryIs
    <3> HIDE DEF old
    <3>2. "other" \notin ToSet(old)
      BY <3>1 DEF ToSet
    <3>3. Len(old) + 1 \in DOMAIN new /\ new[Len(old) + 1] = "other"
      BY <3>1
    <3>4. "other" \in ToSet(new)
      BY <3>3 DEF ToSet
    <3>5. ToSet(new) # ToSet(old)
      BY <3>2, <3>4
    <3> HIDE DEF new
    <3>6. b = Flaky(Pair(Primary.status, new), None).value
      BY <2>4 DEF new, old
    <3>7. b.is_flaky
      BY <3>5, <3>6, PairFlaky DEF old
    <3> QED BY <2>2, <3>7
  <2>5. /\ DOMAIN good = {"run_count", "title_sets", "rate", "status_counts", "is_flaky"}
        /\ DOMAIN good.status_counts = {Primary.status}
        /\ good.status_counts[Primary.status] = 2
    BY PairFlaky
  <2> HIDE DEF good
  <2>6. CASE b = [good EXCEPT !.rate = 50]
    <3>1. b.rate = 50
      BY <2>5, <2>6
    <3>2. b.rate # 0
      BY <3>1
    <3> QED BY <3>2 DEF FlakyReportStatus, PassedIf
  <2>7. CASE b = [good EXCEPT !.run_count = 3]
    <3> DEFINE counts == b.status_counts
               s == Primary.status
    <3>1. b.run_count = 3 /\ counts = good.status_counts
      BY <2>5, <2>7
    <3> HIDE DEF counts, s
    <3>2. DOMAIN counts = {s} /\ counts[s] = 2 /\ counts[s] \in Nat
      BY <2>5, <3>1 DEF s
    <3>3. MapThenSumSet(LAMBDA k : counts[k], DOMAIN counts) = counts[s]
      BY <3>2, SumOfOne
    <3>4. MapThenSumSet(LAMBDA k : b.status_counts[k], DOMAIN b.status_counts) # b.run_count
      BY <3>1, <3>2, <3>3 DEF counts
    <3> QED BY <3>4 DEF FlakyReportStatus, PassedIf
  <2> QED BY <1>4, <2>3, <2>4, <2>6, <2>7
<1> HIDE DEF good, bad, Twice
<1> QED BY <1>1, <1>2, <1>3, <1>4, AnswersAre, JudgedKeepsInv

LEMMA MemoryTopKeeps ==
  ASSUME WorkflowInv, MemoryTopStep
  PROVE  WorkflowInv'
<1> DEFINE good == MemoryTop(Loaded, 10)
           name == "memory_top"
<1>1. PICK answer \in Answers(good, {}) : Answered(name, answer, MemoryTopStatus(answer.value))
  BY DEF MemoryTopStep, Direct, Answered
<1>2. MemoryTopStatus(answer.value) \in Statuses
  BY DEF MemoryTopStatus, PassedIf, Statuses
<1>3. name \in PlainNames
  BY DEF PlainNames, MenuNames
<1> HIDE DEF good, name
<1> QED BY <1>1, <1>2, <1>3, AnswersAre, JudgedKeepsInv

LEMMA MemoryGraphKeeps ==
  ASSUME WorkflowInv, MemoryGraphStep
  PROVE  WorkflowInv'
<1> DEFINE node == <<"alloc", 1>>
           other == <<"alloc", 2>>
           edge == [from |-> node, to |-> other, kind |-> "freed_by"]
           good == Loaded.graph
           bad == {[nodes |-> <<node, node>>, edges |-> <<>>], [nodes |-> <<node>>, edges |-> <<edge>>]}
           name == "memory_graph"
<1>1. PICK answer \in Answers(good, bad) : Answered(name, answer, MemoryGraphStatus(answer.value))
  BY DEF MemoryGraphStep, Direct, Answered
<1>2. MemoryGraphStatus(answer.value) \in Statuses
  BY DEF MemoryGraphStatus, PassedIf, Statuses
<1>3. name \in PlainNames
  BY DEF PlainNames, MenuNames
<1>4. ASSUME NEW b \in bad PROVE MemoryGraphStatus(b) = "failed"
  <2>1. CASE b = [nodes |-> <<node, node>>, edges |-> <<>>]
    <3> DEFINE twice == <<node, node>>
    <3>1. b.nodes = twice
      BY <2>1
    <3>2. 1 \in DOMAIN twice /\ 2 \in DOMAIN twice /\ twice[1] = twice[2] /\ 1 # 2
      BY PairIs
    <3> HIDE DEF twice
    <3>3. ~Distinct(b.nodes)
      BY <3>1, <3>2, AlikeNotDistinct
    <3>4. b.nodes # <<>>
      BY <3>1, <3>2
    <3> QED BY <3>3, <3>4 DEF MemoryGraphStatus, PassedIf
  <2>2. CASE b = [nodes |-> <<node>>, edges |-> <<edge>>]
    <3>1. b.nodes = <<node>> /\ b.edges = <<edge>>
      BY <2>2
    <3>2. 1 \in DOMAIN b.edges /\ b.edges[1] = edge
      <4>1. 1 \in DOMAIN <<edge>> /\ <<edge>>[1] = edge
        BY SingleIs
      <4> QED BY <3>1, <4>1, Zenon
    <3>3. edge.to = other /\ other # node
      OBVIOUS
    <3> HIDE DEF other, node
    <3>4. other \notin ToSet(b.nodes)
      BY <3>1, <3>3 DEF ToSet
    <3> HIDE DEF edge
    <3>5. ~({b.edges[1].from, b.edges[1].to} \subseteq ToSet(b.nodes))
      BY <3>2, <3>3, <3>4
    <3>6. b.nodes # <<>>
      BY <3>1
    <3> QED BY <3>2, <3>5, <3>6 DEF MemoryGraphStatus, PassedIf
  <2> QED BY <2>1, <2>2
<1> HIDE DEF good, bad, name
<1> QED BY <1>1, <1>2, <1>3, <1>4, AnswersAre, JudgedKeepsInv

LEMMA MemoryDiffKeeps ==
  ASSUME WorkflowInv, MemoryDiffStep
  PROVE  WorkflowInv'
<1> DEFINE good == MemoryDiff(Loaded, Loaded)
           other == [Loaded EXCEPT !.summary.peak_bytes = @ + 1]
           bad == {MemoryDiff(Loaded, other), [good EXCEPT !.leaked = 1]}
           name == "memory_diff"
<1>1. PICK answer \in Answers(good, bad) : Answered(name, answer, MemoryDiffStatus(answer.value))
  BY DEF MemoryDiffStep, Direct, Answered
<1>2. MemoryDiffStatus(answer.value) \in Statuses
  BY DEF MemoryDiffStatus, PassedIf, Statuses
<1>3. name \in PlainNames /\ name \in MenuNames \ FirstNames
  BY DEF PlainNames, MenuNames, FirstNames
<1>4. ASSUME ~AnyFailed(steps), NEW b \in bad PROVE MemoryDiffStatus(b) = "failed"
  <2>1. Primary # None
    BY <1>1, <1>3, <1>4, FoundBefore DEF Unfailed, Answered, AtStep
  <2>2. CASE b = MemoryDiff(Loaded, other)
    <3> DEFINE M == MemoryOf(setup, Primary)
               S == M.summary
    <3>1. M # None /\ Primary.peak \in Nat
      BY <2>1, PrimaryIs
    <3>2. RecordedRun(Primary).memory = M
      BY DEF RecordedRun
    <3>3. DOMAIN S = {"leaked_bytes", "leaked_allocs", "peak_bytes"} /\ S.peak_bytes = Primary.peak
      BY DEF MemoryOf
    <3> HIDE DEF S
    <3>4. Loaded = [summary |-> M.summary, leaks |-> M.leaks, timeline |-> <<>>, graph |-> M.graph]
      BY <3>1, <3>2 DEF Loaded, LoadFromTrace, Ok
    <3>5. DOMAIN Loaded = {"summary", "leaks", "timeline", "graph"} /\ Loaded.summary = S
      BY <3>4 DEF S
    <3>6. other.summary = [S EXCEPT !.peak_bytes = @ + 1]
      BY <3>5
    <3> HIDE DEF other
    <3>7. other.summary.peak_bytes = Primary.peak + 1
      BY <3>3, <3>6
    <3>8. b.peak = (Primary.peak + 1) - Primary.peak
      BY <2>2, <3>3, <3>5, <3>7 DEF MemoryDiff
    <3>9. b.peak # 0
      BY <3>1, <3>8
    <3> QED BY <3>9 DEF MemoryDiffStatus, PassedIf
  <2>3. CASE b = [good EXCEPT !.leaked = 1]
    <3>1. DOMAIN good = {"left", "right", "leaked", "allocs", "peak"}
      BY DEF MemoryDiff
    <3> HIDE DEF good
    <3>2. b.leaked = 1
      BY <2>3, <3>1
    <3>3. b.leaked # 0
      BY <3>2
    <3> QED BY <3>3 DEF MemoryDiffStatus, PassedIf
  <2> QED BY <1>4, <2>2, <2>3
<1> HIDE DEF good, bad, name
<1> QED BY <1>1, <1>2, <1>3, <1>4, AnswersAre, JudgedKeepsInv

LEMMA VerdictIs ==
  ASSUME NEW row
  PROVE  LET verdict == DerivedSummary(<<row>>).verdict
         IN  /\ row.class = "regression" /\ row.significant => verdict = "regression_detected"
             /\ row.class = "improvement" => verdict = "improvement"
             /\ row.class = "stable" => verdict = "stable"
<1> DEFINE rows == <<row>>
<1>1. DOMAIN rows = {1} /\ rows[1] = row
  OBVIOUS
<1> DEFINE regressed == {i \in DOMAIN rows : rows[i].class = "regression"}
           significant == {i \in regressed : rows[i].significant}
           improved == {i \in DOMAIN rows : rows[i].class = "improvement"}
<1>2. DerivedSummary(rows).verdict = IF significant # {} THEN "regression_detected"
                                     ELSE IF regressed # {} THEN "minor_regression"
                                     ELSE IF improved # {} THEN "improvement" ELSE "stable"
  BY DEF DerivedSummary
<1> HIDE DEF rows
<1>3. /\ regressed # {} <=> row.class = "regression"
      /\ improved # {} <=> row.class = "improvement"
  BY <1>1
<1>4. significant # {} <=> row.class = "regression" /\ row.significant
  BY <1>1, Zenon
<1> HIDE DEF regressed, significant, improved
<1> QED BY <1>2, <1>3, <1>4 DEF rows

LEMMA DiffIs ==
  ASSUME NEW row
  PROVE  LET d == DiffOf(row)
         IN  /\ DOMAIN d = {"rows", "domains", "summary"} /\ d.rows = <<row>>
             /\ d.domains = <<"latency">> /\ d.summary = DerivedSummary(<<row>>)
BY DEF DiffOf

LEMMA RowIs ==
  /\ DOMAIN Row = {"metric", "domain", "class", "significant"}
  /\ Row.class = "stable" /\ Row.significant = FALSE /\ Row.domain = "latency"
BY DEF Row

LEMMA BadDiffRejected ==
  ASSUME NEW b \in BadDiffs, NEW strict
  PROVE  ProfileDiffStatus(b, strict) = "failed"
<1> DEFINE regression == [Row EXCEPT !.class = "regression", !.significant = TRUE]
           improvement == [Row EXCEPT !.class = "improvement"]
           odd == [Row EXCEPT !.significant = TRUE]
<1>1. /\ regression.class = "regression" /\ regression.significant = TRUE
      /\ improvement.class = "improvement" /\ improvement.significant = FALSE
      /\ odd.class = "stable" /\ odd.significant = TRUE
  BY RowIs
<1>2. Worse = DiffOf(regression) /\ Faster = DiffOf(improvement) /\ Stable = DiffOf(Row)
  BY DEF Worse, Faster, Stable
<1> HIDE DEF regression, improvement, odd
<1>3. DerivedSummary(<<regression>>).verdict = "regression_detected"
  <2>1. regression.class = "regression" /\ regression.significant
    BY <1>1
  <2> QED BY <2>1, VerdictIs, Zenon
<1>4. DerivedSummary(<<improvement>>).verdict = "improvement"
  BY <1>1, VerdictIs
<1>5. DerivedSummary(<<Row>>).verdict = "stable"
  BY RowIs, VerdictIs
<1>6. ASSUME b.summary # DerivedSummary(b.rows) PROVE ProfileDiffStatus(b, strict) = "failed"
  BY <1>6 DEF ProfileDiffStatus, ProfileDiffConsistent, PassedIf
<1>7. CASE b = Worse
  <2>1. b.summary = DerivedSummary(<<regression>>)
    BY <1>2, <1>7, DiffIs
  <2>2. b.summary.verdict = "regression_detected"
    BY <1>3, <2>1
  <2> QED BY <2>2 DEF ProfileDiffStatus, PassedIf
<1>8. CASE b = [Stable EXCEPT !.rows = Worse.rows]
  <2>1. /\ DOMAIN Stable = {"rows", "domains", "summary"} /\ Stable.summary = DerivedSummary(<<Row>>)
        /\ Worse.rows = <<regression>>
    BY <1>2, DiffIs
  <2>2. b.summary = DerivedSummary(<<Row>>) /\ b.rows = <<regression>>
    BY <1>8, <2>1
  <2>3. b.summary.verdict # DerivedSummary(b.rows).verdict
    BY <1>3, <1>5, <2>2
  <2> QED BY <1>6, <2>3
<1>9. CASE b = [Faster EXCEPT !.summary = Stable.summary]
  <2>1. /\ DOMAIN Faster = {"rows", "domains", "summary"} /\ Stable.summary = DerivedSummary(<<Row>>)
        /\ Faster.rows = <<improvement>>
    BY <1>2, DiffIs
  <2>2. b.summary = DerivedSummary(<<Row>>) /\ b.rows = <<improvement>>
    BY <1>9, <2>1
  <2>3. b.summary.verdict # DerivedSummary(b.rows).verdict
    BY <1>4, <1>5, <2>2
  <2> QED BY <1>6, <2>3
<1>10. CASE b = [Stable EXCEPT !.domains = <<"io">>]
  <2>1. DOMAIN Stable = {"rows", "domains", "summary"} /\ Stable.rows = <<Row>>
    BY <1>2, DiffIs
  <2>2. b.domains = <<"io">> /\ b.rows = <<Row>>
    BY <1>10, <2>1
  <2>3. "io" \in ToSet(b.domains)
    <3>1. 1 \in DOMAIN <<"io">> /\ <<"io">>[1] = "io"
      BY SingleIs
    <3>2. "io" \in ToSet(<<"io">>)
      BY <3>1 DEF ToSet
    <3> QED BY <2>2, <3>2
  <2>4. "io" \notin {b.rows[i].domain : i \in DOMAIN b.rows}
    <3> DEFINE rows == b.rows
    <3>1. DOMAIN rows = {1} /\ rows[1] = Row
      BY <2>2
    <3> HIDE DEF rows
    <3>2. "io" \notin {rows[i].domain : i \in DOMAIN rows}
      BY <3>1, RowIs
    <3> QED BY <3>2 DEF rows
  <2>5. ToSet(b.domains) # {b.rows[i].domain : i \in DOMAIN b.rows}
    BY <2>3, <2>4
  <2> QED BY <2>5 DEF ProfileDiffStatus, ProfileDiffConsistent, PassedIf
<1>11. CASE b = DiffOf(odd)
  <2>1. b.rows = <<odd>>
    BY <1>11, DiffIs
  <2>2. 1 \in DOMAIN b.rows /\ b.rows[1] = odd
    <3>1. 1 \in DOMAIN <<odd>> /\ <<odd>>[1] = odd
      BY SingleIs
    <3> QED BY <2>1, <3>1, Zenon
  <2>3. ~RowOk(odd)
    BY <1>1 DEF RowOk
  <2> QED BY <2>2, <2>3 DEF ProfileDiffStatus, ProfileDiffConsistent, PassedIf
<1> QED BY <1>7, <1>8, <1>9, <1>10, <1>11 DEF BadDiffs, odd

LEMMA ProfileDiffKeeps ==
  ASSUME WorkflowInv, ProfileDiffStep
  PROVE  WorkflowInv'
<1> DEFINE good == Faster
           bad == BadDiffs
           verdict(v) == ProfileDiffStatus(v, FALSE)
<1>1. PICK answer \in Answers(good, bad) : Answered("profile_diff", answer, verdict(answer.value))
  BY DEF ProfileDiffStep, Direct, Answered
<1>2. verdict(answer.value) \in Statuses
  BY DEF ProfileDiffStatus, PassedIf, Statuses
<1>3. "profile_diff" \in PlainNames
  BY DEF PlainNames, MenuNames
<1>4. \A b \in bad : verdict(b) = "failed"
  BY BadDiffRejected
<1> HIDE DEF good, bad, verdict
<1> QED BY <1>1, <1>2, <1>3, <1>4, AnswersAre, JudgedKeepsInv

LEMMA GateProfileDiffKeeps ==
  ASSUME WorkflowInv, GateProfileDiff
  PROVE  WorkflowInv'
<1>1. ~Full /\ Gate
  BY DEF GateProfileDiff, Full, Gate
<1>2. /\ "profile_diff" \in PlainNames
      /\ "profile_diff" \in MenuNames \ {"clean_tree", "run_record_trace", "shrink", "replay",
                                         "discover_scenarios", "scope_match"}
      /\ "profile_diff" \notin RanScenario
  BY DEF PlainNames, MenuNames, RanScenario
<1>3. CASE ~run.replayed
  <2>1. AtStep("profile_diff") /\ Skipped(<<"profile_diff">>, "profile_explain")
    BY <1>3 DEF GateProfileDiff
  <2>2. After("profile_diff") = "profile_explain"
    BY <1>1, GateAfter
  <2> QED BY <1>2, <2>1, <2>2, SkippedKeepsInv
<1>4. CASE run.replayed
  <2> DEFINE good == Stable
             bad == BadDiffs \cup {Faster}
             strict == TRUE
             verdict(v) == ProfileDiffStatus(v, strict)
  <2>1. PICK answer \in Answers(good, bad) : Answered("profile_diff", answer, verdict(answer.value))
    BY <1>4 DEF GateProfileDiff, Direct, Answered
  <2>2. verdict(answer.value) \in Statuses
    BY DEF ProfileDiffStatus, PassedIf, Statuses
  <2>3. \A b \in BadDiffs : verdict(b) = "failed"
    BY BadDiffRejected
  <2>4. verdict(Faster) = "failed"
    <3> DEFINE improvement == [Row EXCEPT !.class = "improvement"]
    <3>1. improvement.class = "improvement" /\ improvement.significant = FALSE
      BY RowIs
    <3>2. Faster = DiffOf(improvement)
      BY DEF Faster
    <3> HIDE DEF improvement
    <3>3. DerivedSummary(<<improvement>>).verdict = "improvement"
      BY <3>1, VerdictIs
    <3>4. Faster.summary.verdict = "improvement"
      BY <3>2, <3>3, DiffIs
    <3>5. Faster.summary.verdict # "stable"
      BY <3>4
    <3> QED BY <3>5 DEF ProfileDiffStatus, PassedIf
  <2>5. \A b \in bad : verdict(b) = "failed"
    BY <2>3, <2>4
  <2> HIDE DEF good, bad, verdict
  <2> QED BY <1>2, <2>1, <2>2, <2>5, AnswersAre, JudgedKeepsInv
<1> QED BY <1>3, <1>4

LEMMA ProfileExplainKeeps ==
  ASSUME WorkflowInv, ProfileExplain
  PROVE  WorkflowInv'
<1> DEFINE good == Explained
           name == "profile_explain"
<1>1. PICK answer \in Answers(good, {}) :
        Answered(name, answer, ProfileExplainStatus(answer.value))
  BY DEF ProfileExplain, Direct, Answered
<1>2. ProfileExplainStatus(answer.value) \in Statuses
  BY DEF ProfileExplainStatus, Statuses
<1>3. name \in PlainNames
  BY DEF PlainNames, MenuNames
<1> HIDE DEF good, name
<1> QED BY <1>1, <1>2, <1>3, AnswersAre, JudgedKeepsInv

-----------------------------------------------------------------------------
(* The steps that call no command.                                         *)

SpecialNames ==
  {"run_record_trace", "shrink", "replay", "discover_scenarios", "scope_match"}

(* Nothing but entries are pushed, and none of a step that is kept track of. *)
LEMMA QuietKeepsInv ==
  ASSUME WorkflowInv, ~Ended, setup.command # "ci", waiting = None,
         UNCHANGED <<setup, waiting, aborted, run, temps, disk, worker, faulty, exit>>,
         pc' \notin {"reported", "exited"}, NEW entries \in Seq(StepRecords),
         steps' = steps \o entries, PlaceInv',
         \A k \in DOMAIN entries : entries[k].name \notin RanScenario \cup SpecialNames
  PROVE  WorkflowInv'
<1>1. WellJudged(entries)
  <2>1. \A n \in RanScenario \cup SpecialNames : ~Pushed(entries, n)
    BY DEF Pushed
  <2> QED BY <2>1 DEF WellJudged, SpecialNames
<1>2. GreenInv'
  BY <1>1, PushesKeepGreen
<1>3. FilesInv' /\ WaitInv'
  BY PushesKeepFiles
<1>4. steps' \in Seq(StepRecords)
  BY ConcatProperties DEF WorkflowInv
<1>5. ExitInv'
  <2>1. ~Ended' /\ exit = None
    BY DEF Ended, WorkflowInv, ExitInv
  <2> QED BY <2>1 DEF ExitInv
<1>6. setup' \in Setups /\ RunInv' /\ CiInv'
  BY DEF WorkflowInv, RunInv, CiInv
<1> QED BY <1>2, <1>3, <1>4, <1>5, <1>6 DEF WorkflowInv

LEMMA CleanTreeKeeps ==
  ASSUME WorkflowInv, CleanTree
  PROVE  WorkflowInv'
<1> DEFINE status == IF Strict THEN GitStatus[setup.git] ELSE "skipped"
           entry == [name |-> "clean_tree", status |-> status]
<1>1. /\ pc = "clean_tree" /\ waiting = None
      /\ UNCHANGED <<setup, waiting, aborted, run, temps, disk, worker, faulty, exit>>
      /\ pc' = IF Full THEN "policy_conflict" ELSE After("clean_tree")
      /\ steps' = Append(steps, entry)
  BY DEF CleanTree, AtStep, Push
<1>2. setup.command # "ci" /\ ~Ended /\ AtMenu(1)
  <2>1. pc \in MenuNames /\ 1 \in 1..Len(Menu) /\ pc = Menu[1]
    BY <1>1, MenuIs DEF MenuNames
  <2> QED BY <2>1, OnMenu, PlaceOf
<1>3. entry \in StepRecords
  <2>1. setup.git \in DOMAIN GitStatus
    BY SetupsAssumption DEF WorkflowInv
  <2>2. status \in Statuses
    BY <2>1 DEF GitStatus, Statuses
  <2> QED BY <2>2 DEF StepRecords, StepNames, MenuNames
<1> HIDE DEF entry
<1>4. steps = <<>> /\ steps \in Seq(StepRecords)
  BY <1>2 DEF AtMenu, WorkflowInv
<1>5. /\ steps' = steps \o <<entry>> /\ Len(steps') = 1 /\ DOMAIN steps' = {1} /\ steps'[1] = entry
      /\ <<entry>> \in Seq(StepRecords) /\ DOMAIN <<entry>> = {1} /\ <<entry>>[1] = entry
  BY <1>1, <1>3, <1>4
<1>6. Menu' = Menu /\ Shift' = Shift /\ Surface' = Surface /\ Full' = Full
  BY <1>1, SameMenu
<1>7. entry.name = "clean_tree"
  BY DEF entry
<1>8. pc' \notin {"reported", "exited"} /\ PlaceInv'
  <2>1. \A k \in DOMAIN steps' : steps'[k].name = Surface'[k]
    BY <1>5, <1>6, <1>7, SurfaceIs
  <2>2. CASE Full
    BY <1>1, <1>5, <1>6, <2>1, <2>2 DEF PlaceInv
  <2>3. CASE ~Full
    <3>1. pc' = "discover" /\ Menu[2] = "discover" /\ Len(Menu) = 12
      BY <1>1, <2>3, GateAfter, GateMenuIs DEF Menu
    <3>2. Shift = 0
      BY <2>3 DEF Shift
    <3>3. 2 \in 1..Len(Menu') /\ AtMenu(2)'
      BY <1>5, <1>6, <3>1, <3>2 DEF AtMenu
    <3> QED BY <2>1, <3>1, <3>3 DEF PlaceInv
  <2> QED BY <2>2, <2>3
<1>9. "clean_tree" \notin RanScenario \cup SpecialNames
  BY DEF RanScenario, SpecialNames
<1> QED BY <1>1, <1>2, <1>5, <1>7, <1>8, <1>9, QuietKeepsInv

LEMMA NotOnMenu ==
  ASSUME WorkflowInv, pc \in {"policy_conflict", "finish", "reported", "exited", "ci_command"}
  PROVE  ~ \E i \in 1..Len(Menu) : AtMenu(i)
BY MenuRange DEF AtMenu

LEMMA PolicyConflictKeeps ==
  ASSUME WorkflowInv, PolicyConflict
  PROVE  WorkflowInv'
<1> DEFINE entry == [name |-> "policy_conflict", status |-> "failed"]
           entries == IF Conflict THEN <<entry>> ELSE <<>>
<1>1. /\ pc = "policy_conflict" /\ waiting = None /\ pc' = "usage"
      /\ UNCHANGED <<setup, waiting, aborted, run, temps, disk, worker, faulty, exit>>
      /\ steps' = IF Conflict THEN Append(steps, entry) ELSE steps
  BY DEF PolicyConflict, AtStep, Push
<1>2. setup.command # "ci" /\ ~Ended
  BY <1>1 DEF Ended, WorkflowInv, CiInv
<1>3. Full /\ Len(steps) = 1 /\ steps \in Seq(StepRecords)
      /\ \A k \in DOMAIN steps : steps[k].name = Surface[k]
  BY <1>1, <1>2, NotOnMenu DEF WorkflowInv, PlaceInv, Ended
<1>4. entry \in StepRecords /\ entry.name = "policy_conflict"
  BY DEF StepRecords, StepNames, Statuses
<1> HIDE DEF entry
<1>5. /\ steps' = steps \o entries /\ entries \in Seq(StepRecords)
      /\ \A k \in DOMAIN entries : entries[k] = entry
  BY <1>1, <1>3, <1>4
<1>6. /\ DOMAIN steps' = 1..(1 + Shift) /\ Len(steps') = 1 + Shift /\ steps'[1] = steps[1]
      /\ Conflict => steps'[2] = entry
      /\ Shift = (IF Conflict THEN 1 ELSE 0) /\ 1 \in DOMAIN steps
  <2>1. DOMAIN steps = {1}
    BY <1>3
  <2>2. CASE Conflict
    <3>1. steps' = Append(steps, entry) /\ Shift = 1
      BY <1>1, <1>3, <2>2 DEF Shift
    <3>2. Len(steps') = 2 /\ DOMAIN steps' = 1..2 /\ steps'[1] = steps[1] /\ steps'[2] = entry
      <4> DEFINE n == Len(steps)
                 new == Append(steps, entry)
      <4>1. /\ new \in Seq(StepRecords) /\ Len(new) = n + 1 /\ new[n + 1] = entry
            /\ \A i \in 1..n : new[i] = steps[i]
        <5>1. steps \in Seq(StepRecords) /\ entry \in StepRecords
          BY <1>3, <1>4
        <5> QED BY <5>1, AppendProperties
      <4>2. n = 1 /\ DOMAIN new = 1..Len(new)
        BY <1>3, <4>1, LenProperties
      <4> HIDE DEF n, new
      <4>3. n + 1 = 2 /\ 1 \in 1..n
        BY <4>2
      <4>4. Len(new) = 2 /\ new[2] = entry /\ new[1] = steps[1]
        BY <4>1, <4>3
      <4> QED BY <3>1, <4>2, <4>4 DEF new
    <3> QED BY <2>1, <2>2, <3>1, <3>2
  <2>3. CASE ~Conflict
    <3>1. steps' = steps /\ Shift = 0
      BY <1>1, <2>3 DEF Shift
    <3> QED BY <1>3, <2>1, <2>3, <3>1
  <2> QED BY <2>2, <2>3
<1>7. Menu' = Menu /\ Shift' = Shift /\ Surface' = Surface /\ Full' = Full
  BY <1>1, SameMenu
<1>8. PlaceInv'
  <2>1. \A k \in DOMAIN steps' : steps'[k].name = Surface'[k]
    <3>1. steps'[1].name = Surface[1]
      BY <1>3, <1>6
    <3>2. Conflict => steps'[2].name = Surface[2]
      BY <1>3, <1>4, <1>6, SurfaceIs
    <3>3. \A k \in DOMAIN steps' : k = 1 \/ (Conflict /\ k = 2)
      BY <1>6
    <3> QED BY <1>7, <3>1, <3>2, <3>3
  <2>2. Menu[2] = "usage" /\ Len(Menu) = 37
    BY <1>3, FullMenuIs DEF Menu
  <2>3. 2 \in 1..Len(Menu') /\ AtMenu(2)'
    BY <1>1, <1>6, <1>7, <2>2 DEF AtMenu
  <2> QED BY <2>1, <2>3 DEF PlaceInv
<1>9. "policy_conflict" \notin RanScenario \cup SpecialNames
  BY DEF RanScenario, SpecialNames
<1> HIDE DEF entries
<1> QED BY <1>1, <1>2, <1>4, <1>5, <1>8, <1>9, QuietKeepsInv

LEMMA UsageAndVersionKeeps ==
  ASSUME WorkflowInv, UsageAndVersion
  PROVE  WorkflowInv'
<1> DEFINE e1 == [name |-> "usage", status |-> "passed"]
           e2 == [name |-> "version", status |-> "passed"]
           entries == <<e1, e2>>
<1>1. /\ pc = "usage" /\ waiting = None /\ pc' = "init" /\ steps' = steps \o entries
      /\ UNCHANGED <<setup, waiting, aborted, run, temps, disk, worker, faulty, exit>>
  BY DEF UsageAndVersion, AtStep
<1>2. pc \in MenuNames \ GateNames
  BY <1>1 DEF MenuNames, GateNames
<1>3. Menu = FullMenu /\ Len(Menu) = 37 /\ Menu[2] = "usage" /\ Menu[3] = "version"
      /\ Menu[4] = "init"
  BY <1>2, OnlyFull, FullMenuIs DEF Menu
<1>4. AtMenu(2)
  BY <1>1, <1>2, <1>3, PlaceOf
<1>5. e1 \in StepRecords /\ e2 \in StepRecords /\ e1.name = "usage" /\ e2.name = "version"
  BY DEF StepRecords, StepNames, MenuNames, Statuses
<1> HIDE DEF e1, e2
<1>6. entries \in Seq(StepRecords) /\ Len(entries) = 2 /\ entries[1] = e1 /\ entries[2] = e2
      /\ DOMAIN entries = {1, 2}
  BY <1>5
<1> HIDE DEF entries
<1>7. Aligned(2, entries)
  <2>1. \A k \in 1..Len(entries) : entries[k].name = Menu[2 + k - 1]
    BY <1>3, <1>5, <1>6
  <2> QED BY <1>3, <1>4, <1>6, <2>1 DEF Aligned
<1>8. Onward(2, entries)
  BY <1>1, <1>3, <1>6 DEF Onward
<1>9. WellJudged(entries)
  <2>1. \A n \in RanScenario \cup SpecialNames : ~Pushed(entries, n)
    BY <1>5, <1>6 DEF Pushed, RanScenario, SpecialNames
  <2> QED BY <1>1, <2>1 DEF WellJudged, SpecialNames
<1>10. 2 \in 2..Len(Menu)
  BY <1>3
<1> QED BY <1>1, <1>7, <1>8, <1>9, <1>10, PushingKeepsInv DEF Pushing

LEMMA GateDiscoverKeeps ==
  ASSUME WorkflowInv, GateDiscover
  PROVE  WorkflowInv'
<1> DEFINE status == PassedIf(~Unreadable /\ Files("steps") # {})
<1>1. /\ pc = "discover" /\ waiting = None /\ waiting' = None /\ pc' = "scope_match"
      /\ steps' = Push("discover", status)
      /\ UNCHANGED <<setup, waiting, aborted, run, temps, disk, worker, faulty, exit>>
  BY DEF GateDiscover, AtStep
<1>2. status \in Statuses
  BY DEF PassedIf, Statuses
<1> HIDE DEF status
<1>3. After("discover") = "scope_match"
  BY <1>1, OnlyGate, GateAfter
<1>4. "discover" \in MenuNames \ {"clean_tree"} /\ "discover" \notin RanScenario
  BY DEF MenuNames, RanScenario
<1>5. Pushes("discover", status, FALSE)
  BY <1>1, <1>2, <1>3, <1>4 DEF Pushes
<1> QED BY <1>5, PushesKeepInv

LEMMA ScopeMatchKeeps ==
  ASSUME WorkflowInv, ScopeMatch
  PROVE  WorkflowInv'
<1> DEFINE status == PassedIf(Primary # None)
<1>1. /\ pc = "scope_match" /\ waiting = None /\ waiting' = None
      /\ pc' = IF Primary = None THEN "finish" ELSE "doctor_deep"
      /\ steps' = Push("scope_match", status)
      /\ UNCHANGED <<setup, waiting, aborted, run, temps, disk, worker, faulty, exit>>
  BY DEF ScopeMatch, AtStep
<1>2. status \in Statuses /\ (status = "failed" <=> Primary = None)
  BY DEF PassedIf, Statuses
<1> HIDE DEF status
<1>3. After("scope_match") = "doctor_deep"
  BY <1>1, OnlyGate, GateAfter
<1>4. "scope_match" \in MenuNames \ {"clean_tree"} /\ "scope_match" \notin RanScenario
  BY DEF MenuNames, RanScenario
<1>5. Pushes("scope_match", status, FALSE)
  BY <1>1, <1>2, <1>3, <1>4 DEF Pushes
<1> QED BY <1>5, PushesKeepInv

LEMMA EnvKeeps ==
  ASSUME WorkflowInv, Env
  PROVE  WorkflowInv'
<1> DEFINE status == EnvStepStatus(setup.backends)
<1>1. /\ pc = "env" /\ waiting = None /\ waiting' = None /\ pc' = "finish"
      /\ steps' = Push("env", status)
      /\ UNCHANGED <<setup, waiting, aborted, run, temps, disk, worker, faulty, exit>>
  BY DEF Env, AtStep
<1>2. status \in Statuses
  BY DEF EnvStepStatus, PassedIf, Statuses
<1> HIDE DEF status
<1>3. "env" \in MenuNames \ {"clean_tree"} /\ "env" \notin RanScenario /\ "env" \notin GateNames
  BY DEF MenuNames, RanScenario, GateNames
<1>4. After("env") = "finish"
  BY <1>1, <1>3, OnlyFull, FullAfter
<1>5. Pushes("env", status, FALSE)
  BY <1>1, <1>2, <1>3, <1>4 DEF Pushes
<1> QED BY <1>5, PushesKeepInv

-----------------------------------------------------------------------------
(* The steps of gate that run a scenario, and those without a trace.       *)

LEMMA GateRecordKeeps ==
  ASSUME WorkflowInv, GateRecord
  PROVE  WorkflowInv'
<1> DEFINE status == Primary.status
           warned == Primary.warned
           good == Summary(status, "Run", warned, FALSE)
           bad == Astray(good) \cup BadTraces(good)
           name == "run_record_trace"
<1>1. /\ Gate /\ pc = name /\ waiting = None /\ waiting' = None /\ RegisterTemp(name)
      /\ pc' = After(name) /\ UNCHANGED <<setup, waiting, aborted, worker, exit>>
      /\ disk' = IF run'.trace THEN disk \cup {"trace"} ELSE disk
  BY DEF GateRecord, AtStep
<1>2. PICK answer \in Answers(good, bad) :
        /\ Blamed(name, answer)
        /\ IF answer.ok
           THEN /\ steps' = Push(name, Recorded(answer.value))
                /\ run' = [run EXCEPT !.status = answer.value.status,
                                      !.trace = answer.value.trace.file # "missing"]
           ELSE /\ steps' = Push(name, "failed")
                /\ \E there \in BOOLEAN : run' = [run EXCEPT !.trace = there]
  BY DEF GateRecord, PrimaryRun
<1>3. temps \subseteq temps' /\ disk' \subseteq disk \cup temps'
  <2>1. WrittenBy(name) = {"trace"}
    BY DEF WrittenBy
  <2> QED BY <1>1, <2>1, TempsGrow
<1>4. name \in RanScenario /\ Outcome(name) = status /\ name \in MenuNames \ {"clean_tree"}
      /\ name \notin {"shrink", "replay", "discover_scenarios", "scope_match"}
  BY DEF RanScenario, Outcome, MenuNames
<1> HIDE DEF status, warned
<1> DEFINE verdict == Recorded(answer.value)
           pushed == IF answer.ok THEN verdict ELSE "failed"
<1>5. verdict \in Statuses
      /\ (verdict # "failed" => answer.value.status = "pass" /\ TraceEvidence(answer.value))
  BY RecordedIs, PassNeedsPass
<1>6. answer.ok => Noticed(name, answer.fault, verdict)
  <2>1. status = "pass" => \A b \in bad : answer.value = b => verdict = "failed"
    BY BadRecordRejected
  <2> QED BY <1>4, <1>5, <2>1, RunNoticed DEF RunModes
<1>7. DOMAIN run' = DOMAIN run
  BY <1>2
<1>8. ASSUME answer.ok, verdict # "failed"
      PROVE  /\ run'.cwd = run.cwd /\ run'.status = "pass" /\ run'.trace
             /\ run'.shrunk_status = run.shrunk_status /\ run'.replayed = run.replayed
  <2> DEFINE there == answer.value.trace.file # "missing"
  <2>1. answer.value.status = "pass" /\ there
    BY <1>5, <1>8 DEF TraceEvidence, TraceSummaryIdentity
  <2>2. run' = [run EXCEPT !.status = answer.value.status, !.trace = there]
    BY <1>2, <1>8
  <2>3. DOMAIN run = {"cwd", "trace", "status", "shrunk_status", "replayed", "classification"}
    BY DEF WorkflowInv, RunInv
  <2> HIDE DEF there
  <2> QED BY <2>1, <2>2, <2>3
<1>9. /\ steps' = Push(name, pushed)
      /\ faulty' = IF answer.fault THEN faulty \cup {name} ELSE faulty
  BY <1>2 DEF Blamed
<1>10. pushed \in Statuses /\ (pushed # "failed" => answer.ok /\ verdict # "failed")
  <2>1. answer.ok \in BOOLEAN
    BY AnswersAre
  <2> QED BY <1>5, <2>1 DEF Statuses
<1> HIDE DEF good, bad, verdict, pushed
<1>11. Pushes(name, pushed, answer.fault)
  BY <1>1, <1>3, <1>4, <1>6, <1>7, <1>8, <1>9, <1>10 DEF Pushes, Noticed
<1> QED BY <1>11, PushesKeepInv

LEMMA GateReplayKeeps ==
  ASSUME WorkflowInv, GateReplay
  PROVE  WorkflowInv'
<1> DEFINE status == Primary.status
           warned == Primary.warned
           good == Summary(status, "Replay", warned, FALSE)
           bad == Astray(good)
           name == "replay"
<1>1. /\ Gate /\ pc = name /\ waiting = None /\ waiting' = None
      /\ pc' = After(name) /\ UNCHANGED <<setup, waiting, aborted, temps, disk, worker, exit>>
  BY DEF GateReplay, AtStep
<1>2. PICK answer \in Answers(good, bad) :
        /\ Blamed(name, answer)
        /\ steps' = Push(name, IF answer.ok THEN Replayed(answer.value) ELSE "failed")
        /\ run' = [run EXCEPT !.replayed = answer.ok]
  BY DEF GateReplay, PrimaryRun
<1>4. /\ name \in RanScenario /\ Outcome(name) = status /\ name \in MenuNames \ {"clean_tree"}
      /\ name \notin {"run_record_trace", "shrink", "discover_scenarios", "scope_match"}
      /\ name \in ToSet(TraceNames)
  BY DEF RanScenario, Outcome, MenuNames, TraceNames, ToSet
<1> HIDE DEF status, warned
<1> DEFINE verdict == Replayed(answer.value)
           pushed == IF answer.ok THEN verdict ELSE "failed"
<1>5. verdict \in Statuses
  BY DEF Replayed, ReplaySummaryStatus, PassedIf, Statuses
<1>6. ASSUME ~AnyFailed(steps), answer.ok PROVE Noticed(name, answer.fault, verdict)
  <2>1. run.status = "pass"
    BY <1>1, <1>4, <1>6, TraceBefore DEF Unfailed
  <2>2. verdict # "failed" => answer.value.status = "pass"
                              /\ RunSummaryPassStatus(answer.value, Strict, "Replay") # "failed"
    BY <2>1, PassNeedsPass DEF Replayed
  <2>3. status = "pass" => \A b \in bad : answer.value = b => verdict = "failed"
    BY <2>2, AstrayRejected DEF RunModes
  <2> QED BY <1>4, <1>6, <2>2, <2>3, RunNoticed DEF RunModes
<1>7. /\ DOMAIN run' = DOMAIN run /\ run'.cwd = run.cwd /\ run'.status = run.status
      /\ run'.trace = run.trace /\ run'.shrunk_status = run.shrunk_status
      /\ run'.replayed = answer.ok
  <2>1. DOMAIN run = {"cwd", "trace", "status", "shrunk_status", "replayed", "classification"}
    BY DEF WorkflowInv, RunInv
  <2> QED BY <1>2, <2>1
<1>9. /\ steps' = Push(name, pushed)
      /\ faulty' = IF answer.fault THEN faulty \cup {name} ELSE faulty
  BY <1>2 DEF Blamed
<1>10. pushed \in Statuses /\ (pushed # "failed" => answer.ok /\ pushed = verdict)
  <2>1. answer.ok \in BOOLEAN
    BY AnswersAre
  <2> QED BY <1>5, <2>1 DEF Statuses
<1> HIDE DEF good, bad, verdict, pushed
<1>11. Pushes(name, pushed, answer.fault)
  BY <1>1, <1>4, <1>6, <1>7, <1>9, <1>10 DEF Pushes, Noticed
<1> QED BY <1>11, PushesKeepInv

LEMMA NoTraceKeeps ==
  ASSUME WorkflowInv, NoTrace
  PROVE  WorkflowInv'
<1> DEFINE names == TraceNames
           entries == [i \in DOMAIN names |-> [name |-> names[i], status |-> "skipped"]]
<1>1. Full /\ AtStep("trace_verify") /\ ~run.trace /\ Skipped(names, "fuzz")
  BY DEF NoTrace
<1>2. Menu = FullMenu /\ Len(Menu) = 37 /\ Menu[10] = "trace_verify" /\ Menu[29] = "fuzz"
  BY <1>1, FullMenuIs DEF Menu
<1>3. pc \in MenuNames /\ pc \in ToSet(TraceNames) /\ AtMenu(10)
  <2>1. pc \in MenuNames /\ pc \in ToSet(TraceNames)
    BY <1>1 DEF AtStep, MenuNames, TraceNames, ToSet
  <2> QED BY <1>1, <1>2, <2>1, PlaceOf DEF AtStep
<1>4. AnyFailed(steps)
  BY <1>1, <1>3, TraceBefore DEF Unfailed, AtStep
<1>5. /\ names \in Seq(StepNames) /\ Len(names) = 19
      /\ \A k \in 1..19 : names[k] = Menu[10 + k - 1]
  BY <1>2 DEF TraceNames, DeterministicNames, StepNames, MenuNames, FullMenu, PrepareNames,
              ExtendedNames, CorpusNames
<1>6. steps' = steps \o entries
  BY <1>1 DEF Skipped, SkipAll
<1> HIDE DEF names
<1>7. /\ entries \in Seq(StepRecords) /\ Len(entries) = 19
      /\ \A k \in 1..19 : entries[k].name = names[k]
  BY <1>5, SkippedEntries
<1> HIDE DEF entries
<1>8. Aligned(10, entries)
  <2>1. 10 \in 2..Len(Menu) /\ Len(entries) > 0 /\ 10 + Len(entries) - 1 <= Len(Menu)
    BY <1>2, <1>7
  <2> QED BY <2>1, <1>3, <1>5, <1>7 DEF Aligned
<1>9. Onward(10, entries)
  <2>1. 10 + Len(entries) - 1 < Len(Menu) /\ pc' = Menu[10 + Len(entries)]
    BY <1>1, <1>2, <1>7 DEF Skipped
  <2> QED BY <2>1 DEF Onward
<1>10. Pushing(entries)
  <2>1. 10 \in 2..Len(Menu)
    BY <1>8 DEF Aligned
  <2> QED BY <1>1, <1>4, <1>6, <1>8, <1>9, <2>1 DEF Pushing, Skipped, AtStep, WellJudged
<1> QED BY <1>10, PushingKeepsInv

LEMMA GateNoTraceKeeps ==
  ASSUME WorkflowInv, GateNoTrace
  PROVE  WorkflowInv'
<1> DEFINE names == GateTraceNames
           entries == [i \in DOMAIN names |-> [name |-> names[i], status |-> "skipped"]]
<1>1. Gate /\ ~Full /\ AtStep("trace_verify") /\ ~run.trace /\ Skipped(names, "finish")
  BY DEF GateNoTrace, Gate, Full
<1>2. Menu = GateMenu /\ Len(Menu) = 12 /\ Menu[7] = "trace_verify"
  BY <1>1, GateMenuIs DEF Menu
<1>3. pc \in MenuNames /\ pc \in ToSet(TraceNames) /\ AtMenu(7)
  <2>1. pc \in MenuNames /\ pc \in ToSet(TraceNames)
    BY <1>1 DEF AtStep, MenuNames, TraceNames, ToSet
  <2> QED BY <1>1, <1>2, <2>1, PlaceOf DEF AtStep
<1>4. AnyFailed(steps)
  BY <1>1, <1>3, TraceBefore DEF Unfailed, AtStep
<1>5. /\ names \in Seq(StepNames) /\ Len(names) = 6
      /\ \A k \in 1..6 : names[k] = Menu[7 + k - 1]
  BY <1>2 DEF GateTraceNames, StepNames, MenuNames, GateMenu
<1>6. steps' = steps \o entries
  BY <1>1 DEF Skipped, SkipAll
<1> HIDE DEF names
<1>7. /\ entries \in Seq(StepRecords) /\ Len(entries) = 6
      /\ \A k \in 1..6 : entries[k].name = names[k]
  BY <1>5, SkippedEntries
<1> HIDE DEF entries
<1>8. Aligned(7, entries)
  <2>1. 7 \in 2..Len(Menu) /\ Len(entries) > 0 /\ 7 + Len(entries) - 1 <= Len(Menu)
    BY <1>2, <1>7
  <2> QED BY <2>1, <1>3, <1>5, <1>7 DEF Aligned
<1>9. Onward(7, entries)
  <2>1. 7 + Len(entries) - 1 = Len(Menu) /\ pc' = "finish"
    BY <1>1, <1>2, <1>7 DEF Skipped
  <2> QED BY <2>1 DEF Onward
<1>10. Pushing(entries)
  <2>1. 7 \in 2..Len(Menu)
    BY <1>8 DEF Aligned
  <2> QED BY <1>1, <1>4, <1>6, <1>8, <1>9, <2>1 DEF Pushing, Skipped, AtStep, WellJudged
<1> QED BY <1>10, PushingKeepsInv

LEMMA CorpusDirFailsKeeps ==
  ASSUME WorkflowInv, CorpusDirFails
  PROVE  WorkflowInv'
<1> DEFINE names == CorpusNames
           entries == [i \in DOMAIN names |-> [name |-> names[i], status |-> "failed"]]
<1>1. /\ AtStep("corpus_add") /\ RegisterTemp("corpus_add") /\ pc' = "host_backends_run"
      /\ disk' \subseteq disk \cup {"corpus"} /\ steps' = steps \o entries
      /\ UNCHANGED <<setup, waiting, aborted, run, worker, exit>>
  BY DEF CorpusDirFails
<1>2. pc \in MenuNames \ GateNames
  BY <1>1 DEF AtStep, MenuNames, GateNames
<1>3. Menu = FullMenu /\ Len(Menu) = 37 /\ Menu[31] = "corpus_add"
      /\ Menu[36] = "host_backends_run"
  BY <1>2, OnlyFull, FullMenuIs DEF Menu
<1>4. AtMenu(31)
  BY <1>1, <1>2, <1>3, PlaceOf DEF AtStep
<1>5. /\ names \in Seq(StepNames) /\ Len(names) = 5
      /\ \A k \in 1..5 : names[k] = Menu[31 + k - 1]
  BY <1>3 DEF TraceNames, DeterministicNames, StepNames, MenuNames, FullMenu, PrepareNames,
              ExtendedNames, CorpusNames
<1> HIDE DEF names
<1>6. /\ entries \in Seq(StepRecords) /\ Len(entries) = 5 /\ DOMAIN entries = 1..5
      /\ \A k \in 1..5 : entries[k].name = names[k] /\ entries[k].status = "failed"
  <2>1. DOMAIN names = 1..5 /\ \A k \in 1..5 : names[k] \in StepNames
    BY <1>5, LenProperties, ElementOfSeq
  <2> QED BY <2>1 DEF StepRecords, Statuses
<1> HIDE DEF entries
<1>7. AnyFailed(entries)
  BY <1>6 DEF AnyFailed
<1>8. Aligned(31, entries)
  <2>1. 31 \in 2..Len(Menu) /\ Len(entries) > 0 /\ 31 + Len(entries) - 1 <= Len(Menu)
    BY <1>3, <1>6
  <2> QED BY <2>1, <1>4, <1>5, <1>6 DEF Aligned
<1>9. Onward(31, entries)
  <2>1. 31 + Len(entries) - 1 < Len(Menu) /\ pc' = Menu[31 + Len(entries)]
    BY <1>1, <1>3, <1>6
  <2> QED BY <2>1 DEF Onward
<1>10. temps \subseteq temps' /\ disk' \subseteq disk \cup temps'
  <2>1. WrittenBy("corpus_add") = {"corpus"}
    BY DEF WrittenBy
  <2> QED BY <1>1, <2>1, TempsGrow
<1>11. Pushing(entries)
  <2>1. 31 \in 2..Len(Menu)
    BY <1>8 DEF Aligned
  <2> QED BY <1>1, <1>7, <1>8, <1>9, <1>10, <2>1 DEF Pushing, AtStep, WellJudged
<1> QED BY <1>11, PushingKeepsInv

-----------------------------------------------------------------------------
(* Answers that are wrong where no check looks: such a step is judged as    *)
(* that of a healthy command, and it is as red where the scenario fails.   *)

Missed(name, verdict, kept) ==
  /\ AtStep(name) /\ RegisterTemp(name)
  /\ steps' = Push(name, verdict) /\ run' = kept
  /\ disk' = disk \cup WrittenBy(name) /\ pc' = After(name)
  /\ UNCHANGED <<setup, waiting, worker, faulty, exit>>

MissableNames ==
  MenuNames \ {"clean_tree", "run_record_trace", "shrink", "discover_scenarios", "scope_match"}

LEMMA MissedKeepsInv ==
  ASSUME WorkflowInv, NEW name \in MissableNames, NEW verdict \in Statuses, NEW kept,
         Missed(name, verdict, kept), DOMAIN kept = DOMAIN run,
         ~AnyFailed(steps) => Noticed(name, FALSE, verdict),
         /\ kept.cwd = run.cwd /\ kept.status = run.status /\ kept.trace = run.trace
         /\ kept.shrunk_status = run.shrunk_status
         /\ IF name = "replay" THEN Gate => kept.replayed ELSE kept.replayed = run.replayed
  PROVE  WorkflowInv'
<1>1. temps \subseteq temps' /\ disk' \subseteq disk \cup temps'
  BY TempsGrow DEF Missed
<1>2. Pushes(name, verdict, FALSE)
  BY <1>1 DEF Pushes, Missed, AtStep, Noticed, MissableNames
<1> QED BY <1>2, PushesKeepInv

(* A step that runs no scenario and changes nothing that is kept.          *)
LEMMA MissedPlainKeepsInv ==
  ASSUME WorkflowInv, NEW name \in PlainNames, NEW verdict \in Statuses,
         Missed(name, verdict, run)
  PROVE  WorkflowInv'
<1>1. name \in MissableNames /\ name \notin RanScenario /\ name # "replay"
  BY DEF PlainNames, RanScenario, MissableNames
<1> QED BY <1>1, MissedKeepsInv DEF Noticed

(* The summary of a run with another trace is that of the run.             *)
LEMMA BadTraceStatus ==
  ASSUME NEW s, DOMAIN s = {"status", "mode", "run_id", "seed", "warned", "report", "manifest",
                            "trace"},
         NEW b \in BadTraces(s)
  PROVE  b.status = s.status
BY DEF BadTraces

LEMMA SummaryFields ==
  ASSUME NEW status, NEW mode, NEW warned, NEW host
  PROVE  LET s == Summary(status, mode, warned, host)
         IN  /\ DOMAIN s = {"status", "mode", "run_id", "seed", "warned", "report", "manifest",
                            "trace"}
             /\ s.status = status
BY DEF Summary

(* A run that is said to have passed only where its scenario does.         *)
LEMMA MissedRunKeepsInv ==
  ASSUME WorkflowInv, NEW name \in MissableNames \cap RanScenario, name # "replay",
         NEW value, value.status = Outcome(name), NEW verdict \in Statuses,
         verdict # "failed" => value.status = "pass",
         Missed(name, verdict, run)
  PROVE  WorkflowInv'
<1>1. Noticed(name, FALSE, verdict)
  BY DEF Noticed
<1> QED BY <1>1, MissedKeepsInv

LEMMA MissedTraceKeeps ==
  ASSUME WorkflowInv, MissedTrace
  PROVE  WorkflowInv'
<1>0. DOMAIN TestRun = {"status", "mode", "run_id", "seed", "warned", "report", "manifest", "trace"}
  <2> DEFINE status == IF \A f \in TestTargets : f.status = "pass" THEN "pass" ELSE "fail"
             warned == \E f \in TestTargets : f.warned
  <2>1. TestRun = Summary(status, "Test", warned, FALSE)
    BY DEF TestRun
  <2> HIDE DEF status, warned
  <2> QED BY <2>1, SummaryFields
<1>1. ASSUME NEW name \in {"test_det", "test_det_strict"},
             Misses(name, BadTraces(TestRun), Tested, run)
      PROVE  WorkflowInv'
  <2>1. PICK b \in BadTraces(TestRun) : Missed(name, Tested(b), run)
    BY <1>1 DEF Misses, Missed
  <2>2. name \in MissableNames /\ name # "replay" /\ Outcome(name) = TestRun.status
    BY DEF MissableNames, MenuNames, Outcome
  <2>3. name \in RanScenario
    <3>1. CASE name = "test_det"
      <4>1. pc \in MenuNames \ GateNames
        BY <2>1, <3>1 DEF Missed, AtStep, MenuNames, GateNames
      <4> QED BY <3>1, <4>1, OnlyFull DEF RanScenario
    <3>2. CASE name = "test_det_strict"
      <4>1. Gate
        BY <2>1, <3>2, OnlyGate DEF Missed, AtStep
      <4> QED BY <3>2, <4>1 DEF RanScenario
    <3> QED BY <3>1, <3>2
  <2>4. b.status = TestRun.status
    BY <1>0, <2>1, BadTraceStatus
  <2>5. Tested(b) \in Statuses /\ (Tested(b) # "failed" => b.status = "pass")
    BY PassNeedsPass DEF Tested
  <2> QED BY <2>1, <2>2, <2>3, <2>4, <2>5, MissedRunKeepsInv
<1>2. CASE Misses("replay", BadTraces(PrimaryRun("Replay")), Replayed,
                  [run EXCEPT !.replayed = Gate])
  <2> DEFINE kept == [run EXCEPT !.replayed = Gate]
             status == Primary.status
             warned == Primary.warned
             good == Summary(status, "Replay", warned, FALSE)
  <2>1. PICK b \in BadTraces(good) : Missed("replay", Replayed(b), kept)
    BY <1>2 DEF Misses, Missed, PrimaryRun
  <2>2. b.status = status
    <3>1. DOMAIN good = {"status", "mode", "run_id", "seed", "warned", "report", "manifest", "trace"}
          /\ good.status = status
      BY SummaryFields
    <3> HIDE DEF good, status, warned
    <3> QED BY <2>1, <3>1, BadTraceStatus
  <2>3. "replay" \in MissableNames /\ "replay" \in ToSet(TraceNames) /\ Outcome("replay") = status
    BY DEF MissableNames, MenuNames, TraceNames, ToSet, Outcome
  <2>4. Replayed(b) \in Statuses
    BY DEF Replayed, ReplaySummaryStatus, PassedIf, Statuses
  <2>5. ASSUME ~AnyFailed(steps) PROVE Noticed("replay", FALSE, Replayed(b))
    <3>1. run.status = "pass"
      BY <2>1, <2>3, <2>5, TraceBefore DEF Unfailed, Missed, AtStep
    <3>2. Replayed(b) # "failed" => b.status = "pass"
      BY <3>1, PassNeedsPass DEF Replayed
    <3> HIDE DEF status, good
    <3> QED BY <2>2, <2>3, <3>2 DEF Noticed
  <2>6. /\ DOMAIN kept = DOMAIN run /\ kept.cwd = run.cwd /\ kept.status = run.status
        /\ kept.trace = run.trace /\ kept.shrunk_status = run.shrunk_status /\ kept.replayed = Gate
    BY DEF WorkflowInv, RunInv
  <2> HIDE DEF kept, good, status, warned
  <2> QED BY <2>1, <2>3, <2>4, <2>5, <2>6, MissedKeepsInv
<1>3. CASE Misses("replay_shrunk", BadTraces([PrimaryRun("Replay") EXCEPT !.status = run.shrunk_status]),
                  LAMBDA s : ReplaySummaryStatus(run.shrunk_status, s, Strict, "Replay"), run)
  <2> DEFINE verdict(s) == ReplaySummaryStatus(run.shrunk_status, s, Strict, "Replay")
  <2>1. PICK b : Missed("replay_shrunk", verdict(b), run)
    BY <1>3 DEF Misses, Missed
  <2>2. verdict(b) \in Statuses /\ "replay_shrunk" \in PlainNames
    BY DEF ReplaySummaryStatus, PassedIf, Statuses, PlainNames, MenuNames
  <2> HIDE DEF verdict
  <2> QED BY <2>1, <2>2, MissedPlainKeepsInv
<1>4. CASE Primary # None /\ Misses("fuzz", BadTraces(PrimaryRun("Fuzz")),
                                    LAMBDA s : RunSummaryPassStatus(s, Strict, "Fuzz"), run)
  <2> DEFINE verdict(s) == RunSummaryPassStatus(s, Strict, "Fuzz")
             status == Primary.status
             warned == Primary.warned
             good == Summary(status, "Fuzz", warned, FALSE)
  <2>1. PICK b \in BadTraces(good) : Missed("fuzz", verdict(b), run)
    BY <1>4 DEF Misses, Missed, PrimaryRun
  <2>2. b.status = status
    <3>1. DOMAIN good = {"status", "mode", "run_id", "seed", "warned", "report", "manifest", "trace"}
          /\ good.status = status
      BY SummaryFields
    <3> HIDE DEF good, status, warned
    <3> QED BY <2>1, <3>1, BadTraceStatus
  <2>3. "fuzz" \in MissableNames /\ Outcome("fuzz") = status /\ "fuzz" \in MenuNames \ GateNames
    BY DEF MissableNames, MenuNames, Outcome, GateNames
  <2>4. "fuzz" \in RanScenario
    BY <2>1, <2>3, OnlyFull DEF RanScenario, Missed, AtStep
  <2>5. verdict(b) \in Statuses /\ (verdict(b) # "failed" => b.status = "pass")
    BY PassNeedsPass
  <2> HIDE DEF verdict, good, status, warned
  <2> QED BY <2>1, <2>2, <2>3, <2>4, <2>5, MissedRunKeepsInv
<1> QED BY <1>1, <1>2, <1>3, <1>4 DEF MissedTrace

LEMMA MissedOtherTraceKeeps ==
  ASSUME WorkflowInv, MissedOtherTrace
  PROVE  WorkflowInv'
<1>1. ASSUME Distributed # None, NEW status, NEW warned, status = Distributed.status,
             Misses("explore", BadTraces(Summary(status, "Explore", warned, FALSE)),
                    LAMBDA s : RunSummaryPassStatus(s, Strict, "Explore"), run)
      PROVE  WorkflowInv'
  <2> DEFINE verdict(s) == RunSummaryPassStatus(s, Strict, "Explore")
             good == Summary(status, "Explore", warned, FALSE)
  <2>1. PICK b \in BadTraces(good) : Missed("explore", verdict(b), run)
    BY <1>1 DEF Misses, Missed
  <2>2. b.status = status
    <3>1. DOMAIN good = {"status", "mode", "run_id", "seed", "warned", "report", "manifest", "trace"}
          /\ good.status = status
      BY SummaryFields
    <3> HIDE DEF good
    <3> QED BY <2>1, <3>1, BadTraceStatus
  <2>3. "explore" \in MissableNames /\ Outcome("explore") = status
        /\ "explore" \in MenuNames \ GateNames
    BY <1>1 DEF MissableNames, MenuNames, Outcome, GateNames
  <2>4. "explore" \in RanScenario
    BY <1>1, <2>1, <2>3, OnlyFull DEF RanScenario, Missed, AtStep
  <2>5. verdict(b) \in Statuses /\ (verdict(b) # "failed" => b.status = "pass")
    BY PassNeedsPass
  <2> HIDE DEF verdict, good
  <2> QED BY <2>1, <2>2, <2>3, <2>4, <2>5, MissedRunKeepsInv
<1>2. ASSUME HostStep # None, NEW status, NEW warned, status = HostStep.status,
             NEW good, good = Summary(status, "Run", warned, TRUE),
             Misses("host_backends_run",
                    {[good EXCEPT !.trace.content = "other"], [good EXCEPT !.trace.reported = FALSE]},
                    LAMBDA s : HostBackendsStatus(s, Strict), run)
      PROVE  WorkflowInv'
  <2> DEFINE verdict(s) == HostBackendsStatus(s, Strict)
             name == "host_backends_run"
             bad == {[good EXCEPT !.trace.content = "other"], [good EXCEPT !.trace.reported = FALSE]}
  <2>1. PICK b \in bad : Missed(name, verdict(b), run)
    BY <1>2 DEF Misses, Missed
  <2>2. b.status = status
    <3>1. good = Summary(status, "Run", warned, TRUE)
      BY <1>2
    <3>2. DOMAIN good = {"status", "mode", "run_id", "seed", "warned", "report", "manifest", "trace"}
          /\ good.status = status
      BY <3>1 DEF Summary
    <3> QED BY <2>1, <3>2
  <2>3. name \in MissableNames /\ Outcome(name) = status /\ name \in MenuNames \ GateNames
        /\ name # "replay"
    BY <1>2 DEF MissableNames, MenuNames, Outcome, GateNames
  <2>4. name \in RanScenario
    BY <1>2, <2>1, <2>3, OnlyFull DEF RanScenario, Missed, AtStep
  <2>5. verdict(b) \in Statuses /\ (verdict(b) # "failed" => b.status = "pass")
    BY PassNeedsPass DEF HostBackendsStatus, PassedIf, Statuses
  <2> HIDE DEF verdict, bad, name
  <2> QED BY <2>1, <2>2, <2>3, <2>4, <2>5, MissedRunKeepsInv
<1> QED BY <1>1, <1>2 DEF MissedOtherTrace

LEMMA MissedInTraceKeeps ==
  ASSUME WorkflowInv, MissedInTrace
  PROVE  WorkflowInv'
<1>1. \E name \in {"trace_verify", "ci", "memory_top", "memory_graph", "memory_diff",
                   "profile_top", "profile_diff", "profile_explain"}, verdict \in Statuses :
        Missed(name, verdict, run)
  <2>1. \A v : TraceVerifyStatus(v, Strict) \in Statuses
    BY DEF TraceVerifyStatus, PassedIf, Statuses
  <2>2. \A v : CiReportStatus(v) \in Statuses
    BY DEF CiReportStatus, PassedIf, Statuses
  <2>3. \A v : /\ MemoryTopStatus(v) \in Statuses /\ MemoryGraphStatus(v) \in Statuses
               /\ MemoryDiffStatus(v) \in Statuses
    BY DEF MemoryTopStatus, MemoryGraphStatus, MemoryDiffStatus, PassedIf, Statuses
  <2>4. \A v : ProfileTopStatus(v) \in Statuses /\ ProfileExplainStatus(v) \in Statuses
    BY DEF ProfileTopStatus, ProfileExplainStatus, Statuses
  <2>5. \A v : ProfileDiffStatus(v, Gate) \in Statuses
    BY DEF ProfileDiffStatus, PassedIf, Statuses
  <2> QED BY <2>1, <2>2, <2>3, <2>4, <2>5 DEF MissedInTrace, Misses, Missed
<1>2. PICK name \in PlainNames, verdict \in Statuses : Missed(name, verdict, run)
  BY <1>1 DEF PlainNames, MenuNames
<1> QED BY <1>2, MissedPlainKeepsInv

LEMMA MissedInFilesKeeps ==
  ASSUME WorkflowInv, MissedInFiles
  PROVE  WorkflowInv'
<1>1. \E name \in {"artifacts_ls", "artifacts_export", "artifacts_pack", "artifacts_diff",
                   "report_show", "report_query_paths", "corpus_list", "corpus_minimize",
                   "corpus_export", "corpus_import"}, verdict \in Statuses :
        Missed(name, verdict, run)
  <2>1. \A v : ArtifactsListStatus(v) \in Statuses /\ ArtifactsDiffStatus(v) \in Statuses
               /\ ZipArtifactStatus(v) \in Statuses
    BY DEF ArtifactsListStatus, ArtifactsDiffStatus, ZipArtifactStatus, PassedIf, Statuses
  <2>2. \A v : ReportShowStatus(v) \in Statuses /\ ReportQueryPathsStatus(v) \in Statuses
    BY DEF ReportShowStatus, ReportQueryPathsStatus, PassedIf, Statuses
  <2>3. \A v : CorpusListStatus(v) \in Statuses /\ CorpusMinimizeStatus(v) \in Statuses
               /\ CorpusImportStatus(v) \in Statuses
    BY DEF CorpusListStatus, CorpusMinimizeStatus, CorpusImportStatus, PassedIf, Statuses
  <2> QED BY <2>1, <2>2, <2>3 DEF MissedInFiles, Misses, Missed
<1>2. PICK name \in PlainNames, verdict \in Statuses : Missed(name, verdict, run)
  BY <1>1 DEF PlainNames, MenuNames
<1> QED BY <1>2, MissedPlainKeepsInv

-----------------------------------------------------------------------------
(* Giving up, the end, and threads that nobody waits for.                  *)

LEMMA GiveUpKeeps ==
  ASSUME WorkflowInv, GiveUp
  PROVE  WorkflowInv'
<1> DEFINE entry == [name |-> waiting, status |-> "failed"]
           entries == <<entry>>
<1>1. /\ waiting # None /\ waiting' = None /\ worker' = waiting /\ pc' = "finish"
      /\ steps' = Append(steps, entry) /\ DOMAIN run' = DOMAIN run
      /\ UNCHANGED <<setup, temps, disk, faulty, exit>>
  BY DEF GiveUp, Push
<1>2. waiting = pc /\ waiting # "clean_tree" /\ waiting \in ToSet(FullMenu)
  BY <1>1 DEF WorkflowInv, WaitInv
<1>3. setup.command # "ci"
  BY <1>1 DEF WorkflowInv, CiInv
<1>4. PICK i \in 1..Len(Menu) : AtMenu(i)
  BY <1>1, <1>3 DEF WorkflowInv, PlaceInv
<1>5. i \in 2..Len(Menu) /\ pc = Menu[i] /\ pc \in MenuNames /\ Len(Menu) \in Nat
  <2>1. i # 1 /\ pc = Menu[i]
    BY <1>2, <1>4, MenuIs DEF AtMenu
  <2> QED BY <2>1, MenuIs, MenuRange
<1>6. ~Ended
  BY <1>5, OnMenu
<1>7. entry \in StepRecords /\ entry.name = pc /\ entry.status = "failed"
  BY <1>2, <1>5 DEF StepRecords, StepNames, Statuses
<1> HIDE DEF entry
<1>8. /\ entries \in Seq(StepRecords) /\ Len(entries) = 1 /\ entries[1] = entry
      /\ DOMAIN entries = {1}
  BY <1>7
<1>9. steps \in Seq(StepRecords) /\ steps' = steps \o entries
  <2>1. steps \in Seq(StepRecords)
    BY DEF WorkflowInv
  <2> QED BY <1>1, <1>7, <2>1, AppendIsConcat
<1> HIDE DEF entries
<1>10. Aligned(i, entries)
  <2>1. i + 1 - 1 = i /\ i <= Len(Menu)
    BY <1>5
  <2> QED BY <2>1, <1>4, <1>5, <1>7, <1>8 DEF Aligned
<1>11. Onward(i, entries)
  BY <1>1, <1>7, <1>8 DEF Onward
<1>12. steps' \in Seq(StepRecords) /\ CiInv' /\ PlaceInv'
  BY <1>1, <1>3, <1>9, <1>10, <1>11, PushesKeepPlace
<1>13. AnyFailed(steps)'
  <2> DEFINE n == Len(steps)
             new == Append(steps, entry)
  <2>1. steps \in Seq(StepRecords) /\ entry \in StepRecords
    BY <1>7, <1>9
  <2>2. new \in Seq(StepRecords) /\ Len(new) = n + 1 /\ new[n + 1] = entry
    BY <2>1, AppendProperties
  <2>3. n \in Nat /\ DOMAIN new = 1..Len(new)
    BY <2>1, <2>2, LenProperties
  <2>4. steps' = new
    BY <1>1
  <2> HIDE DEF n, new
  <2>5. n + 1 \in DOMAIN new
    BY <2>2, <2>3
  <2> QED BY <1>7, <2>2, <2>4, <2>5 DEF AnyFailed
<1>14. ~Ended'
  BY <1>1 DEF Ended
<1>15. GreenInv' /\ WaitInv'
  BY <1>1, <1>13 DEF GreenInv, WaitInv
<1>16. FilesInv'
  <2>1. disk \subseteq temps /\ WrittenBy(waiting) \subseteq temps
    BY <1>1, <1>6 DEF WorkflowInv, FilesInv
  <2> QED BY <1>1, <1>2, <1>14, <2>1 DEF FilesInv
<1>17. ExitInv'
  BY <1>1, <1>6, <1>14 DEF ExitInv, WorkflowInv
<1>18. setup' \in Setups /\ RunInv'
  BY <1>1 DEF WorkflowInv, RunInv
<1> QED BY <1>12, <1>15, <1>16, <1>17, <1>18 DEF WorkflowInv

(* The verdict of a workflow that has ended is kept. *)
LEMMA EndedKeepsGreen ==
  ASSUME GreenMeansVerified, setup' = setup, run' = run, faulty' = faulty, exit' = exit
  PROVE  GreenMeansVerified'
<1>1. RanScenario' = RanScenario /\ \A n : Outcome(n)' = Outcome(n)
  BY SameProject
<1> QED BY <1>1 DEF GreenMeansVerified

(* Neither the place nor what was pushed changes. *)
LEMMA PlaceStays ==
  ASSUME PlaceInv, setup' = setup, pc' = pc, steps' = steps, waiting' = waiting
  PROVE  PlaceInv'
<1>1. Menu' = Menu /\ Surface' = Surface /\ Shift' = Shift /\ Full' = Full
  BY SameMenu
<1> DEFINE A(i) == pc = Menu[i] /\ Len(steps) = IF i = 1 THEN 0 ELSE i - 1 + Shift
<1>2. \A i : AtMenu(i)' <=> AtMenu(i)
  BY <1>1 DEF AtMenu
<1>3. Ended' <=> Ended
  BY DEF Ended
<1> QED BY <1>1, <1>2, <1>3 DEF PlaceInv

LEMMA WorkerEndsKeeps ==
  ASSUME WorkflowInv, WorkerEnds
  PROVE  WorkflowInv'
<1>1. /\ worker # None /\ worker' = None /\ disk' = disk \cup WrittenBy(worker)
      /\ UNCHANGED <<setup, pc, steps, waiting, aborted, run, temps, faulty, exit>>
  BY DEF WorkerEnds
<1>2. PlaceInv' /\ RunInv' /\ setup' \in Setups /\ steps' \in Seq(StepRecords)
  BY <1>1, PlaceStays DEF WorkflowInv, RunInv
<1>3. CiInv'
  BY <1>1 DEF WorkflowInv, CiInv
<1>4. WaitInv'
  BY <1>1 DEF WorkflowInv, WaitInv
<1>5. Ended' <=> Ended
  BY <1>1 DEF Ended
<1>6. worker \in ToSet(FullMenu)
  BY <1>1 DEF WorkflowInv, FilesInv
<1>7. FilesInv'
  <2>1. CASE ~Ended
    <3>1. /\ disk \subseteq temps /\ WrittenBy(worker) \subseteq temps
          /\ waiting # None => WrittenBy(waiting) \subseteq temps
      BY <1>1, <2>1 DEF WorkflowInv, FilesInv
    <3> QED BY <1>1, <1>5, <2>1, <3>1 DEF FilesInv
  <2>2. CASE Ended
    <3>1. disk = {}
      BY <1>1, <2>2 DEF WorkflowInv, FilesInv
    <3> QED BY <1>1, <1>5, <1>6, <2>2, <3>1 DEF FilesInv
  <2> QED BY <2>1, <2>2
<1>8. ExitInv'
  <2>1. CASE Ended
    <3>1. GreenMeansVerified'
      BY <1>1, <2>1, EndedKeepsGreen DEF WorkflowInv, ExitInv
    <3> QED BY <1>5, <2>1, <3>1 DEF ExitInv
  <2>2. CASE ~Ended
    BY <1>1, <1>5, <2>2 DEF WorkflowInv, ExitInv
  <2> QED BY <2>1, <2>2
<1>9. GreenInv'
  <2>1. RanScenario' = RanScenario /\ Primary' = Primary /\ \A n : Outcome(n)' = Outcome(n)
    BY <1>1, SameProject
  <2>2. Gate' = Gate /\ \A n : Done(n)' <=> Done(n)
    BY <1>1 DEF Gate, Done
  <2>3. AnyFailed(steps)' <=> AnyFailed(steps)
    BY <1>1
  <2> QED BY <1>1, <1>5, <2>1, <2>2, <2>3 DEF WorkflowInv, GreenInv
<1> QED BY <1>2, <1>3, <1>4, <1>7, <1>8, <1>9 DEF WorkflowInv

(* A workflow that reached its end without a failure left no step out.     *)
LEMMA AllDone ==
  ASSUME WorkflowInv, setup.command # "ci", pc = "finish", ~AnyFailed(steps), NEW n \in RanScenario
  PROVE  Done(n)
<1>1. Len(steps) = Len(Surface) /\ steps \in Seq(StepRecords)
      /\ \A k \in DOMAIN steps : steps[k].name = Surface[k]
  <2>1. /\ \/ Len(steps) = Len(Surface)
           \/ Len(steps) \in 1..Len(Surface) /\ steps[Len(steps)].status = "failed"
        /\ steps \in Seq(StepRecords)
        /\ \A k \in DOMAIN steps : steps[k].name = Surface[k]
    BY NotOnMenu DEF WorkflowInv, PlaceInv, Ended
  <2>2. ~(Len(steps) \in 1..Len(Surface) /\ steps[Len(steps)].status = "failed")
    <3> SUFFICES ASSUME Len(steps) \in 1..Len(Surface), steps[Len(steps)].status = "failed"
                 PROVE  FALSE
      OBVIOUS
    <3>1. Len(steps) \in DOMAIN steps
      BY <2>1, LenProperties
    <3> QED BY <3>1 DEF AnyFailed
  <2> QED BY <2>1, <2>2
<1>2. \E j \in 2..Len(Menu) : Menu[j] = n
  <2>1. CASE Gate
    <3>1. ~Full
      BY <2>1 DEF Full, Gate
    <3>2. Menu = GateMenu /\ Len(Menu) = 12
      BY <3>1, GateMenuIs DEF Menu
    <3>3. Menu[5] = "test_det_strict" /\ Menu[6] = "run_record_trace" /\ Menu[8] = "replay"
      BY <3>2, GateMenuIs
    <3>4. n \in {"test_det_strict", "run_record_trace", "replay"}
      BY <2>1 DEF RanScenario
    <3>5. 5 \in 2..Len(Menu) /\ 6 \in 2..Len(Menu) /\ 8 \in 2..Len(Menu)
      BY <3>2
    <3> QED BY <3>3, <3>4, <3>5
  <2>2. CASE ~Gate
    <3>1. Full
      <4>1. setup.command \in {"full", "gate", "ci"}
        BY SetupsAssumption DEF WorkflowInv
      <4> QED BY <2>2, <4>1 DEF Full, Gate
    <3>2. Menu = FullMenu /\ Len(Menu) = 37
      BY <3>1, FullMenuIs DEF Menu
    <3>3. /\ Menu[8] = "test_det" /\ Menu[9] = "run_record_trace" /\ Menu[11] = "replay"
          /\ Menu[13] = "shrink" /\ Menu[20] = "report_query" /\ Menu[29] = "fuzz"
          /\ Menu[30] = "explore" /\ Menu[36] = "host_backends_run"
      BY <3>2, FullMenuIs
    <3>4. n \in {"test_det", "run_record_trace", "replay", "shrink", "report_query", "fuzz",
                 "explore", "host_backends_run"}
      BY <2>2 DEF RanScenario
    <3>5. /\ 8 \in 2..Len(Menu) /\ 9 \in 2..Len(Menu) /\ 11 \in 2..Len(Menu) /\ 13 \in 2..Len(Menu)
          /\ 20 \in 2..Len(Menu) /\ 29 \in 2..Len(Menu) /\ 30 \in 2..Len(Menu) /\ 36 \in 2..Len(Menu)
      BY <3>2
    <3> QED BY <3>3, <3>4, <3>5
  <2> QED BY <2>1, <2>2
<1>3. PICK j \in 2..Len(Menu) : Menu[j] = n
  BY <1>2
<1>4. j + Shift \in DOMAIN steps /\ Surface[j + Shift] = n
  <2>1. Len(steps) = Len(Menu) + Shift /\ Shift \in {0, 1} /\ Len(Menu) \in Nat
        /\ Surface[j + Shift] = Menu[j]
    BY <1>1, SurfaceIs, MenuIs
  <2>2. DOMAIN steps = 1..Len(steps)
    BY <1>1, LenProperties
  <2> QED BY <1>3, <2>1, <2>2
<1> QED BY <1>1, <1>4 DEF Done

LEMMA FinishKeeps ==
  ASSUME WorkflowInv, Finish
  PROVE  WorkflowInv'
<1>1. /\ pc = "finish" /\ waiting = None /\ pc' = "reported" /\ disk' = disk \ temps
      /\ steps' = [i \in DOMAIN steps |-> PolicyFiltered(steps[i])]
      /\ exit' = IF AnyFailed(steps') THEN 1 ELSE 0
      /\ UNCHANGED <<setup, waiting, aborted, run, temps, worker, faulty>>
  BY DEF Finish, AtStep
<1>2. ~Ended /\ Ended'
  BY <1>1 DEF Ended
<1>3. setup.command # "ci"
  BY <1>1 DEF WorkflowInv, CiInv
<1>4. /\ Len(steps) \in 0..Len(Surface) /\ steps \in Seq(StepRecords)
      /\ \A k \in DOMAIN steps : steps[k].name = Surface[k]
  <2>1. Len(Surface) \in Nat
    BY SurfaceIs, LenProperties
  <2> QED BY <1>1, <1>3, <2>1, NotOnMenu DEF WorkflowInv, PlaceInv, Ended
<1>5. \A e \in StepRecords : PolicyFiltered(e) \in StepRecords /\ PolicyFiltered(e).name = e.name
  <2> SUFFICES ASSUME NEW e \in StepRecords
               PROVE  PolicyFiltered(e) \in StepRecords /\ PolicyFiltered(e).name = e.name
    OBVIOUS
  <2>1. [e EXCEPT !.status = "skipped"] \in StepRecords
        /\ [e EXCEPT !.status = "skipped"].name = e.name
    BY DEF StepRecords, Statuses
  <2> QED BY <2>1 DEF PolicyFiltered
<1>6. /\ steps' \in Seq(StepRecords) /\ Len(steps') = Len(steps) /\ DOMAIN steps' = DOMAIN steps
      /\ \A k \in DOMAIN steps' : steps'[k].name = steps[k].name
  <2>1. DOMAIN steps = 1..Len(steps) /\ Len(steps) \in Nat
        /\ \A k \in DOMAIN steps : steps[k] \in StepRecords
    BY <1>4, LenProperties, ElementOfSeq
  <2> QED BY <1>1, <1>5, <2>1
<1>7. PlaceInv'
  <2>1. Surface' = Surface
    BY <1>1, SameMenu
  <2> QED BY <1>1, <1>2, <1>4, <1>6, <2>1 DEF PlaceInv
<1>8. FilesInv'
  <2>1. disk' = {} /\ (worker # None => worker \in ToSet(FullMenu))
    BY <1>1, <1>2 DEF WorkflowInv, FilesInv
  <2>2. "env" \in ToSet(FullMenu)
    BY InFullMenu DEF FullNames, MenuNames
  <2> QED BY <1>1, <1>2, <2>1, <2>2 DEF FilesInv
<1>9. CiInv' /\ WaitInv' /\ GreenInv' /\ RunInv' /\ setup' \in Setups
  BY <1>1, <1>2, <1>3 DEF CiInv, WaitInv, GreenInv, RunInv, WorkflowInv
<1>10. GreenMeansVerified'
  <2> SUFFICES ASSUME exit' = 0, setup.skip = {}, setup.required = {}
               PROVE  faulty' = {n \in RanScenario' : Outcome(n)' # "pass"}
    BY <1>1 DEF GreenMeansVerified
  <2>1. \A e : PolicyFiltered(e) = e
    BY DEF PolicyFiltered
  <2>2. steps' = steps
    <3>1. steps = [i \in DOMAIN steps |-> steps[i]]
      BY <1>4
    <3> QED BY <1>1, <2>1, <3>1
  <2>3. ~AnyFailed(steps)
    BY <1>1, <2>2
  <2>4. \A n \in faulty : n \in RanScenario /\ Outcome(n) # "pass"
    BY <1>1, <1>2, <1>3, <2>3 DEF WorkflowInv, GreenInv
  <2>5. \A n \in RanScenario : Outcome(n) # "pass" => n \in faulty
    BY <1>1, <1>2, <1>3, <2>3, AllDone DEF WorkflowInv, GreenInv
  <2>7. RanScenario' = RanScenario /\ \A n : Outcome(n)' = Outcome(n)
    BY <1>1, SameProject
  <2>8. faulty = {n \in RanScenario : Outcome(n) # "pass"}
    BY <2>4, <2>5
  <2> QED BY <1>1, <2>7, <2>8
<1>11. ExitInv'
  BY <1>2, <1>10 DEF ExitInv
<1> QED BY <1>6, <1>7, <1>8, <1>9, <1>11 DEF WorkflowInv

LEMMA CiCommandKeeps ==
  ASSUME WorkflowInv, CiCommand
  PROVE  WorkflowInv'
<1>1. /\ pc = "ci_command" /\ waiting = None /\ pc' = "reported"
      /\ UNCHANGED <<setup, steps, waiting, aborted, run, temps, disk, worker, faulty>>
  BY DEF CiCommand, AtStep
<1>2. ~Ended /\ Ended'
  BY <1>1 DEF Ended
<1>3. setup.command = "ci"
  BY <1>1, <1>2, NotOnMenu DEF WorkflowInv, PlaceInv
<1>4. CiInv' /\ PlaceInv'
  <2>1. Surface' = Surface
    BY <1>1, SameMenu
  <2> QED BY <1>1, <1>3, <2>1 DEF WorkflowInv, CiInv, PlaceInv
<1>5. FilesInv'
  <2>1. "env" \in ToSet(FullMenu)
    BY InFullMenu DEF FullNames, MenuNames
  <2> QED BY <1>1, <1>2, <1>3, <2>1 DEF WorkflowInv, CiInv, FilesInv
<1>6. WaitInv' /\ GreenInv' /\ RunInv' /\ setup' \in Setups /\ steps' \in Seq(StepRecords)
  BY <1>1, <1>2 DEF WaitInv, GreenInv, RunInv, WorkflowInv
<1>7. ExitInv'
  BY <1>1, <1>2, <1>3 DEF ExitInv, GreenMeansVerified
<1> QED BY <1>4, <1>5, <1>6, <1>7 DEF WorkflowInv

LEMMA ExitKeeps ==
  ASSUME WorkflowInv, Exit
  PROVE  WorkflowInv'
<1>1. /\ pc = "reported" /\ waiting = None /\ pc' = "exited" /\ worker' = None
      /\ UNCHANGED <<setup, steps, waiting, aborted, run, temps, disk, faulty, exit>>
  BY DEF Exit, AtStep
<1>2. Ended /\ Ended'
  BY <1>1 DEF Ended
<1>3. CiInv'
  BY <1>1 DEF WorkflowInv, CiInv
<1>4. PlaceInv'
  <2>1. Surface' = Surface
    BY <1>1, SameMenu
  <2>2. setup.command # "ci" => Len(steps) \in 0..Len(Surface)
    BY <1>1, NotOnMenu DEF WorkflowInv, PlaceInv
  <2> QED BY <1>1, <1>2, <2>1, <2>2 DEF WorkflowInv, PlaceInv
<1>5. FilesInv'
  <2>1. "env" \in ToSet(FullMenu)
    BY InFullMenu DEF FullNames, MenuNames
  <2> QED BY <1>1, <1>2, <2>1 DEF WorkflowInv, FilesInv
<1>6. WaitInv' /\ GreenInv' /\ RunInv' /\ setup' \in Setups /\ steps' \in Seq(StepRecords)
  BY <1>1, <1>2 DEF WaitInv, GreenInv, RunInv, WorkflowInv
<1>7. ExitInv'
  <2>1. GreenMeansVerified'
    BY <1>1, <1>2, EndedKeepsGreen DEF WorkflowInv, ExitInv
  <2> QED BY <1>2, <2>1 DEF ExitInv
<1> QED BY <1>3, <1>4, <1>5, <1>6, <1>7 DEF WorkflowInv

LEMMA WorkflowStarts ==
  ASSUME WorkflowInit
  PROVE  WorkflowInv
<1>1. /\ setup \in Setups /\ steps = <<>> /\ waiting = None /\ temps = {} /\ disk = {}
      /\ worker = None /\ faulty = {} /\ exit = None
      /\ pc = IF setup.command = "ci" THEN "ci_command" ELSE "clean_tree"
      /\ run = [cwd |-> "project", trace |-> FALSE, status |-> None, shrunk_status |-> None,
                replayed |-> FALSE, classification |-> None]
  BY DEF WorkflowInit
<1>2. ~Ended
  BY <1>1 DEF Ended
<1>3. CiInv
  BY <1>1 DEF CiInv
<1>4. PlaceInv
  <2>1. DOMAIN steps = {} /\ Len(steps) = 0
    BY <1>1
  <2>2. setup.command # "ci" => 1 \in 1..Len(Menu) /\ AtMenu(1)
    BY <1>1, <2>1, MenuIs DEF AtMenu
  <2> QED BY <2>1, <2>2 DEF PlaceInv
<1>5. WaitInv /\ FilesInv /\ ExitInv /\ RunInv /\ steps \in Seq(StepRecords)
  BY <1>1, <1>2 DEF WaitInv, FilesInv, ExitInv, RunInv
<1>6. GreenInv
  <2>1. DOMAIN steps = {}
    BY <1>1
  <2>2. \A n : ~Done(n)
    BY <2>1 DEF Done
  <2> QED BY <1>1, <2>2 DEF GreenInv
<1> QED BY <1>1, <1>3, <1>4, <1>5, <1>6 DEF WorkflowInv

LEMMA WorkflowStutters ==
  ASSUME WorkflowInv, UNCHANGED workflow_vars
  PROVE  WorkflowInv'
<1>1. UNCHANGED <<setup, pc, steps, waiting, aborted, run, temps, disk, worker, faulty, exit>>
  BY DEF workflow_vars
<1>2. PlaceInv' /\ RunInv' /\ setup' \in Setups /\ steps' \in Seq(StepRecords)
  BY <1>1, PlaceStays DEF WorkflowInv, RunInv
<1>3. CiInv' /\ WaitInv'
  BY <1>1 DEF WorkflowInv, CiInv, WaitInv
<1>4. Ended' <=> Ended
  BY <1>1 DEF Ended
<1>5. FilesInv'
  BY <1>1, <1>4 DEF WorkflowInv, FilesInv
<1>6. ExitInv'
  <2>1. Ended => GreenMeansVerified'
    BY <1>1, EndedKeepsGreen DEF WorkflowInv, ExitInv
  <2> QED BY <1>1, <1>4, <2>1 DEF WorkflowInv, ExitInv
<1>7. GreenInv'
  <2>1. RanScenario' = RanScenario /\ Primary' = Primary /\ \A n : Outcome(n)' = Outcome(n)
    BY <1>1, SameProject
  <2>2. Gate' = Gate /\ \A n : Done(n)' <=> Done(n)
    BY <1>1 DEF Gate, Done
  <2>3. AnyFailed(steps)' <=> AnyFailed(steps)
    BY <1>1
  <2> QED BY <1>1, <1>4, <2>1, <2>2, <2>3 DEF WorkflowInv, GreenInv
<1> QED BY <1>2, <1>3, <1>5, <1>6, <1>7 DEF WorkflowInv

-----------------------------------------------------------------------------
(* Every step of the workflows and of their threads keeps the invariant.   *)
LEMMA WorkflowSteps ==
  ASSUME WorkflowInv, [WorkflowNext]_workflow_vars
  PROVE  WorkflowInv'
<1>1. CASE CleanTree
  BY <1>1, CleanTreeKeeps
<1>2. CASE PolicyConflict
  BY <1>2, PolicyConflictKeeps
<1>3. CASE UsageAndVersion
  BY <1>3, UsageAndVersionKeeps
<1>4. CASE InitCheck
  BY <1>4, InitCheckKeeps
<1>5. CASE InitCannotReturn
  BY <1>5, InitCannotReturnKeeps
<1>6. CASE DiscoverScenarios
  BY <1>6, DiscoverScenariosKeeps
<1>7. CASE TopologyCoverage
  BY <1>7, TopologyCoverageKeeps
<1>8. CASE GateDiscover
  BY <1>8, GateDiscoverKeeps
<1>9. CASE ScopeMatch
  BY <1>9, ScopeMatchKeeps
<1>10. CASE DoctorDeep
  BY <1>10, DoctorDeepKeeps
<1>11. CASE GateDoctor
  BY <1>11, GateDoctorKeeps
<1>12. CASE TestDet
  BY <1>12, TestDetKeeps
<1>13. CASE TestDetStrict
  BY <1>13, TestDetStrictKeeps
<1>14. CASE RunRecordTrace
  BY <1>14, RunRecordTraceKeeps
<1>15. CASE GateRecord
  BY <1>15, GateRecordKeeps
<1>16. CASE NoTrace
  BY <1>16, NoTraceKeeps
<1>17. CASE GateNoTrace
  BY <1>17, GateNoTraceKeeps
<1>18. CASE TraceVerify
  BY <1>18, TraceVerifyKeeps
<1>19. CASE Replay
  BY <1>19, ReplayKeeps
<1>20. CASE GateReplay
  BY <1>20, GateReplayKeeps
<1>21. CASE Ci
  BY <1>21, CiKeeps
<1>22. CASE GateCi
  BY <1>22, GateCiKeeps
<1>23. CASE Shrink
  BY <1>23, ShrinkKeeps
<1>24. CASE ReplayShrunk
  BY <1>24, ReplayShrunkKeeps
<1>25. CASE ArtifactsLs
  BY <1>25, ArtifactsLsKeeps
<1>26. CASE ArtifactsExport
  BY <1>26, ArtifactsExportKeeps
<1>27. CASE ArtifactsPack
  BY <1>27, ArtifactsPackKeeps
<1>28. CASE ArtifactsDiff
  BY <1>28, ArtifactsDiffKeeps
<1>29. CASE ReportShow
  BY <1>29, ReportShowKeeps
<1>30. CASE ReportQuery
  BY <1>30, ReportQueryKeeps
<1>31. CASE ReportQueryPaths
  BY <1>31, ReportQueryPathsKeeps
<1>32. CASE ReportFlaky
  BY <1>32, ReportFlakyKeeps
<1>33. CASE MemoryTopStep
  BY <1>33, MemoryTopKeeps
<1>34. CASE MemoryGraphStep
  BY <1>34, MemoryGraphKeeps
<1>35. CASE MemoryDiffStep
  BY <1>35, MemoryDiffKeeps
<1>36. CASE ProfileTop
  BY <1>36, ProfileTopKeeps
<1>37. CASE ProfileDiffStep
  BY <1>37, ProfileDiffKeeps
<1>38. CASE GateProfileDiff
  BY <1>38, GateProfileDiffKeeps
<1>39. CASE ProfileExplain
  BY <1>39, ProfileExplainKeeps
<1>40. CASE FuzzStep
  BY <1>40, FuzzStepKeeps
<1>41. CASE ExploreStep
  BY <1>41, ExploreStepKeeps
<1>42. CASE CorpusDirFails
  BY <1>42, CorpusDirFailsKeeps
<1>43. CASE CorpusAdd
  BY <1>43, CorpusAddKeeps
<1>44. CASE CorpusList
  BY <1>44, CorpusListKeeps
<1>45. CASE CorpusMinimize
  BY <1>45, CorpusMinimizeKeeps
<1>46. CASE CorpusExport
  BY <1>46, CorpusExportKeeps
<1>47. CASE CorpusImport
  BY <1>47, CorpusImportKeeps
<1>48. CASE HostBackends
  BY <1>48, HostBackendsKeeps
<1>49. CASE Env
  BY <1>49, EnvKeeps
<1>50. CASE GiveUp
  BY <1>50, GiveUpKeeps
<1>51. CASE Finish
  BY <1>51, FinishKeeps
<1>52. CASE CiCommand
  BY <1>52, CiCommandKeeps
<1>53. CASE Exit
  BY <1>53, ExitKeeps
<1>54. CASE WorkerEnds
  BY <1>54, WorkerEndsKeeps
<1>55. CASE MissedTrace
  BY <1>55, MissedTraceKeeps
<1>56. CASE MissedOtherTrace
  BY <1>56, MissedOtherTraceKeeps
<1>57. CASE MissedInTrace
  BY <1>57, MissedInTraceKeeps
<1>58. CASE MissedInFiles
  BY <1>58, MissedInFilesKeeps
<1>59. CASE UNCHANGED workflow_vars
  BY <1>59, WorkflowStutters
<1> QED BY <1>1, <1>2, <1>3, <1>4, <1>5, <1>6, <1>7, <1>8, <1>9, <1>10, <1>11, <1>12, <1>13,
         <1>14, <1>15, <1>16, <1>17, <1>18, <1>19, <1>20, <1>21, <1>22, <1>23, <1>24, <1>25,
         <1>26, <1>27, <1>28, <1>29, <1>30, <1>31, <1>32, <1>33, <1>34, <1>35, <1>36, <1>37,
         <1>38, <1>39, <1>40, <1>41, <1>42, <1>43, <1>44, <1>45, <1>46, <1>47, <1>48, <1>49,
         <1>50, <1>51, <1>52, <1>53, <1>54, <1>55, <1>56, <1>57, <1>58, <1>59
      DEF WorkflowNext, Step

(* The inductive invariant holds throughout, for every project, command    *)
(* line and policy of the setups.                                          *)
THEOREM WorkflowInductive == WorkflowSpec => []WorkflowInv
<1>1. WorkflowInit => WorkflowInv
  BY WorkflowStarts
<1>2. WorkflowInv /\ [WorkflowNext]_workflow_vars => WorkflowInv'
  BY WorkflowSteps
<1> QED BY <1>1, <1>2, PTL DEF WorkflowSpec

LEMMA InvCoversMenu == WorkflowInv => StepsCoverMenu
<1> SUFFICES ASSUME WorkflowInv, pc \in {"finish", "reported", "exited"}, setup.command # "ci"
             PROVE  /\ Names(steps) = SubSeq(Surface, 1, Len(steps))
                    /\ pc = "finish" /\ Len(steps) < Len(Surface) => Last(steps).status = "failed"
  BY DEF StepsCoverMenu
<1> DEFINE l == Len(steps)
           s == Len(Surface)
<1>1. steps \in Seq(StepRecords) /\ Surface \in Seq(StepNames)
  BY SurfaceIs DEF WorkflowInv
<1>2. l \in Nat /\ s \in Nat /\ DOMAIN steps = 1..l
  BY <1>1, LenProperties
<1>3. \A k \in 1..l : steps[k].name = Surface[k]
  BY <1>2 DEF WorkflowInv, PlaceInv
<1>4. \/ pc = "finish" /\ (l = s \/ (l \in 1..s /\ steps[l].status = "failed"))
      \/ pc # "finish" /\ l \in 0..s
  BY NotOnMenu DEF WorkflowInv, PlaceInv, Ended
<1>5. Names(steps) = [k \in 1..l |-> Surface[k]]
  BY <1>2, <1>3 DEF Names
<1>6. SubSeq(Surface, 1, l) = [k \in 1..l |-> Surface[k]]
  <2>1. l - 1 + 1 = l /\ \A k \in 1..l : 1 + k - 1 = k
    BY <1>2
  <2> QED BY <1>1, <1>2, <1>4, <2>1, SubSeqProperties
<1>7. pc = "finish" /\ l < s => Last(steps).status = "failed"
  <2> SUFFICES ASSUME pc = "finish", l < s PROVE Last(steps).status = "failed"
    OBVIOUS
  <2>1. steps[l].status = "failed"
    BY <1>2, <1>4
  <2> QED BY <2>1 DEF Last
<1> QED BY <1>5, <1>6, <1>7

LEMMA InvVerifies == WorkflowInv => GreenMeansVerified
<1> SUFFICES ASSUME WorkflowInv PROVE GreenMeansVerified
  OBVIOUS
<1>1. CASE Ended
  BY <1>1 DEF WorkflowInv, ExitInv
<1>2. CASE ~Ended
  <2>1. exit = None
    BY <1>2 DEF WorkflowInv, ExitInv
  <2>2. 0 \in Nat /\ None \notin Nat
    BY NoneAssumption
  <2>3. exit # 0
    BY <2>1, <2>2
  <2> QED BY <2>3 DEF GreenMeansVerified
<1> QED BY <1>1, <1>2

LEMMA InvCleansUp == WorkflowInv => OwnFilesRemoved
<1> SUFFICES ASSUME WorkflowInv, Ended
             PROVE  \E n \in ToSet(FullMenu) : disk \subseteq WrittenBy(n)
  BY DEF OwnFilesRemoved, Ended
<1>1. CASE worker # None
  <2>1. disk = {} /\ worker \in ToSet(FullMenu)
    BY <1>1 DEF WorkflowInv, FilesInv
  <2> QED BY <2>1
<1>2. CASE worker = None
  BY <1>2 DEF WorkflowInv, FilesInv
<1> QED BY <1>1, <1>2

(* StepsCoverMenu of Workflow: whatever is missing, fails or never answers, *)
(* run_full and run_gate of full.rs push every step of their surface, once  *)
(* and in order, or stop at one that failed.                                *)
THEOREM WorkflowsCoverTheirMenu == WorkflowSpec => []StepsCoverMenu
BY WorkflowInductive, InvCoversMenu, PTL

(* GreenMeansVerified of Workflow: exit code 0 without step policies means  *)
(* that no step met an error, a missed deadline or a wrong answer of a kind *)
(* its check looks at (the sets beside the steps of Workflow), but where a  *)
(* scenario does not pass and each of its steps was told that it did.  It   *)
(* holds whatever answers the checks do not look at were let through.       *)
THEOREM GreenWorkflowsAreVerified == WorkflowSpec => []GreenMeansVerified
BY WorkflowInductive, InvVerifies, PTL

(* OwnFilesRemoved of Workflow: what a finished workflow leaves in the      *)
(* temporary directory was written by one thread it had given up on.        *)
THEOREM WorkflowsRemoveTheirFiles == WorkflowSpec => []OwnFilesRemoved
BY WorkflowInductive, InvCleansUp, PTL

(* The specification that TLC's run checks adds only fairness.             *)
THEOREM FairWorkflowIsWorkflow == WorkflowFairSpec => WorkflowSpec
BY PTL DEF WorkflowFairSpec

-----------------------------------------------------------------------------
(* The corpus directory and its commands.                                  *)

USE PayloadsAssumption, NothingAssumption

IsSeq(es) == es \in Seq({es[i] : i \in DOMAIN es})

(* The entries of an archive, too, hold what their names say.              *)
Told(es) ==
  \A i \in DOMAIN es, c \in Payloads \ misread : es[i][1] = Input(c) => es[i][2] = c

CmdTyped ==
  /\ cmd = [name |-> cmd.name, stage |-> cmd.stage, ok |-> cmd.ok, todo |-> cmd.todo,
            read |-> cmd.read, late |-> cmd.late, entries |-> cmd.entries,
            next |-> cmd.next, payload |-> cmd.payload]
  /\ cmd.stage # "done" => ~cmd.ok
  /\ cmd.name \in {"none", "add", "minimize", "export", "import"}
  /\ cmd.name \in {"export", "import"} => IsSeq(cmd.entries)
  /\ cmd.name = "import" => cmd.next \in Nat \ {0}

ArchiveTyped == archive # Nothing => IsSeq(archive)

WritingTyped ==
  writing # Nothing =>
    /\ writing \in [payload : Payloads, linked : BOOLEAN]
    /\ writing.linked => Input(writing.payload) \in Paths

Adding(c) == Running("add", "write") /\ cmd.payload = c

AddTyped ==
  Running("add", "write") => cmd.payload \in Payloads /\ Input(cmd.payload) \in Paths

Typed == CmdTyped /\ ArchiveTyped /\ WritingTyped /\ AddTyped

(* What an import is about to rename is its entry.                         *)
CopyIsEntry ==
  /\ Running("import", "copy") \/ Running("import", "rename") =>
       cmd.next \in DOMAIN cmd.entries /\ Tmp(Entry[1]) \in Paths
  /\ Running("import", "rename") => dir[Tmp(Entry[1])] = Entry[2]

ArchivesTell ==
  /\ archive # Nothing => Told(archive)
  /\ cmd.name \in {"export", "import"} => Told(cmd.entries)

(* A name tells the contents unless the very file is being written.        *)
NamesTell ==
  \A c \in Payloads \ (torn \cup misread) :
    Input(c) \in Paths /\ ~Adding(c) /\ ~Persisting(c) => dir[Input(c)] = c

NamesInv == Typed /\ CopyIsEntry /\ ArchivesTell /\ NamesTell

-----------------------------------------------------------------------------
LEMMA InputFields ==
  ASSUME NEW c
  PROVE  Input(c)[1] = "input" /\ Input(c)[2] = c
BY DEF Input

LEMMA InputIsInjective ==
  ASSUME NEW a, NEW b, Input(a) = Input(b)
  PROVE  a = b
BY DEF Input

LEMMA InputIsNoTmp ==
  ASSUME NEW c, NEW p
  PROVE  Input(c) # Tmp(p) /\ Input(c)[1] = "input"
<1>1. Input(c)[1] = "input" /\ Tmp(p)[1] = "tmp"
  BY DEF Input, Tmp
<1>2. QED BY <1>1

LEMMA TmpKind ==
  ASSUME NEW p
  PROVE  Tmp(p)[1] = "tmp"
BY DEF Tmp

LEMMA AppendFacts ==
  ASSUME NEW es, NEW e, IsSeq(es)
  PROVE  /\ IsSeq(Append(es, e))
         /\ \A i \in DOMAIN Append(es, e) :
              (i \in DOMAIN es /\ Append(es, e)[i] = es[i]) \/ Append(es, e)[i] = e
         /\ \A i \in DOMAIN es : i \in DOMAIN Append(es, e) /\ Append(es, e)[i] = es[i]
         /\ \E i \in DOMAIN Append(es, e) : Append(es, e)[i] = e
<1> DEFINE S == {es[i] : i \in DOMAIN es} \cup {e}
           a == Append(es, e)
<1>1. es \in Seq(S)
  BY DEF IsSeq
<1>2. /\ a \in Seq(S) /\ DOMAIN a = 1..(Len(es) + 1) /\ DOMAIN es = 1..Len(es)
      /\ Len(es) \in Nat
      /\ \A i \in 1..Len(es) : a[i] = es[i]
      /\ a[Len(es) + 1] = e
  BY <1>1
<1>3. \A i \in DOMAIN a : (i \in DOMAIN es /\ a[i] = es[i]) \/ a[i] = e
  BY <1>2
<1>4. \A i \in DOMAIN a : a[i] \in {a[j] : j \in DOMAIN a}
  OBVIOUS
<1>5. a \in Seq({a[j] : j \in DOMAIN a})
  <2>1. a \in [1..Len(a) -> S] /\ Len(a) \in Nat
    BY <1>2, LenProperties
  <2>2. a \in [1..Len(a) -> {a[j] : j \in DOMAIN a}]
    BY <2>1, <1>4
  <2>3. QED BY <2>1, <2>2, SeqDef
<1>6. /\ \A i \in DOMAIN es : i \in DOMAIN a /\ a[i] = es[i]
      /\ \E i \in DOMAIN a : a[i] = e
  BY <1>2
<1>7. QED BY <1>3, <1>5, <1>6 DEF IsSeq

LEMMA InitNames == Init => NamesInv
<1> SUFFICES ASSUME Init PROVE NamesInv
  OBVIOUS
<1>1. cmd.name = "none" /\ cmd.stage = "done" /\ ~cmd.ok
  BY DEF Init, Idle
<1>2. CmdTyped
  BY <1>1 DEF Init, Idle, CmdTyped
<1>3. /\ archive # Nothing => IsSeq(archive)
      /\ archive # Nothing => Told(archive)
      /\ NamesTell
  <2>1. setting \in Corpora /\ dir = setting.files /\ archive = setting.archive
    BY DEF Init
  <2>2. NamesTell
    BY <2>1, CorporaAssumption, InputFields DEF NamesTell, Paths
  <2>3. archive # Nothing =>
          /\ IsSeq(archive)
          /\ \A i \in DOMAIN archive :
               archive[i][1][1] = "input" => archive[i][2] = archive[i][1][2]
    <3>1. setting.archive # Nothing => IsSeq(setting.archive)
      BY <2>1, CorporaAssumption DEF IsSeq
    <3>2. QED BY <2>1, <3>1, CorporaAssumption
  <2>4. archive # Nothing => Told(archive)
    BY <2>3, InputFields DEF Told
  <2>5. QED BY <2>2, <2>3, <2>4
<1>4. QED
  BY <1>1, <1>2, <1>3 DEF Init, NamesInv, Typed, ArchiveTyped, WritingTyped, AddTyped,
     CopyIsEntry, ArchivesTell, Running

(* The steps that change neither files nor entries, a kill included.       *)
Quiet ==
  MinimizeRead \/ MinimizeStage \/ MinimizeEnd \/ Expire \/ MinimizeFails \/ ImportEnd \/ Kill

LEMMA QuietNames ==
  ASSUME NamesInv, Quiet
  PROVE  NamesInv'
<1> USE DEF NamesInv, Typed, Running, counters, history
<1>1. /\ CmdTyped'
      /\ cmd'.name = cmd.name /\ cmd'.entries = cmd.entries
      /\ cmd'.name \in {"add", "import"} => cmd'.stage = "done"
      /\ \A c : Adding(c) => c \in torn'
      /\ torn \subseteq torn'
      /\ UNCHANGED <<dir, archive, writing, misread>>
  <2> USE DEF CmdTyped, End, Adding
  <2>1. CASE MinimizeRead
    BY <2>1 DEF MinimizeRead
  <2>2. CASE MinimizeStage
    BY <2>2 DEF MinimizeStage
  <2>3. CASE MinimizeEnd
    BY <2>3 DEF MinimizeEnd
  <2>4. CASE Expire
    BY <2>4 DEF Expire
  <2>5. CASE MinimizeFails
    BY <2>5 DEF MinimizeFails
  <2>6. CASE ImportEnd
    BY <2>6 DEF ImportEnd
  <2>7. CASE Kill
    BY <2>7 DEF Kill
  <2>8. QED BY <2>1, <2>2, <2>3, <2>4, <2>5, <2>6, <2>7 DEF Quiet
<1>2. ArchiveTyped' /\ WritingTyped' /\ AddTyped' /\ CopyIsEntry'
  BY <1>1 DEF ArchiveTyped, WritingTyped, AddTyped, CopyIsEntry, Paths
<1>3. ArchivesTell'
  BY <1>1 DEF ArchivesTell, Told
<1>4. NamesTell'
  BY <1>1 DEF NamesTell, Adding, Persisting, Paths
<1>5. QED BY <1>1, <1>2, <1>3, <1>4

LEMMA PersistNames == NamesInv /\ Persist => NamesInv'
<1> SUFFICES ASSUME NamesInv, Persist PROVE NamesInv'
  OBVIOUS
<1> USE DEF Persist, counters, history, Running, Paths, With
<1>1. CmdTyped'
  BY DEF NamesInv, Typed, CmdTyped, InTime
<1>2. ArchiveTyped' /\ WritingTyped' /\ AddTyped'
  BY DEF NamesInv, Typed, CmdTyped, ArchiveTyped, WritingTyped, AddTyped, Persisting, Input
<1>3. CopyIsEntry'
  BY DEF NamesInv, Typed, CmdTyped, CopyIsEntry, Entry, Tmp, Input
<1>4. ArchivesTell'
  BY DEF NamesInv, Typed, CmdTyped, ArchivesTell, Told
<1>5. NamesTell'
  <2>1. PICK c \in Payloads \ {Empty} :
          /\ Input(c) \notin Paths
          /\ dir' = With(Input(c), Empty)
          /\ writing' = [payload |-> c, linked |-> TRUE]
    OBVIOUS
  <2>2. Persisting(c)'
    <3>1. /\ writing' \in [payload : Payloads, linked : BOOLEAN]
          /\ writing'.payload = c /\ writing'.linked
      BY <2>1
    <3>2. QED BY <3>1 DEF Persisting
  <2>3. QED
    BY <2>1, <2>2, InputIsInjective DEF NamesInv, NamesTell, Adding, Persisting
<1>6. QED BY <1>1, <1>2, <1>3, <1>4, <1>5 DEF NamesInv, Typed

LEMMA PersistWriteNames == NamesInv /\ PersistWrite => NamesInv'
<1> SUFFICES ASSUME NamesInv, PersistWrite PROVE NamesInv'
  OBVIOUS
<1> USE DEF PersistWrite, counters, history, Running, Paths
<1>1. CmdTyped'
  BY DEF NamesInv, Typed, CmdTyped, InTime
<1>2. ArchiveTyped' /\ WritingTyped' /\ AddTyped'
  BY DEF NamesInv, Typed, CmdTyped, ArchiveTyped, WritingTyped, AddTyped, Persisting, Input
<1>3. CopyIsEntry'
  BY DEF NamesInv, Typed, CmdTyped, CopyIsEntry, Entry, Tmp, Input
<1>4. ArchivesTell'
  BY DEF NamesInv, Typed, CmdTyped, ArchivesTell, Told
<1>5. NamesTell'
  BY InputIsInjective DEF NamesInv, Typed, CmdTyped, WritingTyped, AddTyped, NamesTell,
     Adding, Persisting
<1>6. QED BY <1>1, <1>2, <1>3, <1>4, <1>5 DEF NamesInv, Typed

LEMMA PersistKilledNames == NamesInv /\ PersistKilled => NamesInv'
<1> SUFFICES ASSUME NamesInv, PersistKilled PROVE NamesInv'
  OBVIOUS
<1> USE DEF PersistKilled, counters, history, Running, Paths
<1>1. CmdTyped'
  BY DEF NamesInv, Typed, CmdTyped, InTime
<1>2. ArchiveTyped' /\ WritingTyped' /\ AddTyped'
  BY DEF NamesInv, Typed, CmdTyped, ArchiveTyped, WritingTyped, AddTyped, Persisting, Input
<1>3. CopyIsEntry'
  BY DEF NamesInv, Typed, CmdTyped, CopyIsEntry, Entry, Tmp, Input
<1>4. ArchivesTell'
  BY DEF NamesInv, Typed, CmdTyped, ArchivesTell, Told
<1>5. NamesTell'
  BY InputIsInjective DEF NamesInv, Typed, CmdTyped, WritingTyped, AddTyped, NamesTell,
     Adding, Persisting
<1>6. QED BY <1>1, <1>2, <1>3, <1>4, <1>5 DEF NamesInv, Typed

LEMMA AddOpenNames == NamesInv /\ AddOpen => NamesInv'
<1> SUFFICES ASSUME NamesInv, AddOpen PROVE NamesInv'
  OBVIOUS
<1> USE DEF AddOpen, counters, history, Running, Paths, With, Begin, Idle
<1>1. CmdTyped'
  BY DEF NamesInv, Typed, CmdTyped, InTime
<1>2. ArchiveTyped' /\ WritingTyped' /\ AddTyped'
  BY DEF NamesInv, Typed, CmdTyped, ArchiveTyped, WritingTyped, AddTyped, Persisting, Input
<1>3. CopyIsEntry'
  BY DEF NamesInv, Typed, CmdTyped, CopyIsEntry, Entry, Tmp, Input
<1>4. ArchivesTell'
  BY DEF NamesInv, Typed, CmdTyped, ArchivesTell, Told
<1>5. NamesTell'
  BY InputIsInjective DEF NamesInv, Typed, CmdTyped, WritingTyped, AddTyped, NamesTell,
     Adding, Persisting
<1>6. QED BY <1>1, <1>2, <1>3, <1>4, <1>5 DEF NamesInv, Typed

LEMMA AddWriteNames == NamesInv /\ AddWrite => NamesInv'
<1> SUFFICES ASSUME NamesInv, AddWrite PROVE NamesInv'
  OBVIOUS
<1> USE DEF AddWrite, counters, history, Running, Paths, End
<1>1. CmdTyped'
  BY DEF NamesInv, Typed, CmdTyped, InTime
<1>2. ArchiveTyped' /\ WritingTyped' /\ AddTyped'
  BY DEF NamesInv, Typed, CmdTyped, ArchiveTyped, WritingTyped, AddTyped, Persisting, Input
<1>3. CopyIsEntry'
  BY DEF NamesInv, Typed, CmdTyped, CopyIsEntry, Entry, Tmp, Input
<1>4. ArchivesTell'
  BY DEF NamesInv, Typed, CmdTyped, ArchivesTell, Told
<1>5. NamesTell'
  BY InputIsInjective DEF NamesInv, Typed, CmdTyped, WritingTyped, AddTyped, NamesTell,
     Adding, Persisting
<1>6. QED BY <1>1, <1>2, <1>3, <1>4, <1>5 DEF NamesInv, Typed

LEMMA MinimizeScanNames == NamesInv /\ MinimizeScan => NamesInv'
<1> SUFFICES ASSUME NamesInv, MinimizeScan PROVE NamesInv'
  OBVIOUS
<1> USE DEF MinimizeScan, counters, history, Running, Paths, Begin, Idle
<1>1. CmdTyped'
  BY DEF NamesInv, Typed, CmdTyped, InTime
<1>2. ArchiveTyped' /\ WritingTyped' /\ AddTyped'
  BY DEF NamesInv, Typed, CmdTyped, ArchiveTyped, WritingTyped, AddTyped, Persisting, Input
<1>3. CopyIsEntry'
  BY DEF NamesInv, Typed, CmdTyped, CopyIsEntry, Entry, Tmp, Input
<1>4. ArchivesTell'
  BY DEF NamesInv, Typed, CmdTyped, ArchivesTell, Told
<1>5. NamesTell'
  BY InputIsInjective DEF NamesInv, Typed, CmdTyped, WritingTyped, AddTyped, NamesTell,
     Adding, Persisting
<1>6. QED BY <1>1, <1>2, <1>3, <1>4, <1>5 DEF NamesInv, Typed

LEMMA MinimizeRemoveNames == NamesInv /\ MinimizeRemove => NamesInv'
<1> SUFFICES ASSUME NamesInv, MinimizeRemove PROVE NamesInv'
  OBVIOUS
<1> USE DEF MinimizeRemove, counters, history, Running, Paths, Without, Unlinked
<1>1. CmdTyped'
  BY DEF NamesInv, Typed, CmdTyped, InTime
<1>2. ArchiveTyped' /\ WritingTyped' /\ AddTyped'
  BY DEF NamesInv, Typed, CmdTyped, ArchiveTyped, WritingTyped, AddTyped, Persisting, Input
<1>3. CopyIsEntry'
  BY DEF NamesInv, Typed, CmdTyped, CopyIsEntry, Entry, Tmp, Input
<1>4. ArchivesTell'
  BY DEF NamesInv, Typed, CmdTyped, ArchivesTell, Told
<1>5. NamesTell'
  BY InputIsInjective DEF NamesInv, Typed, CmdTyped, WritingTyped, AddTyped, NamesTell,
     Adding, Persisting
<1>6. QED BY <1>1, <1>2, <1>3, <1>4, <1>5 DEF NamesInv, Typed

LEMMA MinimizeRenameNames == NamesInv /\ MinimizeRename => NamesInv'
<1> SUFFICES ASSUME NamesInv, MinimizeRename PROVE NamesInv'
  OBVIOUS
<1> USE DEF MinimizeRename, counters, history, Running, Paths, With, Unlinked
<1>1. CmdTyped'
  BY DEF NamesInv, Typed, CmdTyped, InTime
<1>2. ArchiveTyped' /\ WritingTyped' /\ AddTyped'
  BY DEF NamesInv, Typed, CmdTyped, ArchiveTyped, WritingTyped, AddTyped, Persisting, Input
<1>3. CopyIsEntry'
  BY DEF NamesInv, Typed, CmdTyped, CopyIsEntry, Entry, Tmp, Input
<1>4. ArchivesTell'
  BY DEF NamesInv, Typed, CmdTyped, ArchivesTell, Told
<1>5. NamesTell'
  BY InputIsInjective DEF NamesInv, Typed, CmdTyped, WritingTyped, AddTyped, NamesTell,
     Adding, Persisting
<1>6. QED BY <1>1, <1>2, <1>3, <1>4, <1>5 DEF NamesInv, Typed

LEMMA ExportOpenNames == NamesInv /\ ExportOpen => NamesInv'
<1> SUFFICES ASSUME NamesInv, ExportOpen PROVE NamesInv'
  OBVIOUS
<1> USE DEF ExportOpen, counters, history, Running, Paths, Begin, Idle
<1>1. CmdTyped'
  <2>1. IsSeq(<<>>)
    BY DEF IsSeq
  <2>2. QED BY <2>1 DEF CmdTyped
<1>2. ArchiveTyped' /\ WritingTyped' /\ AddTyped'
  BY DEF NamesInv, Typed, CmdTyped, ArchiveTyped, WritingTyped, AddTyped, Persisting, Input
<1>3. CopyIsEntry'
  BY DEF NamesInv, Typed, CmdTyped, CopyIsEntry, Entry, Tmp, Input
<1>4. ArchivesTell'
  BY DEF NamesInv, Typed, CmdTyped, ArchivesTell, Told
<1>5. NamesTell'
  BY InputIsInjective DEF NamesInv, Typed, CmdTyped, WritingTyped, AddTyped, NamesTell,
     Adding, Persisting
<1>6. QED BY <1>1, <1>2, <1>3, <1>4, <1>5 DEF NamesInv, Typed

LEMMA ExportFileNames == NamesInv /\ ExportFile => NamesInv'
<1> SUFFICES ASSUME NamesInv, ExportFile PROVE NamesInv'
  OBVIOUS
<1> USE DEF ExportFile, counters, history, Running, Paths
<1>1. CmdTyped'
  BY AppendFacts DEF NamesInv, Typed, CmdTyped
<1>2. ArchiveTyped' /\ WritingTyped' /\ AddTyped'
  BY DEF NamesInv, Typed, CmdTyped, ArchiveTyped, WritingTyped, AddTyped, Persisting, Input
<1>3. CopyIsEntry'
  BY DEF NamesInv, Typed, CmdTyped, CopyIsEntry, Entry, Tmp, Input
<1>4. ArchivesTell'
  BY DEF NamesInv, Typed, CmdTyped, ArchivesTell, Told
<1>5. NamesTell'
  BY InputIsInjective DEF NamesInv, Typed, CmdTyped, WritingTyped, AddTyped, NamesTell,
     Adding, Persisting
<1>6. QED BY <1>1, <1>2, <1>3, <1>4, <1>5 DEF NamesInv, Typed

LEMMA ExportRenameNames == NamesInv /\ ExportRename => NamesInv'
<1> SUFFICES ASSUME NamesInv, ExportRename PROVE NamesInv'
  OBVIOUS
<1> USE DEF ExportRename, counters, history, Running, Paths, End
<1>1. CmdTyped'
  BY DEF NamesInv, Typed, CmdTyped, InTime
<1>2. ArchiveTyped' /\ WritingTyped' /\ AddTyped'
  BY DEF NamesInv, Typed, CmdTyped, ArchiveTyped, WritingTyped, AddTyped, Persisting, Input
<1>3. CopyIsEntry'
  BY DEF NamesInv, Typed, CmdTyped, CopyIsEntry, Entry, Tmp, Input
<1>4. ArchivesTell'
  BY DEF NamesInv, Typed, CmdTyped, ArchivesTell, Told
<1>5. NamesTell'
  BY InputIsInjective DEF NamesInv, Typed, CmdTyped, WritingTyped, AddTyped, NamesTell,
     Adding, Persisting
<1>6. QED BY <1>1, <1>2, <1>3, <1>4, <1>5 DEF NamesInv, Typed

LEMMA ImportCheckNames == NamesInv /\ ImportCheck => NamesInv'
<1> SUFFICES ASSUME NamesInv, ImportCheck PROVE NamesInv'
  OBVIOUS
<1>0. archive # Nothing => IsSeq(archive)
  BY DEF NamesInv, Typed, ArchiveTyped
<1> USE DEF ImportCheck, counters, history, Running, Paths, Begin, Idle
<1>1. CmdTyped'
  <2>1. IsSeq(archive)
    BY <1>0
  <2>2. PICK st \in {"entry", "done"} :
          cmd' = [Idle EXCEPT !.name = "import", !.entries = archive, !.next = 1,
               !.stage = st]
    <3>1. CASE MayImport(archive)
      BY <3>1
    <3>2. CASE ~MayImport(archive)
      BY <3>2
    <3>3. QED BY <3>1, <3>2
  <2>3. /\ cmd' = [name |-> "import", stage |-> st, ok |-> FALSE, todo |-> {}, read |-> {},
                  late |-> FALSE, entries |-> archive, next |-> 1, payload |-> Nothing]
    BY <2>2
  <2>4. IsSeq(cmd'.entries) /\ cmd'.name = "import" /\ cmd'.next = 1 /\ cmd'.ok = FALSE
    BY <2>1, <2>3
  <2>5. cmd' = [name |-> cmd'.name, stage |-> cmd'.stage, ok |-> cmd'.ok,
       todo |-> cmd'.todo,
                read |-> cmd'.read, late |-> cmd'.late, entries |-> cmd'.entries,
                next |-> cmd'.next, payload |-> cmd'.payload]
    BY <2>3
  <2>6. QED BY <2>4, <2>5 DEF CmdTyped
<1>2. ArchiveTyped' /\ WritingTyped' /\ AddTyped'
  BY DEF NamesInv, Typed, CmdTyped, ArchiveTyped, WritingTyped, AddTyped, Persisting, Input
<1>3. CopyIsEntry'
  BY DEF NamesInv, Typed, CmdTyped, CopyIsEntry, Entry, Tmp, Input
<1>4. ArchivesTell'
  BY DEF NamesInv, Typed, CmdTyped, ArchivesTell, Told
<1>5. NamesTell'
  BY InputIsInjective DEF NamesInv, Typed, CmdTyped, WritingTyped, AddTyped, NamesTell,
     Adding, Persisting
<1>6. QED BY <1>1, <1>2, <1>3, <1>4, <1>5 DEF NamesInv, Typed

LEMMA ImportOpenNames == NamesInv /\ ImportOpen => NamesInv'
<1> SUFFICES ASSUME NamesInv, ImportOpen PROVE NamesInv'
  OBVIOUS
<1> USE DEF ImportOpen, counters, history, Running, Paths, With, At, End
<1>1. CmdTyped'
  BY DEF NamesInv, Typed, CmdTyped
<1>2. ArchiveTyped' /\ WritingTyped' /\ AddTyped'
  BY ZenonT(60) DEF NamesInv, Typed, CmdTyped, ArchiveTyped, WritingTyped, AddTyped, Persisting, Input
<1>3. cmd'.entries = cmd.entries /\ cmd'.next = cmd.next /\ cmd'.name = "import"
  BY DEF NamesInv, Typed, CmdTyped
<1>4. CopyIsEntry'
  <2>1. cmd.next \in DOMAIN cmd.entries
    <3>1. cmd.entries \in Seq({cmd.entries[i] : i \in DOMAIN cmd.entries}) /\ cmd.next \in Nat \ {0}
      BY DEF NamesInv, Typed, CmdTyped, IsSeq
    <3>2. DOMAIN cmd.entries = 1..Len(cmd.entries) /\ Len(cmd.entries) \in Nat
      BY <3>1
    <3>3. QED BY <3>1, <3>2
  <2>2. Entry' = Entry /\ \A p : Tmp(p)' = Tmp(p)
    BY <1>3 DEF Entry, Tmp
  <2>3. cmd'.stage = "copy" => Tmp(Entry[1])' \in Paths'
    BY <2>2 DEF NamesInv, Typed, CmdTyped
  <2>4. cmd'.stage # "rename"
    BY DEF NamesInv, Typed, CmdTyped
  <2>5. QED BY <1>3, <2>1, <2>2, <2>3, <2>4 DEF CopyIsEntry
<1>5. ArchivesTell'
  BY <1>3 DEF NamesInv, ArchivesTell, Told
<1>6. NamesTell'
  <2>1. \A c : Input(c) \in Paths' => Input(c) \in Paths /\ dir'[Input(c)] = dir[Input(c)]
    BY InputIsNoTmp
  <2>2. \A c : ~Adding(c) /\ ~Adding(c)'
    BY <1>3 DEF Adding
  <2>3. QED BY <2>1, <2>2 DEF NamesInv, NamesTell, Persisting
<1>7. QED BY <1>1, <1>2, <1>4, <1>5, <1>6 DEF NamesInv, Typed

LEMMA ImportCopyNames == NamesInv /\ ImportCopy => NamesInv'
<1> SUFFICES ASSUME NamesInv, ImportCopy PROVE NamesInv'
  OBVIOUS
<1> USE DEF ImportCopy, counters, history, Running, Paths, At, End
<1>1. CmdTyped'
  BY DEF NamesInv, Typed, CmdTyped
<1>2. ArchiveTyped' /\ WritingTyped' /\ AddTyped'
  BY DEF NamesInv, Typed, CmdTyped, ArchiveTyped, WritingTyped, AddTyped, Persisting, Input
<1>3. /\ cmd'.entries = cmd.entries /\ cmd'.next = cmd.next /\ cmd'.name = "import"
      /\ \/ cmd'.stage = "rename" /\ dir' = [dir EXCEPT ![Tmp(Entry[1])] = Entry[2]]
         \/ cmd'.stage = "done"
  <2>1. CASE End(FALSE)
    BY <2>1 DEF NamesInv, Typed, CmdTyped
  <2>2. CASE At("rename") /\ dir' = [dir EXCEPT ![Tmp(Entry[1])] = Entry[2]]
    BY <2>2 DEF NamesInv, Typed, CmdTyped
  <2>3. QED BY <2>1, <2>2
<1>4. CopyIsEntry'
  <2>1. cmd.next \in DOMAIN cmd.entries /\ Tmp(Entry[1]) \in Paths
    BY DEF NamesInv, CopyIsEntry
  <2>2. Entry' = Entry /\ \A p : Tmp(p)' = Tmp(p)
    BY <1>3 DEF Entry, Tmp
  <2>3. QED BY <1>3, <2>1, <2>2 DEF CopyIsEntry
<1>5. ArchivesTell'
  BY <1>3 DEF NamesInv, ArchivesTell, Told
<1>6. NamesTell'
  <2>1. Paths' = Paths /\ \A c : Input(c) \in Paths => dir'[Input(c)] = dir[Input(c)]
    BY InputIsNoTmp
  <2>2. \A c : ~Adding(c) /\ ~Adding(c)'
    BY <1>3 DEF Adding
  <2>3. QED BY <2>1, <2>2 DEF NamesInv, NamesTell, Persisting
<1>7. QED BY <1>1, <1>2, <1>4, <1>5, <1>6 DEF NamesInv, Typed

LEMMA ImportRenameNames == NamesInv /\ ImportRename => NamesInv'
<1> SUFFICES ASSUME NamesInv, ImportRename PROVE NamesInv'
  OBVIOUS
<1> USE DEF ImportRename, counters, history, Running, Paths
<1>1. /\ cmd'.entries = cmd.entries /\ cmd'.next = cmd.next + 1 /\ cmd'.name = "import"
      /\ cmd'.stage = "entry"
  BY DEF NamesInv, Typed, CmdTyped
<1>2. CmdTyped'
  <2>1. cmd.next + 1 \in Nat \ {0}
    BY DEF NamesInv, Typed, CmdTyped
  <2>2. QED BY <1>1, <2>1 DEF NamesInv, Typed, CmdTyped, IsSeq
<1>3. \A c : Input(c) \in Paths' <=> Input(c) \in Paths \/ Input(c) = Entry[1]
  BY InputIsNoTmp DEF Moved
<1>4. \A c : Input(c) \in Paths' =>
        dir'[Input(c)] = IF Input(c) = Entry[1] THEN Entry[2] ELSE dir[Input(c)]
  BY <1>3 DEF Moved, NamesInv, CopyIsEntry
<1>5. WritingTyped'
  <2>1. CASE writing = Nothing
    BY <2>1 DEF Unlinked, WritingTyped, Persisting
  <2>2. CASE writing # Nothing
    BY <2>2, <1>3 DEF Unlinked, NamesInv, Typed, WritingTyped, Persisting
  <2>3. QED BY <2>1, <2>2
<1>6. ArchiveTyped' /\ AddTyped' /\ CopyIsEntry'
  BY <1>1 DEF NamesInv, Typed, ArchiveTyped, AddTyped, CopyIsEntry
<1>7. ArchivesTell'
  BY <1>1 DEF NamesInv, ArchivesTell, Told
<1>8. NamesTell'
  <2>1. \A c : ~Adding(c) /\ ~Adding(c)'
    BY <1>1 DEF Adding
  <2>2. \A c : Persisting(c) => Persisting(c)' \/ Input(c) = Entry[1]
    BY DEF Unlinked, Persisting, NamesInv, Typed, WritingTyped
  <2>3. \A c \in Payloads \ misread : Entry[1] = Input(c) => Entry[2] = c
    BY DEF NamesInv, ArchivesTell, Told, CopyIsEntry, Entry
  <2>4. QED BY <1>3, <1>4, <2>1, <2>2, <2>3 DEF NamesInv, NamesTell
<1>9. QED BY <1>2, <1>5, <1>6, <1>7, <1>8 DEF NamesInv, Typed

-----------------------------------------------------------------------------
(* A minimize has seen every file beside those a session adds.             *)
Listed(S) == \A p \in TopFiles : p \in S \/ p[1] = "input"

MinimizeInv ==
  cmd.name = "minimize" =>
    /\ cmd.stage \in {"read", "remove", "done"}
    /\ cmd.stage = "read" => Listed(cmd.entries)
    /\ cmd.stage = "remove" => Listed(cmd.todo)
    /\ cmd.ok => Listed({})

CanonInv == NamesInv /\ MinimizeInv

LEMMA SessionCanon ==
  ASSUME NamesInv, MinimizeInv, Persist \/ PersistWrite \/ PersistKilled
  PROVE  MinimizeInv'
<1>1. cmd' = cmd
  BY DEF Persist, PersistWrite, PersistKilled
<1>2. \A p \in TopFiles' : p \in TopFiles \/ p[1] = "input"
  <2>1. CASE Persist
    BY <2>1 DEF Persist, With, Paths, TopFiles, Input
  <2>2. CASE PersistWrite \/ PersistKilled
    BY <2>2 DEF PersistWrite, PersistKilled, Paths, TopFiles
  <2>3. QED BY <2>1, <2>2
<1>3. QED BY <1>1, <1>2 DEF MinimizeInv, Listed

LEMMA BeginCanon ==
  ASSUME AddOpen \/ MinimizeScan \/ ExportOpen \/ ImportCheck
  PROVE  MinimizeInv'
<1>1. CASE AddOpen
  BY <1>1 DEF AddOpen, Begin, Idle, MinimizeInv
<1>2. CASE MinimizeScan
  BY <1>2 DEF MinimizeScan, Begin, Idle, MinimizeInv, Listed, TopFiles, Paths
<1>3. CASE ExportOpen
  BY <1>3 DEF ExportOpen, Begin, Idle, MinimizeInv
<1>4. CASE ImportCheck
  BY <1>4 DEF ImportCheck, Begin, Idle, MinimizeInv
<1>5. QED BY <1>1, <1>2, <1>3, <1>4

LEMMA OtherCanon ==
  ASSUME NamesInv,
         AddWrite \/ ExportFile \/ ExportRename \/ ImportOpen \/ ImportCopy \/ ImportRename
           \/ ImportEnd
  PROVE  MinimizeInv'
<1>1. cmd.name # "minimize" /\ cmd'.name = cmd.name
  BY DEF AddWrite, ExportFile, ExportRename, ImportOpen, ImportCopy, ImportRename,
         ImportEnd,
     Running, At, End, NamesInv, Typed, CmdTyped
<1>2. QED BY <1>1 DEF MinimizeInv

LEMMA MinimizeCanon ==
  ASSUME NamesInv, MinimizeInv,
         MinimizeRead \/ MinimizeStage \/ MinimizeRemove \/ MinimizeRename \/ MinimizeEnd
           \/ Expire \/ MinimizeFails \/ Kill
  PROVE  MinimizeInv'
<1> USE DEF MinimizeInv, Listed, TopFiles, Paths, Running, End
<1> CmdTyped
  BY DEF NamesInv, Typed
<1>1. CASE MinimizeRead
  BY <1>1 DEF MinimizeRead, CmdTyped
<1>2. CASE MinimizeStage
  BY <1>2 DEF MinimizeStage, CmdTyped
<1>3. CASE MinimizeRemove
  BY <1>3 DEF MinimizeRemove, Without, CmdTyped
<1>4. CASE MinimizeRename
  BY <1>4 DEF MinimizeRename, With, Input, CmdTyped
<1>5. CASE MinimizeEnd
  BY <1>5 DEF MinimizeEnd, CmdTyped
<1>6. CASE Expire
  BY <1>6 DEF Expire, CmdTyped
<1>7. CASE MinimizeFails
  BY <1>7 DEF MinimizeFails, CmdTyped
<1>8. CASE Kill
  BY <1>8 DEF Kill, CmdTyped
<1>9. QED BY <1>1, <1>2, <1>3, <1>4, <1>5, <1>6, <1>7, <1>8

LEMMA NamesStep == NamesInv /\ [Next]_vars => NamesInv'
<1> SUFFICES ASSUME NamesInv, [Next]_vars PROVE NamesInv'
  OBVIOUS
<1>1. CASE UNCHANGED vars
  BY <1>1 DEF vars, counters, history, NamesInv, Typed, CmdTyped, ArchiveTyped,
              WritingTyped,
     AddTyped, CopyIsEntry, ArchivesTell, NamesTell, Told, Adding, Persisting, Running,
          Entry,
     Tmp, Paths
<1>2. CASE Next
  BY <1>2, QuietNames, PersistNames, PersistWriteNames, PersistKilledNames, AddOpenNames,
     AddWriteNames, MinimizeScanNames, MinimizeRemoveNames, MinimizeRenameNames,
     ExportOpenNames, ExportFileNames, ExportRenameNames, ImportCheckNames,
     ImportOpenNames, ImportCopyNames, ImportRenameNames
     DEF Next, Minimize, Export, Import, Quiet
<1>3. QED BY <1>1, <1>2

LEMMA StepCanon == CanonInv /\ [Next]_vars => CanonInv'
<1> SUFFICES ASSUME CanonInv, [Next]_vars PROVE CanonInv'
  OBVIOUS
<1>1. NamesInv'
  BY NamesStep DEF CanonInv
<1>2. CASE UNCHANGED vars
  BY <1>1, <1>2 DEF vars, CanonInv, MinimizeInv, Listed, TopFiles, Paths
<1>3. CASE Next
  BY <1>1, <1>3, SessionCanon, BeginCanon, OtherCanon, MinimizeCanon
     DEF CanonInv, Next, Minimize, Export, Import
<1>4. QED BY <1>2, <1>3

(* After any commands, killed anywhere, beside a session: a file with a    *)
(* hash in its name holds what was hashed unless an add or a session was   *)
(* stopped while writing that very file, and a minimize that succeeded has *)
(* left no other files.                                                    *)
THEOREM CorpusCanonical == Spec => []CorpusIsCanonical
<1>1. Init => CanonInv
  BY InitNames DEF CanonInv, MinimizeInv, Init, Idle
<1>2. CanonInv => CorpusIsCanonical
  BY DEF CanonInv, NamesInv, NamesTell, Adding, CorpusIsCanonical, NamesTellContents,
     MinimizeCanonicalizes, MinimizeInv, Listed
<1>3. QED BY <1>1, <1>2, StepCanon, PTL DEF Spec

-----------------------------------------------------------------------------
(* A file with a hash in its name is whole or empty, and so is an entry of *)
(* an archive.                                                             *)
Honest(f) == \A p \in DOMAIN f : p[1] = "input" => f[p] \in {p[2], Empty}
HonestEntries(es) ==
  \A i \in DOMAIN es : es[i][1][1] = "input" => es[i][2] \in {es[i][1][2], Empty}

HonestInv ==
  /\ Honest(dir) /\ Honest(before)
  /\ archive # Nothing => HonestEntries(archive)
  /\ cmd.name \in {"export", "import"} => HonestEntries(cmd.entries)

StagedInv == staged # {} => Running("minimize", "remove")

(* The file of when the command began is as it was.                        *)
Same(p) == p \in Paths /\ (before[p] # Empty => dir[p] = before[p])

SameInv ==
  /\ cmd.name \in {"export", "import"} => \A p \in DOMAIN before : Same(p)
  /\ Running("add", "write") => \A p \in DOMAIN before : Same(p) \/ p = Input(cmd.payload)
  /\ Running("minimize", "read") => \A p \in DOMAIN before : Same(p)

(* What minimize has read or staged of the files it will remove.           *)
SeenInv ==
  /\ Running("minimize", "read") =>
       /\ cmd.todo \subseteq cmd.entries /\ cmd.entries \subseteq Paths
       /\ \A p \in cmd.entries \ cmd.todo :
            dir[p] = Empty \/ dir[p] \in cmd.read \cup missed
  /\ Running("minimize", "remove") =>
       /\ cmd.todo \subseteq Paths
       /\ \A p \in cmd.todo : dir[p] = Empty \/ dir[p] \in staged \cup missed

Kept(c) ==
  c = Empty \/ c \in Contents \cup staged \cup left \cup torn \cup gone \cup missed \/ Adding(c)

HeldInv == \A c \in held : Kept(c)

(* What an import writes was not there, and what it wrote is.              *)
ImportInv ==
  cmd.name = "import" =>
    /\ \A i \in DOMAIN cmd.entries : i < cmd.next => cmd.entries[i][1] \in Paths
    /\ cmd.ok => cmd.next > Len(cmd.entries)
    /\ cmd.stage \in {"copy", "rename"} =>
         /\ Entry[1] \notin DOMAIN before /\ Tmp(Entry[1]) \notin DOMAIN before
         /\ cmd.stage = "copy" => dir[Tmp(Entry[1])] = Empty
         /\ \A i \in DOMAIN cmd.entries : i < cmd.next => cmd.entries[i][1] # Tmp(Entry[1])

Exported(p, es) ==
  \E i \in DOMAIN es : es[i][1] = p /\ (before[p] # Empty => es[i][2] = before[p])

ExportInv ==
  /\ Running("export", "files") => cmd.todo \subseteq Paths /\
       \A p \in DOMAIN before : p \in cmd.todo \/ Exported(p, cmd.entries)
  /\ cmd.name = "export" /\ cmd.ok => \A p \in DOMAIN before : Exported(p, archive)

KeptInv ==
  /\ NamesInv /\ HonestInv /\ StagedInv /\ SameInv /\ SeenInv
  /\ HeldInv /\ ImportInv /\ ExportInv

(* What a session does to the files: it adds some and fills empty ones,    *)
(* and what it writes behind a command counts as missed.                   *)
LEMMA SessionFacts ==
  ASSUME NamesInv, HonestInv, Persist \/ PersistWrite \/ PersistKilled
  PROVE  /\ UNCHANGED <<cmd, before, archive, staged, left, gone, runs>>
         /\ missed \subseteq missed'
         /\ Honest(dir)'
         /\ \A p \in Paths : p \in Paths' /\ (dir'[p] = dir[p] \/ dir[p] = Empty)
         /\ \A p \in Paths : Passed(p) => dir'[p] = dir[p] \/ dir'[p] \in missed'
         /\ \A p \in Paths : p[1] # "input" => dir'[p] = dir[p]
         /\ \A c : Kept(c) => Kept(c)'
         /\ \A c \in held' : c \in held \/ Kept(c)'
<1> USE DEF Paths, NamesInv, Typed, HonestInv, Honest, counters, history
<1>1. CASE Persist
  <2>1. UNCHANGED <<cmd, before, held, torn, missed, archive, staged, left, gone, runs>>
    BY <1>1 DEF Persist
  <2>2. PICK c \in Payloads : Input(c) \notin Paths /\ dir' = With(Input(c), Empty)
    BY <1>1 DEF Persist
  <2>3. \A p \in Paths : p \in Paths' /\ dir'[p] = dir[p]
    BY <2>2 DEF With
  <2>4. \A p \in Paths' : p \in Paths \/ dir'[p] = Empty
    BY <2>2 DEF With
  <2>5. \A x : Kept(x) => Kept(x)'
    BY <2>1, <2>3 DEF Kept, Contents, Adding, Running
  <2>6. QED BY <2>1, <2>3, <2>4, <2>5
<1>2. CASE PersistWrite
  <2> DEFINE c == writing.payload
  <2>1. writing \in [payload : Payloads, linked : BOOLEAN]
    BY <1>2 DEF PersistWrite, WritingTyped
  <2>2. /\ UNCHANGED <<cmd, before, archive, staged, left, gone, runs>>
        /\ held' = held \cup {c}
    BY <1>2 DEF PersistWrite
  <2>3. CASE writing.linked
    <3>1. Input(c) \in Paths /\ dir' = [dir EXCEPT ![Input(c)] = c] /\ torn' = torn \ {c}
      BY <1>2, <2>1, <2>3 DEF PersistWrite, WritingTyped
    <3>2. missed \subseteq missed' /\ (Passed(Input(c)) => c \in missed')
      BY <1>2, <2>3 DEF PersistWrite
    <3>3. dir[Input(c)] \in {c, Empty}
      BY <3>1, InputFields
    <3>4. Paths' = Paths /\ dir'[Input(c)] = c /\ \A p \in Paths : p # Input(c) => dir'[p] = dir[p]
      BY <3>1
    <3>5. c \in Contents'
      BY <3>1, <3>4 DEF Contents
    <3>6. \A x \in Contents : x = Empty \/ x \in Contents'
      BY <3>3, <3>4, <3>5 DEF Contents
    <3>7. \A x : Kept(x) => Kept(x)'
      BY <2>2, <3>1, <3>2, <3>5, <3>6 DEF Kept, Adding, Running
    <3>8. \A x : x = c => Kept(x)'
      BY <3>5 DEF Kept
    <3>9. Honest(dir)'
      BY <3>4, InputFields
    <3>10. \A p \in Paths : Passed(p) => dir'[p] = dir[p] \/ dir'[p] \in missed'
      BY <3>2, <3>4
    <3>11. \A p \in Paths : p[1] # "input" => dir'[p] = dir[p]
      BY <3>4, InputFields
    <3>12. QED BY <2>2, <3>2, <3>3, <3>4, <3>7, <3>8, <3>9, <3>10, <3>11
  <2>4. CASE ~writing.linked
    <3>1. UNCHANGED <<dir, torn>> /\ missed' = missed \cup {c}
      BY <1>2, <2>4 DEF PersistWrite
    <3>2. \A x : Kept(x) => Kept(x)'
      BY <2>2, <3>1 DEF Kept, Contents, Adding, Running
    <3>3. \A x : x = c => Kept(x)'
      BY <3>1 DEF Kept
    <3>4. QED BY <2>2, <3>1, <3>2, <3>3
  <2>5. QED BY <2>3, <2>4
<1>3. CASE PersistKilled
  <2>1. UNCHANGED <<dir, cmd, before, held, missed, archive, staged, left, gone, runs>>
        /\ torn \subseteq torn'
    BY <1>3 DEF PersistKilled
  <2>2. \A x : Kept(x) => Kept(x)'
    BY <2>1 DEF Kept, Contents, Adding, Running
  <2>3. QED BY <2>1, <2>2
<1>4. QED BY <1>1, <1>2, <1>3

LEMMA SessionKept ==
  ASSUME KeptInv, Persist \/ PersistWrite \/ PersistKilled, NamesInv'
  PROVE  KeptInv'
<1> NamesInv /\ HonestInv
  BY DEF KeptInv
<1>1. /\ UNCHANGED <<cmd, before, archive, staged, left, gone, runs>>
      /\ missed \subseteq missed'
      /\ Honest(dir)'
      /\ \A p \in Paths : p \in Paths' /\ (dir'[p] = dir[p] \/ dir[p] = Empty)
      /\ \A p \in Paths : Passed(p) => dir'[p] = dir[p] \/ dir'[p] \in missed'
      /\ \A p \in Paths : p[1] # "input" => dir'[p] = dir[p]
      /\ \A c : Kept(c) => Kept(c)'
      /\ \A c \in held' : c \in held \/ Kept(c)'
  BY SessionFacts
<1>2. \A p : Same(p) => Same(p)'
  BY <1>1 DEF Same
<1>3. HonestInv'
  BY <1>1 DEF HonestInv, Honest, HonestEntries
<1>4. StagedInv' /\ HeldInv'
  BY <1>1 DEF KeptInv, StagedInv, HeldInv, Running
<1>5. SameInv'
  BY <1>1, <1>2 DEF KeptInv, SameInv, Running
<1>6. SeenInv'
  BY <1>1 DEF KeptInv, SeenInv, Running, Passed
<1>7. ImportInv' /\ ExportInv'
  <2>1. \A p : Tmp(p)[1] # "input" /\ Tmp(p)' = Tmp(p)
    BY <1>1, TmpKind DEF Tmp
  <2>2. Entry' = Entry
    BY <1>1 DEF Entry
  <2>3. Running("import", "copy") => Tmp(Entry[1]) \in Paths
    BY DEF NamesInv, CopyIsEntry
  <2>4. ImportInv'
    BY <1>1, <2>1, <2>2, <2>3 DEF KeptInv, ImportInv, Running
  <2>5. QED BY <1>1, <2>4 DEF KeptInv, ExportInv, Exported, Running
<1>8. QED BY <1>3, <1>4, <1>5, <1>6, <1>7 DEF KeptInv

(* A command begins when the one before left nothing staged.               *)
LEMMA BeginHeld ==
  ASSUME KeptInv, cmd.stage = "done", missed' = missed \ Contents, dir' = dir,
         UNCHANGED <<held, staged, gone, left, torn>>
  PROVE  HeldInv'
<1>1. Contents' = Contents /\ \A c : ~Adding(c)
  BY DEF Contents, Paths, Adding, Running
<1>2. QED BY <1>1 DEF KeptInv, HeldInv, Kept

LEMMA FirstIsThere == cmd.todo # {} => First \in cmd.todo
BY DEF First

LEMMA AddOpenKept ==
  ASSUME KeptInv, AddOpen, NamesInv'
  PROVE  KeptInv'
<1> USE DEF AddOpen, counters, history, Running, Paths, With, Begin, Idle, KeptInv,
            NamesInv, Typed, CmdTyped
<1>1. HonestInv'
  BY InputFields, InputIsNoTmp DEF HonestInv, Honest, HonestEntries
<1>2. StagedInv'
  BY DEF StagedInv
<1>3. SameInv'
  BY DEF SameInv, Same
<1>4. SeenInv'
  BY DEF SameInv, SeenInv, Same
<1>5. HeldInv'
  <2>1. PICK c : cmd' = [Idle EXCEPT !.name = "add", !.stage = "write", !.payload = c]
                 /\ dir' = With(Input(c), Empty)
    BY ZenonT(60)
  <2>2. Adding(c)'
    BY <2>1 DEF Adding
  <2>3. \A p \in Paths : dir[p] = Empty \/ dir[p] = c \/ dir[p] \in Contents'
    BY <2>1, InputFields DEF HonestInv, Honest, Contents
  <2>4. missed' = missed \ Contents /\ UNCHANGED <<held, staged, left, torn, gone>>
    OBVIOUS
  <2>5. \A x : ~Adding(x)
    BY DEF Adding
  <2>6. \A x \in Contents : Kept(x)'
    <3>1. \A x \in Contents : x = Empty \/ x = c \/ x \in Contents'
      <4>1. SUFFICES ASSUME NEW x \in Contents PROVE x = Empty \/ x = c \/ x \in Contents'
        OBVIOUS
      <4>2. PICK p \in Paths : x = dir[p]
        BY DEF Contents
      <4>3. QED BY <2>3, <4>2
    <3>2. \A x : x = c => Adding(x)'
      BY <2>2
    <3>3. QED BY <3>1, <3>2 DEF Kept
  <2>7. \A x : Kept(x) => Kept(x)'
    BY <2>4, <2>5, <2>6 DEF Kept
  <2>8. QED BY <2>4, <2>7 DEF HeldInv
<1>6. ImportInv' /\ ExportInv'
  BY DEF ImportInv, ExportInv, Exported, Entry, Tmp
<1>7. QED BY <1>1, <1>2, <1>3, <1>4, <1>5, <1>6 DEF KeptInv

LEMMA AddWriteKept ==
  ASSUME KeptInv, AddWrite, NamesInv'
  PROVE  KeptInv'
<1> USE DEF AddWrite, counters, history, Running, Paths, End, KeptInv, NamesInv, Typed,
            CmdTyped
<1>1. HonestInv'
  BY InputFields, InputIsNoTmp DEF HonestInv, Honest, HonestEntries
<1>2. StagedInv'
  BY DEF StagedInv
<1>3. SameInv'
  BY DEF SameInv, Same
<1>4. SeenInv'
  BY DEF SameInv, SeenInv, Same
<1>5. HeldInv'
  <2>1. Input(cmd.payload) \in Paths /\ dir' = [dir EXCEPT ![Input(cmd.payload)] = cmd.payload]
    BY DEF AddTyped
  <2>2. dir[Input(cmd.payload)] \in {cmd.payload, Empty}
    BY <2>1, InputFields DEF HonestInv, Honest
  <2>3. cmd.payload \in Contents' /\ \A x \in Contents : x = Empty \/ x \in Contents'
    BY <2>1, <2>2 DEF Contents
  <2>4. \A x : Adding(x) => x = cmd.payload
    BY DEF Adding
  <2>5. /\ UNCHANGED <<staged, left, gone, missed>>
        /\ held' = held \cup {cmd.payload} /\ torn' = torn \ {cmd.payload}
    OBVIOUS
  <2>6. \A x : Kept(x) => Kept(x)'
    BY <2>3, <2>4, <2>5 DEF Kept
  <2>7. Kept(cmd.payload)'
    BY <2>3 DEF Kept
  <2>8. QED BY <2>5, <2>6, <2>7 DEF HeldInv
<1>6. ImportInv' /\ ExportInv'
  BY DEF ImportInv, ExportInv, Exported, Entry, Tmp
<1>7. QED BY <1>1, <1>2, <1>3, <1>4, <1>5, <1>6 DEF KeptInv

LEMMA MinimizeScanKept ==
  ASSUME KeptInv, MinimizeScan, NamesInv'
  PROVE  KeptInv'
<1> USE DEF MinimizeScan, counters, history, Running, Paths, Begin, Idle, TopFiles,
            KeptInv, NamesInv, Typed, CmdTyped
<1>1. HonestInv'
  BY InputFields, InputIsNoTmp DEF HonestInv, Honest, HonestEntries
<1>2. StagedInv'
  BY DEF StagedInv
<1>3. SameInv'
  BY DEF SameInv, Same
<1>4. SeenInv'
  BY DEF SameInv, SeenInv, Same
<1>5. HeldInv'
  BY BeginHeld
<1>6. ImportInv' /\ ExportInv'
  BY DEF ImportInv, ExportInv, Exported, Entry, Tmp
<1>7. QED BY <1>1, <1>2, <1>3, <1>4, <1>5, <1>6 DEF KeptInv

LEMMA MinimizeReadKept ==
  ASSUME KeptInv, MinimizeRead, NamesInv'
  PROVE  KeptInv'
<1> USE DEF MinimizeRead, counters, history, Running, Paths, KeptInv, NamesInv, Typed,
            CmdTyped
<1>1. HonestInv'
  BY InputFields, InputIsNoTmp DEF HonestInv, Honest, HonestEntries
<1>2. StagedInv'
  BY DEF StagedInv
<1>3. SameInv'
  BY DEF SameInv, Same
<1>4. SeenInv'
  BY DEF SameInv, SeenInv, Same
<1>5. HeldInv'
  BY DEF HeldInv, Kept, Contents, Adding
<1>6. ImportInv' /\ ExportInv'
  BY DEF ImportInv, ExportInv, Exported, Entry, Tmp
<1>7. QED BY <1>1, <1>2, <1>3, <1>4, <1>5, <1>6 DEF KeptInv

LEMMA MinimizeStageKept ==
  ASSUME KeptInv, MinimizeStage, NamesInv'
  PROVE  KeptInv'
<1> USE DEF MinimizeStage, counters, history, Running, Paths, KeptInv, NamesInv, Typed,
            CmdTyped
<1>1. HonestInv'
  BY InputFields, InputIsNoTmp DEF HonestInv, Honest, HonestEntries
<1>2. StagedInv'
  BY DEF StagedInv
<1>3. SameInv'
  BY DEF SameInv, Same
<1>4. SeenInv'
  BY DEF SameInv, SeenInv, Same
<1>5. HeldInv'
  BY DEF StagedInv, HeldInv, Kept, Contents, Adding
<1>6. ImportInv' /\ ExportInv'
  BY DEF ImportInv, ExportInv, Exported, Entry, Tmp
<1>7. QED BY <1>1, <1>2, <1>3, <1>4, <1>5, <1>6 DEF KeptInv

LEMMA MinimizeRemoveKept ==
  ASSUME KeptInv, MinimizeRemove, NamesInv'
  PROVE  KeptInv'
<1> USE DEF MinimizeRemove, counters, history, Running, Paths, Without, KeptInv, NamesInv,
            Typed, CmdTyped
<1>1. HonestInv'
  BY InputFields, InputIsNoTmp DEF HonestInv, Honest, HonestEntries
<1>2. StagedInv'
  BY DEF StagedInv
<1>3. SameInv'
  BY DEF SameInv, Same
<1>4. SeenInv'
  BY FirstIsThere DEF SeenInv, Same
<1>5. HeldInv'
  <2>1. First \in Paths /\ dir' = Without(First)
    BY FirstIsThere DEF SeenInv
  <2>2. \A x \in Contents : x = dir[First] \/ x \in Contents'
    BY <2>1 DEF Contents
  <2>3. dir[First] = Empty \/ dir[First] \in staged \cup missed
    BY FirstIsThere DEF SeenInv
  <2>4. UNCHANGED <<held, staged, left, torn, gone, missed>> /\ \A x : ~Adding(x)
    BY DEF Adding
  <2>5. \A x : Kept(x) => Kept(x)'
    BY <2>2, <2>3, <2>4 DEF Kept
  <2>6. QED BY <2>4, <2>5 DEF HeldInv
<1>6. ImportInv' /\ ExportInv'
  BY DEF ImportInv, ExportInv, Exported, Entry, Tmp
<1>7. QED BY <1>1, <1>2, <1>3, <1>4, <1>5, <1>6 DEF KeptInv

LEMMA MinimizeRenameKept ==
  ASSUME KeptInv, MinimizeRename, NamesInv'
  PROVE  KeptInv'
<1> USE DEF MinimizeRename, counters, history, Running, Paths, With, KeptInv, NamesInv,
            Typed, CmdTyped
<1>1. HonestInv'
  BY InputFields, InputIsNoTmp DEF HonestInv, Honest, HonestEntries
<1>2. StagedInv'
  BY DEF StagedInv
<1>3. SameInv'
  BY DEF SameInv, Same
<1>4. SeenInv'
  BY DEF SameInv, SeenInv, Same
<1>5. HeldInv'
  <2>1. PICK c \in staged : dir' = With(Input(c), c) /\ staged' = staged \ {c}
    OBVIOUS
  <2>2. \A x : x = Empty \/ x \notin Contents \/ x \in Contents'
    BY <2>1, InputFields DEF HonestInv, Honest, Contents
  <2>3. c \in Contents'
    BY <2>1 DEF Contents
  <2>4. UNCHANGED <<held, left, torn, gone, missed>> /\ \A x : ~Adding(x)
    BY DEF Adding
  <2>5. \A x : Kept(x) => Kept(x)'
    BY <2>1, <2>2, <2>3, <2>4 DEF Kept
  <2>6. QED BY <2>4, <2>5 DEF HeldInv
<1>6. ImportInv' /\ ExportInv'
  BY DEF ImportInv, ExportInv, Exported, Entry, Tmp
<1>7. QED BY <1>1, <1>2, <1>3, <1>4, <1>5, <1>6 DEF KeptInv

LEMMA MinimizeEndKept ==
  ASSUME KeptInv, MinimizeEnd, NamesInv'
  PROVE  KeptInv'
<1> USE DEF MinimizeEnd, counters, history, Running, Paths, End, KeptInv, NamesInv, Typed,
            CmdTyped
<1>1. HonestInv'
  BY InputFields, InputIsNoTmp DEF HonestInv, Honest, HonestEntries
<1>2. StagedInv'
  BY DEF StagedInv
<1>3. SameInv'
  BY DEF SameInv, Same
<1>4. SeenInv'
  BY DEF SameInv, SeenInv, Same
<1>5. HeldInv'
  BY DEF HeldInv, Kept, Contents, Adding
<1>6. ImportInv' /\ ExportInv'
  BY DEF ImportInv, ExportInv, Exported, Entry, Tmp
<1>7. QED BY <1>1, <1>2, <1>3, <1>4, <1>5, <1>6 DEF KeptInv

LEMMA ExpireKept ==
  ASSUME KeptInv, Expire, NamesInv'
  PROVE  KeptInv'
<1> USE DEF Expire, counters, history, Running, Paths, KeptInv, NamesInv, Typed, CmdTyped
<1>1. HonestInv'
  BY InputFields, InputIsNoTmp DEF HonestInv, Honest, HonestEntries
<1>2. StagedInv'
  BY DEF StagedInv
<1>3. SameInv'
  BY DEF SameInv, Same
<1>4. SeenInv'
  BY DEF SameInv, SeenInv, Same
<1>5. HeldInv'
  BY DEF HeldInv, Kept, Contents, Adding
<1>6. ImportInv' /\ ExportInv'
  BY DEF ImportInv, ExportInv, Exported, Entry, Tmp
<1>7. QED BY <1>1, <1>2, <1>3, <1>4, <1>5, <1>6 DEF KeptInv

LEMMA MinimizeFailsKept ==
  ASSUME KeptInv, MinimizeFails, NamesInv'
  PROVE  KeptInv'
<1> USE DEF MinimizeFails, counters, history, Running, Paths, End, KeptInv, NamesInv,
            Typed, CmdTyped
<1>1. HonestInv'
  BY InputFields, InputIsNoTmp DEF HonestInv, Honest, HonestEntries
<1>2. StagedInv'
  BY DEF StagedInv
<1>3. SameInv'
  BY DEF SameInv, Same
<1>4. SeenInv'
  BY DEF SameInv, SeenInv, Same
<1>5. HeldInv'
  <2>1. /\ UNCHANGED <<held, dir, left, torn, missed>> /\ staged' = {}
        /\ gone' = gone \cup (staged \ Contents)
    OBVIOUS
  <2>2. \A x : ~Adding(x)
    BY DEF Adding
  <2>3. \A x : Kept(x) => Kept(x)'
    BY <2>1, <2>2 DEF Kept, Contents
  <2>4. QED BY <2>1, <2>3 DEF HeldInv
<1>6. ImportInv' /\ ExportInv'
  BY DEF ImportInv, ExportInv, Exported, Entry, Tmp
<1>7. QED BY <1>1, <1>2, <1>3, <1>4, <1>5, <1>6 DEF KeptInv

LEMMA ExportOpenKept ==
  ASSUME KeptInv, ExportOpen, NamesInv'
  PROVE  KeptInv'
<1> USE DEF ExportOpen, counters, history, Running, Paths, Begin, Idle, KeptInv, NamesInv,
            Typed, CmdTyped
<1>1. HonestInv'
  BY InputFields, InputIsNoTmp DEF HonestInv, Honest, HonestEntries
<1>2. StagedInv'
  BY DEF StagedInv
<1>3. SameInv'
  BY DEF SameInv, Same
<1>4. SeenInv'
  BY DEF SameInv, SeenInv, Same
<1>5. HeldInv'
  BY BeginHeld
<1>6. ImportInv' /\ ExportInv'
  BY DEF ImportInv, ExportInv, Exported, Entry, Tmp
<1>7. QED BY <1>1, <1>2, <1>3, <1>4, <1>5, <1>6 DEF KeptInv

LEMMA ExportFileKept ==
  ASSUME KeptInv, ExportFile, NamesInv'
  PROVE  KeptInv'
<1> USE DEF ExportFile, counters, history, Running, Paths, KeptInv, NamesInv, Typed,
            CmdTyped
<1>1. HonestInv'
  <2>1. First \in Paths
    BY FirstIsThere DEF ExportInv
  <2>2. cmd'.entries = Append(cmd.entries, <<First, dir[First]>>) /\ cmd'.name = "export"
    OBVIOUS
  <2>3. HonestEntries(cmd.entries) /\ IsSeq(cmd.entries)
    BY DEF HonestInv
  <2>4. HonestEntries(cmd'.entries)
    BY <2>1, <2>2, <2>3, AppendFacts DEF HonestInv, Honest, HonestEntries
  <2>5. QED BY <2>2, <2>4 DEF HonestInv
<1>2. StagedInv'
  BY DEF StagedInv
<1>3. SameInv'
  BY DEF SameInv, Same
<1>4. SeenInv'
  BY DEF SameInv, SeenInv, Same
<1>5. HeldInv'
  BY DEF HeldInv, Kept, Contents, Adding
<1>6. ImportInv' /\ ExportInv'
  <2>1. /\ cmd'.entries = Append(cmd.entries, <<First, dir[First]>>) /\ cmd'.name = "export"
        /\ cmd'.todo = cmd.todo \ {First} /\ cmd'.ok = FALSE
    OBVIOUS
  <2>2. IsSeq(cmd.entries)
    OBVIOUS
  <2>3. \A p \in DOMAIN before : Exported(p, cmd.entries) => Exported(p, cmd'.entries)
    BY <2>1, <2>2, AppendFacts DEF Exported
  <2>4. First \in DOMAIN before => Exported(First, cmd'.entries)
    BY <2>1, <2>2, AppendFacts DEF Exported, SameInv, Same
  <2>5. QED BY <2>1, <2>3, <2>4 DEF ImportInv, ExportInv, Exported
<1>7. QED BY <1>1, <1>2, <1>3, <1>4, <1>5, <1>6 DEF KeptInv

LEMMA ExportRenameKept ==
  ASSUME KeptInv, ExportRename, NamesInv'
  PROVE  KeptInv'
<1> USE DEF ExportRename, counters, history, Running, Paths, End, KeptInv, NamesInv, Typed,
            CmdTyped
<1>1. HonestInv'
  BY InputFields, InputIsNoTmp DEF HonestInv, Honest, HonestEntries
<1>2. StagedInv'
  BY DEF StagedInv
<1>3. SameInv'
  BY DEF SameInv, Same
<1>4. SeenInv'
  BY DEF SameInv, SeenInv, Same
<1>5. HeldInv'
  BY DEF HeldInv, Kept, Contents, Adding
<1>6. ImportInv' /\ ExportInv'
  BY DEF ImportInv, ExportInv, Exported, Entry, Tmp
<1>7. QED BY <1>1, <1>2, <1>3, <1>4, <1>5, <1>6 DEF KeptInv

LEMMA ImportCheckKept ==
  ASSUME KeptInv, ImportCheck, NamesInv'
  PROVE  KeptInv'
<1> USE DEF ImportCheck, counters, history, Running, Paths, Begin, Idle, KeptInv, NamesInv,
            Typed, CmdTyped
<1>1. HonestInv'
  BY InputFields, InputIsNoTmp DEF HonestInv, Honest, HonestEntries
<1>2. StagedInv'
  BY DEF StagedInv
<1>3. SameInv'
  BY DEF SameInv, Same
<1>4. SeenInv'
  BY DEF SameInv, SeenInv, Same
<1>5. HeldInv'
  BY BeginHeld
<1>6. ImportInv' /\ ExportInv'
  <2>1. \A i \in DOMAIN archive : ~(i < 1)
    <3>1. IsSeq(archive)
      BY DEF ArchiveTyped
    <3>2. QED BY <3>1 DEF IsSeq
  <2>2. cmd'.entries = archive /\ cmd'.next = 1 /\ cmd'.ok = FALSE /\ cmd'.name = "import"
        /\ cmd'.stage \notin {"copy", "rename"}
    OBVIOUS
  <2>3. QED BY <2>1, <2>2 DEF ImportInv, ExportInv
<1>7. QED BY <1>1, <1>2, <1>3, <1>4, <1>5, <1>6 DEF KeptInv

LEMMA ImportOpenKept ==
  ASSUME KeptInv, ImportOpen, NamesInv'
  PROVE  KeptInv'
<1> DEFINE t == Tmp(Entry[1])
<1> USE DEF counters, history, Running, Paths, KeptInv, NamesInv, Typed
<1>1. /\ cmd'.entries = cmd.entries /\ cmd'.next = cmd.next /\ cmd'.name = "import"
      /\ cmd.name = "import" /\ ~cmd'.ok /\ cmd'.stage # "rename"
      /\ UNCHANGED <<archive, before, held, staged, left, torn, missed, gone, runs>>
  BY DEF ImportOpen, At, End, CmdTyped
<1>2. Entry' = Entry /\ Tmp(Entry[1])' = t
  BY <1>1 DEF Entry, Tmp
<1>3. \/ dir' = dir /\ cmd'.stage = "done"
      \/ Entry[1] \notin Paths /\ t \notin Paths /\ dir' = With(t, Empty)
  BY DEF ImportOpen, At, End, CmdTyped
<1>4. \A p \in Paths : p \in Paths' /\ dir'[p] = dir[p]
  BY <1>3 DEF With
<1>5. HonestInv'
  BY <1>1, <1>3, TmpKind DEF With, HonestInv, Honest, HonestEntries
<1>6. StagedInv' /\ SeenInv'
  BY <1>1 DEF ImportOpen, StagedInv, SeenInv
<1>7. SameInv' /\ HeldInv'
  BY <1>1, <1>4 DEF SameInv, Same, HeldInv, Kept, Contents, Adding
<1>8. ImportInv' /\ ExportInv'
  <2>1. cmd'.stage = "copy" => dir'[t] = Empty
    BY <1>3 DEF ImportOpen, At, End, CmdTyped, With
  <2>2. ImportInv'
    BY <1>1, <1>2, <1>3, <1>4, <2>1 DEF SameInv, Same, ImportInv
  <2>3. QED BY <1>1, <2>2 DEF ExportInv
<1>9. QED BY <1>5, <1>6, <1>7, <1>8

LEMMA ImportCopyKept ==
  ASSUME KeptInv, ImportCopy, NamesInv'
  PROVE  KeptInv'
<1> DEFINE t == Tmp(Entry[1])
<1> USE DEF counters, history, Running, Paths, KeptInv, NamesInv, Typed
<1>1. /\ cmd'.entries = cmd.entries /\ cmd'.next = cmd.next /\ cmd'.name = "import"
      /\ cmd.name = "import" /\ ~cmd'.ok /\ cmd.stage = "copy"
      /\ UNCHANGED <<archive, before, staged, left, torn, missed, gone, runs>>
  BY DEF ImportCopy, At, End, CmdTyped
<1>2. Entry' = Entry /\ Tmp(Entry[1])' = t
  BY <1>1 DEF Entry, Tmp
<1>3. \/ UNCHANGED <<dir, held>>
      \/ dir' = [dir EXCEPT ![t] = Entry[2]] /\ held' = held \cup {Entry[2]}
  BY DEF ImportCopy
<1>4. t \notin DOMAIN before /\ t[1] = "tmp" /\ Paths' = Paths
  BY <1>1, <1>3, TmpKind DEF ImportInv
<1>5. \A p \in Paths : p # t => dir'[p] = dir[p]
  BY <1>3
<1>6. HonestInv'
  BY <1>1, <1>4, <1>5 DEF HonestInv, Honest, HonestEntries
<1>7. StagedInv' /\ SeenInv'
  BY <1>1 DEF StagedInv, SeenInv
<1>8. SameInv'
  BY <1>1, <1>4, <1>5 DEF SameInv, Same
<1>9. HeldInv'
  <2>1. t \in Paths /\ dir[t] = Empty
    BY <1>1 DEF CopyIsEntry, ImportInv
  <2>2. \A x \in Contents : x = Empty \/ x \in Contents'
    BY <1>4, <1>5, <2>1 DEF Contents
  <2>3. \A x : Kept(x) => Kept(x)'
    BY <1>1, <2>2 DEF Kept, Adding
  <2>4. \A x \in held' : x \in held \/ x \in Contents'
    BY <1>3, <2>1 DEF Contents
  <2>5. QED BY <2>3, <2>4 DEF HeldInv, Kept
<1>10. ImportInv' /\ ExportInv'
  <2>1. cmd'.stage # "copy"
    BY DEF ImportCopy, At, End, CmdTyped
  <2>2. QED BY <1>1, <1>2, <1>4, <2>1 DEF ImportInv, ExportInv
<1>11. QED BY <1>6, <1>7, <1>8, <1>9, <1>10

LEMMA ImportRenameKept ==
  ASSUME KeptInv, ImportRename, NamesInv'
  PROVE  KeptInv'
<1> DEFINE t == Tmp(Entry[1])
           e == Entry[1]
<1> USE DEF counters, history, Running, Paths, KeptInv, NamesInv, Typed
<1>1. /\ cmd'.entries = cmd.entries /\ cmd'.next = cmd.next + 1 /\ cmd'.name = "import"
      /\ cmd.name = "import" /\ ~cmd'.ok /\ cmd.stage = "rename" /\ cmd'.stage = "entry"
      /\ UNCHANGED <<archive, before, held, staged, left, torn, gone, runs>>
  BY DEF ImportRename, CmdTyped
<1>2. /\ e \notin DOMAIN before /\ t \notin DOMAIN before
      /\ cmd.next \in DOMAIN cmd.entries /\ t \in Paths /\ dir[t] = Entry[2]
  BY <1>1 DEF ImportInv, CopyIsEntry
<1>3. dir' = Moved(t, e)
  BY DEF ImportRename
<1>4. \A p \in Paths : p # t => p \in Paths' /\ (p # e => dir'[p] = dir[p])
  BY <1>3 DEF Moved
<1>5. e \in Paths' /\ dir'[e] = Entry[2] /\ \A p \in Paths' : p = e \/ p \in Paths \ {t}
  BY <1>2, <1>3 DEF Moved
<1>6. HonestInv'
  <2>1. e[1] = "input" => Entry[2] \in {e[2], Empty}
    BY <1>1, <1>2 DEF HonestInv, HonestEntries, Entry
  <2>2. Honest(dir)'
    BY <1>4, <1>5, <2>1 DEF HonestInv, Honest
  <2>3. QED BY <1>1, <2>2 DEF HonestInv, Honest, HonestEntries
<1>7. StagedInv' /\ SeenInv'
  BY <1>1 DEF StagedInv, SeenInv
<1>8. SameInv'
  BY <1>1, <1>2, <1>4 DEF SameInv, Same
<1>9. HeldInv'
  <2>1. missed \subseteq missed' /\ (e \in Paths => dir[e] = Entry[2] \/ dir[e] \in missed')
    BY DEF ImportRename
  <2>2. \A x \in Contents : x \in Contents' \/ x \in missed'
    BY <1>2, <1>4, <1>5, <2>1 DEF Contents
  <2>3. \A x : Kept(x) => Kept(x)'
    BY <1>1, <2>1, <2>2 DEF Kept, Adding
  <2>4. QED BY <1>1, <2>3 DEF HeldInv
<1>10. ImportInv' /\ ExportInv'
  <2>1. \A i \in DOMAIN cmd.entries : i < cmd.next + 1 => i < cmd.next \/ i = cmd.next
    BY <1>1 DEF CmdTyped, IsSeq
  <2>2. \A i \in DOMAIN cmd.entries : i < cmd.next => cmd.entries[i][1] \in Paths'
    BY <1>1, <1>4 DEF ImportInv
  <2>3. cmd.entries[cmd.next][1] \in Paths'
    BY <1>5 DEF Entry
  <2>4. QED BY <1>1, <2>1, <2>2, <2>3 DEF ImportInv, ExportInv
<1>11. QED BY <1>6, <1>7, <1>8, <1>9, <1>10

LEMMA ImportEndKept ==
  ASSUME KeptInv, ImportEnd, NamesInv'
  PROVE  KeptInv'
<1> USE DEF ImportEnd, counters, history, Running, Paths, End, KeptInv, NamesInv, Typed,
            CmdTyped
<1>1. HonestInv'
  BY InputFields, InputIsNoTmp DEF HonestInv, Honest, HonestEntries
<1>2. StagedInv'
  BY DEF StagedInv
<1>3. SameInv'
  BY DEF SameInv, Same
<1>4. SeenInv'
  BY DEF SameInv, SeenInv, Same
<1>5. HeldInv'
  BY DEF HeldInv, Kept, Contents, Adding
<1>6. ImportInv' /\ ExportInv'
  BY DEF ImportInv, ExportInv, Exported, Entry, Tmp
<1>7. QED BY <1>1, <1>2, <1>3, <1>4, <1>5, <1>6 DEF KeptInv

LEMMA KillKept ==
  ASSUME KeptInv, Kill, NamesInv'
  PROVE  KeptInv'
<1> USE DEF Kill, counters, history, Running, Paths, End, KeptInv, NamesInv, Typed, CmdTyped
<1>1. HonestInv'
  BY InputFields, InputIsNoTmp DEF HonestInv, Honest, HonestEntries
<1>2. StagedInv'
  BY DEF StagedInv
<1>3. SameInv'
  BY DEF SameInv, Same
<1>4. SeenInv'
  BY DEF SameInv, SeenInv, Same
<1>5. HeldInv'
  BY DEF HeldInv, Kept, Contents, Adding
<1>6. ImportInv' /\ ExportInv'
  BY DEF ImportInv, ExportInv, Exported, Entry, Tmp
<1>7. QED BY <1>1, <1>2, <1>3, <1>4, <1>5, <1>6 DEF KeptInv

LEMMA StepKept == KeptInv /\ [Next]_vars => KeptInv'
<1> SUFFICES ASSUME KeptInv, [Next]_vars PROVE KeptInv'
  OBVIOUS
<1>1. NamesInv'
  BY NamesStep DEF KeptInv
<1>2. CASE UNCHANGED vars
  BY <1>1, <1>2 DEF vars, counters, history, KeptInv, HonestInv, Honest, HonestEntries,
                    StagedInv,
     SameInv, SeenInv, Same, Kept, Contents, HeldInv, ImportInv, ExportInv,
          Exported,
     Adding, Running, Entry, Tmp, Paths
<1>3. CASE Next
  BY <1>1, <1>3, SessionKept, AddOpenKept, AddWriteKept, MinimizeScanKept, MinimizeReadKept,
       MinimizeStageKept, MinimizeRemoveKept, MinimizeRenameKept, MinimizeEndKept,
       ExpireKept, MinimizeFailsKept, ExportOpenKept, ExportFileKept,
       ExportRenameKept, ImportCheckKept, ImportOpenKept, ImportCopyKept,
       ImportRenameKept, ImportEndKept, KillKept
     DEF Next, Minimize, Export, Import
<1>4. QED BY <1>2, <1>3

(* Whatever is run and killed beside whatever session: a payload that a    *)
(* file has ever held is kept, unless a minimize ran out of its budget, an *)
(* add or a session was stopped while writing it, or a session wrote it to *)
(* a file a running minimize or import was done with; an import changes no *)
(* file that was there, and an export that succeeds misses none.           *)
THEOREM CorpusKept == Spec => []CorpusIsKept
<1>1. Init => KeptInv
  <2> SUFFICES ASSUME Init PROVE KeptInv
    OBVIOUS
  <2>1. cmd.name = "none" /\ cmd.stage = "done" /\ ~cmd.ok
    BY DEF Init, Idle
  <2>2. HonestInv
    BY <2>1, CorporaAssumption DEF Init, HonestInv, Honest, HonestEntries
  <2>3. QED
    BY <2>1, <2>2, InitNames DEF Init, KeptInv, StagedInv, SameInv, SeenInv, Kept,
       Contents, Paths, HeldInv, ImportInv, ExportInv, Running
<1>2. KeptInv => CorpusIsKept
  <2> SUFFICES ASSUME KeptInv PROVE CorpusIsKept
    OBVIOUS
  <2>1. InputsAreKept
    BY DEF KeptInv, HeldInv, Kept, Adding, InputsAreKept
  <2>2. ImportKeepsFiles
    <3>1. cmd.name = "import" =>
            \A i \in DOMAIN cmd.entries : i < cmd.next \/ i > Len(cmd.entries) \/ ~cmd.ok
      BY DEF KeptInv, ImportInv, NamesInv, Typed, CmdTyped, IsSeq
    <3>2. cmd.name = "import" => \A i \in DOMAIN cmd.entries : ~(i > Len(cmd.entries))
      BY DEF KeptInv, NamesInv, Typed, CmdTyped, IsSeq
    <3>3. QED BY <3>1, <3>2 DEF KeptInv, SameInv, Same, ImportInv, ImportKeepsFiles
  <2>3. ExportIsWhole
    BY DEF KeptInv, ExportInv, Exported, ExportIsWhole
  <2>4. QED BY <2>1, <2>2, <2>3 DEF CorpusIsKept
<1>3. QED BY <1>1, <1>2, StepKept, PTL DEF Spec
=============================================================================
