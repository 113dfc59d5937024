-------------------------------- MODULE Fuzz --------------------------------
(***************************************************************************)
(* `fozzy fuzz` (src/src/modes/fuzz): the loop that mutates inputs of a    *)
(* corpus, and what it leaves on the disk for each crash, in several       *)
(* sessions on one corpus directory and one --record path, any of which    *)
(* may be killed.  A step of the model is one change of the disk.          *)
(* Minimization is the loop of Shrink.                                     *)
(*                                                                         *)
(* The target runs the same way on the same input (its seed is the hash of *)
(* the input).  Inputs are kept in files named by their hash, written only *)
(* if there is none of the name: one whose writer was killed between       *)
(* creating and writing it is empty and stays so.                          *)
(***************************************************************************)
EXTENDS Shrink, SequencesExt, FiniteSetsExt

CONSTANTS
  Setups,       \* options of `fozzy fuzz`: policy, record, coverage, crash_only, minimize,
                \* target, tracked, limited, timed, runs, max, corpus, killed (see MCFuzz)
  Bytes,        \* values of a byte
  MaxSessions   \* sessions, one after the other (a bound of the model)

SetupRecords ==
  [policy : {"append", "overwrite", "error"}, record : BOOLEAN, coverage : BOOLEAN,
   crash_only : BOOLEAN, minimize : BOOLEAN, target : {"steps", "distributed"},
   tracked : BOOLEAN, limited : BOOLEAN, timed : BOOLEAN, runs : Nat, max : Nat,
   corpus : SUBSET Seq(Bytes), killed : BOOLEAN]

ASSUME SetupsAssumption == Setups # {} /\ \A s \in Setups : s \in SetupRecords
ASSUME BytesAssumption == {0, 1} \subseteq Bytes /\ Bytes \subseteq Items
ASSUME StatusesAssumption == {"pass", "fail"} \subseteq Statuses
ASSUME NothingAssumption == Nothing \notin Seq(Nat)

VARIABLES
  setup,
  session,   \* number of the session
  stage,     \* "loop", "cover", "input", "trace", "report", "minimize", "stopped", "none"
  corpus,    \* inputs to mutate
  edges,     \* coverage seen
  executed,  \* runs so far
  last,      \* the last execution: input, status, refused
  log,       \* the crashes of all sessions: session, execution, path of the trace,
             \* whether a kill cut the writing of the input's file
  disk       \* inputs, crashes and mins: what the file named after an input holds;
             \* traces, locks, reports

session_state == <<corpus, edges, executed, last>>
fvars == <<svars, setup, session, stage, session_state, log, disk>>

Range1(s) == 1..Len(s)

(* A file of a name, or a new one. *)
Put(files, name, f) ==
  [n \in DOMAIN files \cup {name} |-> IF n = name THEN f ELSE files[n]]

(* A file created by a call that was killed holds nothing. *)
Tear(files, b) == IF b \in DOMAIN files THEN files ELSE Put(files, b, <<>>)

(* persist_corpus_input, persist_crash_input, persist_crash_min_input: a   *)
(* file that is there is not written again.                                *)
Persist(files, b) == IF b \in DOMAIN files THEN files ELSE Put(files, b, b)

-----------------------------------------------------------------------------
(* mutate_bytes: flip a bit, insert, delete or overwrite a byte.  An empty *)
(* input gets a byte even if no byte may be inserted.                      *)
Mutations(b) ==
  {[b EXCEPT ![i] = x] : i \in Range1(b), x \in Bytes}
    \cup {InsertAt(b, i, x) : i \in {j \in 1..(Len(b) + 1) : Len(b) < setup.max}, x \in Bytes}
    \cup {RemoveAt(b, i) : i \in Range1(b)}
    \cup (IF b = <<>> THEN {<<x>> : x \in Bytes} ELSE {})
    \cup (IF b = <<>> \/ Len(b) >= setup.max THEN {b} ELSE {})

(* What the corpus is without files. *)
DefaultCorpus == {<<>>, <<0>>, <<1, 0, 1>>}

(* load_corpus: what the files hold. *)
Loaded(d) ==
  IF DOMAIN d.inputs = {} THEN DefaultCorpus ELSE {d.inputs[b] : b \in DOMAIN d.inputs}

(* The coverage of a scenario: its seed, its status and its findings. *)
Coverage(input, status) == {<<"seed", input>>, <<"status", status>>}

Idle == [kind |-> "input", items |-> <<>>, status |-> "pass", max |-> 0, fixed |-> {},
         judged |-> FALSE, timed |-> FALSE, all |-> FALSE, script |-> <<>>]

(* A session that begins, or a `fozzy shrink`. *)
FInit ==
  /\ \/ /\ setup \in Setups
        /\ stage = "loop"
        /\ verdicts = <<>>
        /\ job = Idle /\ candidate = <<>> /\ chunk = 1 /\ index = 0 /\ improved = FALSE
        /\ at = "idle" /\ best = Nothing /\ decisions = <<>>
        /\ expired = FALSE /\ slow = FALSE /\ out = Nothing
     \/ /\ setup = CHOOSE s \in Setups : TRUE
        /\ stage = "none"
        /\ ShrinkInit
  /\ session = 1
  /\ disk = [inputs |-> [b \in setup.corpus |-> b], crashes |-> <<>>, mins |-> <<>>,
             traces |-> <<>>, locks |-> {}, reports |-> <<>>]
  /\ corpus = Loaded(disk)
  /\ edges = {} /\ executed = 0 /\ last = Nothing /\ log = <<>>

-----------------------------------------------------------------------------
(* The harness's own allocation for the input may be refused. *)
MayRefuse == IF setup.tracked /\ setup.limited THEN BOOLEAN ELSE {FALSE}

(* One turn of the loop: an input, and what it and the harness made of it. *)
Execute ==
  /\ stage = "loop" /\ executed < setup.runs
  /\ \E base \in corpus : \E input \in Mutations(base) :
       \E v \in Verdicts, refused \in MayRefuse :
         /\ Runs(input, v)
         /\ last' = [input |-> input, refused |-> refused,
                     status |-> IF refused THEN "fail" ELSE v.status,
                     covers |-> Coverage(input, v.status)]
  /\ executed' = executed + 1
  /\ stage' = "cover"
  /\ UNCHANGED <<job, loop, decisions, expired, slow, out, setup, session, corpus, edges,
                 log, disk>>

Crashed == last.status # "pass"

(* New edges are remembered; in coverage mode the input joins the corpus,  *)
(* here and on the disk.                                                   *)
Cover ==
  /\ stage = "cover"
  /\ edges' = edges \cup last.covers
  /\ IF setup.coverage /\ ~(last.covers \subseteq edges)
     THEN /\ corpus' = corpus \cup {last.input}
          /\ disk' = [disk EXCEPT !.inputs = Persist(@, last.input)]
     ELSE UNCHANGED <<corpus, disk>>
  /\ stage' = IF Crashed THEN "input" ELSE "loop"
  /\ log' = IF Crashed
            THEN Append(log, [session |-> session, run |-> last, path |-> Nothing,
                              file |-> "whole"])
            ELSE log
  /\ UNCHANGED <<svars, setup, session, executed, last>>

(* persist_crash_input, then the reporter's output. *)
KeepInput ==
  /\ stage = "input"
  /\ disk' = [disk EXCEPT !.crashes = Persist(@, last.input)]
  /\ stage' = "trace"
  /\ UNCHANGED <<svars, setup, session, session_state, log>>

-----------------------------------------------------------------------------
(* A path is the directory (0 for --record, else the session's own) and    *)
(* the numbers after the stem.                                             *)
Base == <<IF setup.record THEN 0 ELSE session>>
Crashes == Cardinality({i \in DOMAIN log : log[i].session = session})

\* mutant: every crash has the base path
CrashPathSame == Base

(* crash_trace_output_path: the base, then the base with a number. *)
CrashPath == IF Crashes <= 1 THEN Base ELSE Append(Base, Crashes - 1)

Exists == DOMAIN disk.traces
Numbers(p) == {Last(q) : q \in {e \in Exists : Len(e) > 1 /\ Front(e) = p}}

(* resolve_record_target: where a trace for the path p goes, if anywhere. *)
Target(p) ==
  IF p \notin Exists \/ setup.policy = "overwrite" THEN {p}
  ELSE IF setup.policy = "error" THEN {}
  ELSE {Append(p, Max(Numbers(p) \cup {0}) + 1)}

(* What a trace holds for its replay.  For a target without memory of its  *)
(* own the harness's memory is written.                                    *)
TraceOf(run) ==
  [input |-> run.input, status |-> run.status,
   memory |-> CASE ~setup.tracked -> "none"
                [] setup.target = "steps" /\ executed > 0 -> "target"
                [] OTHER -> "harness"]

(* write_trace_to_target: under the lock beside the file, and one that was *)
(* left there is waited for in vain, or removed once it is stale.          *)
Written(p, run) ==
  /\ disk' = [disk EXCEPT !.traces = Put(@, p, TraceOf(run)), !.locks = @ \ {p}]

(* The trace's path is decided after the input was kept. *)
WriteTrace ==
  /\ stage = "trace"
  /\ \E p \in Target(CrashPath) :
       /\ Written(p, last)
       /\ log' = [log EXCEPT ![Len(log)].path = p]
  /\ stage' = "report"
  /\ UNCHANGED <<svars, setup, session, session_state>>

(* The command fails: the policy refuses the path or its lock is held. *)
Refused(p) == Target(p) = {} \/ Target(p) \cap disk.locks # {}
WriteTraceFails ==
  /\ stage = "trace" /\ Refused(CrashPath)
  /\ stage' = "stopped"
  /\ UNCHANGED <<svars, setup, session, session_state, log, disk>>

ReportWith(d, status, path) ==
  [d EXCEPT !.reports = Put(@, session, [status |-> status, path |-> path])]

(* report.json tells of this crash; then it is minimized if asked for. *)
WriteReport ==
  /\ stage = "report"
  /\ disk' = ReportWith(disk, last.status, log[Len(log)].path)
  /\ IF setup.minimize
     THEN /\ stage' = "minimize"
          /\ job' = [Idle EXCEPT !.items = last.input, !.status = last.status,
                                 !.max = setup.max]
          /\ candidate' = last.input
          /\ chunk' = FirstChunk(last.input)
          /\ at' = "pass"
          /\ UNCHANGED <<verdicts, index, improved, best, decisions, expired, slow, out>>
     ELSE stage' = (IF setup.crash_only THEN "end" ELSE "loop") /\ UNCHANGED svars
  /\ UNCHANGED <<setup, session, session_state, log>>

Minimize ==
  /\ stage = "minimize" /\ Loop
  /\ UNCHANGED <<setup, session, stage, session_state, log, disk>>

(* minimize_input and with it the session fail, of a target that is gone.  *)
MinimizeFails ==
  /\ stage = "minimize" /\ RunIsDue /\ at # "ended"
  /\ at' = "idle" /\ stage' = "stopped"
  /\ UNCHANGED <<job, verdicts, candidate, chunk, index, improved, best, decisions,
                 expired, slow, out, setup, session, session_state, log, disk>>

KeepMin ==
  /\ stage = "minimize" /\ at = "ended"
  /\ disk' = [disk EXCEPT !.mins = Persist(@, candidate)]
  /\ at' = "idle"
  /\ stage' = IF setup.crash_only THEN "end" ELSE "loop"
  /\ UNCHANGED <<job, verdicts, candidate, chunk, index, improved, best, decisions,
                 expired, slow, out, setup, session, session_state, log>>

-----------------------------------------------------------------------------
(* The loop ends after --runs, at the deadline, or with --crash-only.      *)
EndLoop ==
  /\ stage = "loop" /\ (executed = setup.runs \/ setup.timed)
  /\ stage' = "end"
  /\ UNCHANGED <<svars, setup, session, session_state, log, disk>>

LastPath == IF Crashes = 0 THEN Nothing ELSE log[Len(log)].path

(* The end of the session: without a crash, --record gets the last run; if *)
(* there was none, of the empty input, which passed without being run.     *)
NoRun == [input |-> <<>>, status |-> "pass", refused |-> FALSE]
Recorded == IF last = Nothing THEN NoRun ELSE last

Finish ==
  /\ stage = "end"
  /\ \/ /\ Crashes > 0 \/ ~setup.record
        /\ disk' = ReportWith(disk, IF Crashes = 0 THEN "pass" ELSE "fail", LastPath)
     \/ /\ Crashes = 0 /\ setup.record
        /\ \E p \in Target(Base) :
             disk' = [ReportWith(disk, "pass", p) EXCEPT
                        !.traces = Put(@, p, TraceOf(Recorded)), !.locks = @ \ {p}]
  /\ stage' = "stopped"
  /\ UNCHANGED <<svars, setup, session, session_state, log>>

FinishFails ==
  /\ stage = "end" /\ Crashes = 0 /\ setup.record /\ Refused(Base)
  /\ stage' = "stopped"
  /\ UNCHANGED <<svars, setup, session, session_state, log, disk>>

-----------------------------------------------------------------------------
(* A kill between two changes of the disk, in the middle of writing an     *)
(* input, or between taking the trace's lock and removing it.              *)
Kill ==
  /\ stage \notin {"stopped", "none"} /\ setup.killed
  /\ stage' = "stopped"
  /\ \/ UNCHANGED <<log, disk>>
     \/ /\ stage = "cover" /\ setup.coverage /\ ~(last.covers \subseteq edges)
        /\ disk' = [disk EXCEPT !.inputs = Tear(@, last.input)]
        /\ UNCHANGED log
     \/ /\ stage = "input" /\ last.input \notin DOMAIN disk.crashes
        /\ disk' = [disk EXCEPT !.crashes = Tear(@, last.input)]
        /\ log' = [log EXCEPT ![Len(log)].file = "torn"]
     \/ /\ stage = "minimize" /\ at = "ended"
        /\ disk' = [disk EXCEPT !.mins = Tear(@, candidate)]
        /\ UNCHANGED log
     \/ /\ stage = "trace"
        /\ \E p \in Target(CrashPath) \ disk.locks, written \in BOOLEAN :
             disk' = [disk EXCEPT !.locks = @ \cup {p},
                        !.traces = IF written THEN Put(@, p, TraceOf(last)) ELSE @]
        /\ UNCHANGED log
  /\ at' = "idle"
  /\ UNCHANGED <<job, verdicts, candidate, chunk, index, improved, best, decisions,
                 expired, slow, out, setup, session, session_state>>

(* `fozzy fuzz` again, with the same arguments. *)
Again ==
  /\ stage = "stopped" /\ session < MaxSessions
  /\ session' = session + 1
  /\ stage' = "loop"
  /\ corpus' = Loaded(disk)
  /\ edges' = {} /\ executed' = 0 /\ last' = Nothing
  /\ UNCHANGED <<svars, setup, log, disk>>

ShrinkAlone ==
  /\ stage = "none" /\ ShrinkNext
  /\ UNCHANGED <<setup, session, stage, session_state, log, disk>>

FuzzStep ==
  \/ Execute \/ Cover \/ KeepInput \/ WriteTrace \/ WriteTraceFails \/ WriteReport
  \/ Minimize \/ MinimizeFails \/ KeepMin \/ EndLoop \/ Finish \/ FinishFails \/ ShrinkAlone

FNext == FuzzStep \/ Kill \/ Again

FSpec == FInit /\ [][FNext]_fvars

(* Both commands are one thread that waits for nothing; nobody has to kill *)
(* them or to start another session.                                       *)
FairFSpec == FSpec /\ WF_fvars(FuzzStep)

-----------------------------------------------------------------------------
(* replay_fuzz_trace: the target once more, with the memory options of the *)
(* trace.  Memory that the target has not got is drift, which fails a      *)
(* replay that would pass.                                                 *)
ReplayStatus(t) ==
  LET s == verdicts[t.input].status
  IN  IF t.memory = "harness" /\ s = "pass" THEN "fail" ELSE s

Replaced(s) == setup.policy = "overwrite" /\ s < session

(* The file of an input holds it. *)
Whole(c) == c.run.input \in DOMAIN disk.crashes /\ disk.crashes[c.run.input] = c.run.input

(* Before this crash a session was killed while it wrote the same input,   *)
(* whose file no later session looks into (persist_crash_input).           *)
CutBefore(i) ==
  \E j \in 1..(i - 1) : log[j].file = "torn" /\ log[j].run.input = log[i].run.input

(* A crash survives its session, however that ends: only the last crash of *)
(* a session can be without its trace, one that has a trace has its input, *)
(* whole unless an earlier session was killed while it wrote that very     *)
(* file, the trace is not replaced by a later crash, nor by a later        *)
(* session unless it may overwrite, and unless it was the harness that     *)
(* refused the input the replay of the trace fails again.                  *)
CrashesAreKept ==
  \A i \in DOMAIN log :
    LET c == log[i]
    IN  IF c.path = Nothing
        THEN \A j \in DOMAIN log : log[j].session = c.session => j <= i
        ELSE /\ Whole(c) \/ CutBefore(i)
             /\ ~Replaced(c.session) =>
                  /\ c.path \in Exists
                  /\ disk.traces[c.path].input = c.run.input
                  /\ disk.traces[c.path].status = c.run.status
                  /\ c.run.refused \/ ReplayStatus(disk.traces[c.path]) # "pass"

(* A session that meets a crash again leaves its input whole, which is not *)
(* so where an earlier session was killed.                                 *)
CrashesAreWhole == \A i \in DOMAIN log : log[i].path # Nothing => Whole(log[i])

(* A report names a trace that is there and ended as it says, and only the *)
(* report of a session without a crash says that all passed.               *)
ReportsNameTraces ==
  \A s \in DOMAIN disk.reports :
    LET r == disk.reports[s]
    IN  /\ r.path # Nothing /\ ~Replaced(s) =>
             /\ r.path \in Exists
             /\ disk.traces[r.path].status = "pass" <=> r.status = "pass"
        /\ r.status = "pass" => \A i \in DOMAIN log : log[i].session # s

FuzzKeepsCrashes == CrashesAreKept /\ ReportsNameTraces

(* A session ends, and so does a shrink. *)
FuzzEnds == <>[](stage = "stopped" \/ (stage = "none" /\ at \in {"refused", "done"}))

=============================================================================
