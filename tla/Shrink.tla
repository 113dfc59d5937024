------------------------------- MODULE Shrink -------------------------------
(***************************************************************************)
(* `fozzy shrink` and the minimization inside `fozzy fuzz`: one loop, in   *)
(* the source four times, that drops ever smaller chunks of a sequence as  *)
(* long as what is left still runs to a result of the same class.          *)
(*   input     the bytes of a fuzz input (minimize_input)                  *)
(*   steps     the steps of a scenario (shrink_trace_inner), after a       *)
(*             baseline run, and for `profile shrink` with a metric that   *)
(*             every kept trial must satisfy                               *)
(*   schedule  the decisions of an exploration (shrink_explore_trace)      *)
(*   setup     with --minimize all, then its setup steps                   *)
(* What a trial runs to is chosen when it is first run and repeated ever   *)
(* after: all of these runs are deterministic, but for the two seconds a   *)
(* fresh exploration is given.  A run that cannot be made ends the shrink. *)
(***************************************************************************)
EXTENDS Integers, Sequences

CONSTANTS
  Statuses,   \* how a run ends: "pass" and the failures
  Items,      \* bytes, steps and decisions
  Jobs,       \* what `fozzy shrink` may be given
  Nothing     \* no result

(* What is shrunk, the status to keep, the length no trial may exceed, the *)
(* items that must stay, whether a metric judges the trials, whether there *)
(* is a deadline, --minimize all, and the script of an exploration.        *)
JobRecords ==
  [kind : {"input", "steps", "schedule"}, items : Seq(Items), status : Statuses,
   max : Nat, fixed : SUBSET Items, judged : BOOLEAN, timed : BOOLEAN,
   all : BOOLEAN, script : Seq(Items)]

ASSUME JobsAssumption == \A j \in Jobs : j \in JobRecords
VARIABLES
  job,
  verdicts,   \* what each sequence run so far ran to
  at,         \* "idle", "baseline", "pass", "trial", "ended", "refused", "done"
  candidate,  \* the shortest sequence kept so far
  chunk, index, improved,
  best,       \* the verdict of the last run kept (best_run of a scenario)
  decisions,  \* the shrunk schedule, once its setup steps are shrunk too
  expired,    \* the deadline has passed
  slow,       \* a fresh exploration was cut off after its two seconds
  out         \* the trace written

loop  == <<at, candidate, chunk, index, improved, best>>
svars == <<job, verdicts, loop, decisions, expired, slow, out>>

(* A run: how it ended, and whether the metric kept its direction.         *)
Verdicts == [status : Statuses, good : BOOLEAN]

-----------------------------------------------------------------------------
(* shrink_status_matches: passing or not is all that counts. *)
Same(s) == s = "pass" <=> job.status = "pass"

Keeps(v) == Same(v.status) /\ (job.judged => v.good)

(* The trial is the candidate without the chunk at i. *)
Cut(s, i, c) == SubSeq(s, 1, i) \o SubSeq(s, i + c + 1, Len(s))

(* Trials that are not run: nothing left, longer than the input may be, or *)
(* a step dropped that is no setup step.                                   *)
Barred(s, i, c) ==
  \/ Cut(s, i, c) = <<>>
  \/ Len(Cut(s, i, c)) > job.max
  \/ \E j \in 1..Len(s) : i < j /\ j <= i + c /\ s[j] \in job.fixed

(* Running s gives v, now and whenever s is run again: the steps of a      *)
(* trace that was recorded on host backends are replayed against its       *)
(* decisions, other steps run afresh from its seed, in both cases on       *)
(* scripted backends and a virtual clock.                                  *)
Runs(s, v) ==
  /\ v \in Verdicts /\ (job.judged \/ v.good)
  /\ s \in DOMAIN verdicts => v = verdicts[s]
  /\ verdicts' = [t \in DOMAIN verdicts \cup {s} |->
                    IF t \in DOMAIN verdicts THEN verdicts[t] ELSE v]

Half(n) == (n + 1) \div 2

FirstChunk(s) == Half(IF s = <<>> THEN 1 ELSE Len(s))

Started(j) ==
  /\ job = j
  /\ candidate = j.items
  /\ chunk = FirstChunk(j.items)
  /\ index = 0 /\ improved = FALSE
  /\ at = IF j.kind = "steps" THEN "baseline" ELSE "pass"
  /\ best = Nothing /\ decisions = <<>>
  /\ expired = FALSE /\ slow = FALSE /\ out = Nothing

ShrinkInit == verdicts = <<>> /\ \E j \in Jobs : Started(j)

-----------------------------------------------------------------------------
(* run_candidate of the whole scenario: it must still end as recorded.     *)
(* What the metric says of it is not looked at.                            *)
Baseline ==
  /\ at = "baseline"
  /\ \E v \in Verdicts :
       /\ Runs(candidate, v)
       /\ best' = v
       /\ at' = IF Same(v.status) THEN "pass" ELSE "refused"
  /\ UNCHANGED <<job, candidate, chunk, index, improved, decisions, expired, slow, out>>

(* The condition of the outer loop. *)
More == ~expired /\ Len(candidate) > 1

StartPass ==
  /\ at = "pass"
  /\ at' = IF More THEN "trial" ELSE "ended"
  /\ index' = 0 /\ improved' = FALSE
  /\ UNCHANGED <<job, verdicts, candidate, chunk, best, decisions, expired, slow, out>>

InPass == at = "trial" /\ index < Len(candidate) /\ ~expired

Skip ==
  /\ InPass /\ Barred(candidate, index, chunk)
  /\ index' = index + chunk
  /\ UNCHANGED <<job, verdicts, at, candidate, chunk, improved, best, decisions,
                 expired, slow, out>>

(* The trial becomes the candidate and the next chunk moves up to index. *)
Accept(v) ==
  /\ candidate' = Cut(candidate, index, chunk)
  /\ improved' = TRUE
  /\ best' = v
  /\ UNCHANGED <<at, chunk, index>>

Reject ==
  /\ index' = index + chunk
  /\ UNCHANGED <<at, candidate, chunk, improved, best>>

Try ==
  /\ InPass /\ ~Barred(candidate, index, chunk)
  /\ \E v \in Verdicts :
       /\ Runs(Cut(candidate, index, chunk), v)
       /\ IF Keeps(v) THEN Accept(v) ELSE Reject
  /\ UNCHANGED <<job, decisions, expired, slow, out>>

(* A fresh exploration that takes longer than shrink_trial_duration ends   *)
(* with the status Timeout, which is as good as any other failure.         *)
CutOff == [status |-> "timeout", good |-> TRUE]
TrySlowly ==
  /\ InPass /\ ~Barred(candidate, index, chunk)
  /\ job.kind = "setup"
  /\ slow' = TRUE
  /\ IF Keeps(CutOff) THEN Accept(CutOff) ELSE Reject
  /\ UNCHANGED <<job, verdicts, decisions, expired, out>>

\* mutants: single items are tried once only; there is no way out of the loop
NextChunkAlways == /\ at' = IF chunk = 1 THEN "ended" ELSE "pass"
                   /\ chunk' = Half(chunk)
NextChunkForever == /\ at' = "pass"
                    /\ chunk' = IF improved THEN chunk ELSE Half(chunk)

NextChunk ==
  /\ at' = IF ~improved /\ chunk = 1 THEN "ended" ELSE "pass"
  /\ chunk' = IF improved THEN chunk ELSE Half(chunk)

EndPass ==
  /\ at = "trial" /\ (index >= Len(candidate) \/ expired)
  /\ NextChunk
  /\ UNCHANGED <<job, verdicts, candidate, index, improved, best, decisions,
                 expired, slow, out>>

(* --budget, fifteen seconds by default; an input has no deadline. *)
Expire ==
  /\ at \in {"pass", "trial"} /\ job.timed /\ ~expired
  /\ expired' = TRUE
  /\ UNCHANGED <<job, verdicts, loop, decisions, slow, out>>

(* The run in hand cannot be made (the target is gone, the metric of the   *)
(* objective has no value): the whole shrink fails and writes nothing.     *)
RunIsDue ==
  \/ at = "baseline"
  \/ InPass /\ ~Barred(candidate, index, chunk)
  \/ at = "ended" /\ (job.kind \in {"input", "setup"} \/ (job.kind = "schedule" /\ ~job.all))

RunFails ==
  /\ RunIsDue
  /\ at' = "refused"
  /\ UNCHANGED <<job, verdicts, candidate, chunk, index, improved, best, decisions,
                 expired, slow, out>>

Loop == StartPass \/ Skip \/ Try \/ EndPass

-----------------------------------------------------------------------------
Ended(kind) == at = "ended" /\ job.kind = kind

(* The scenario kept last is written with the run that kept it. *)
WriteSteps ==
  /\ Ended("steps")
  /\ out' = [items |-> candidate, ran |-> candidate, status |-> best.status]
  /\ at' = "done"
  /\ UNCHANGED <<job, verdicts, candidate, chunk, index, improved, best, decisions,
                 expired, slow>>

(* Inputs and schedules are run once more for the trace. *)
WriteRerun ==
  /\ Ended("input") \/ (Ended("schedule") /\ ~job.all)
  /\ \E v \in Verdicts :
       /\ Runs(candidate, v)
       /\ out' = [items |-> candidate, ran |-> candidate, status |-> v.status]
  /\ at' = "done"
  /\ UNCHANGED <<job, candidate, chunk, index, improved, best, decisions, expired, slow>>

(* --minimize all goes on with the setup steps of the script, explored     *)
(* afresh, until the same deadline.                                        *)
ShrinkSetup ==
  /\ Ended("schedule") /\ job.all
  /\ job' = [job EXCEPT !.kind = "setup", !.items = job.script, !.max = Len(job.script)]
  /\ candidate' = job.script
  /\ chunk' = FirstChunk(job.script)
  /\ decisions' = [items |-> candidate, verdicts |-> verdicts]
  /\ verdicts' = <<>>
  /\ at' = "pass"
  /\ index' = 0 /\ improved' = FALSE /\ best' = Nothing
  /\ UNCHANGED <<expired, slow, out>>

(* What the shrunk schedule is replayed to. *)
Replays ==
  {r \in Verdicts : r.good /\ (decisions.items \in DOMAIN decisions.verdicts
                               => r = decisions.verdicts[decisions.items])}

(* The shrunk scenario is explored once more.  If that does not end as     *)
(* recorded the shrunk schedule is replayed, on the scenario that was not  *)
(* shrunk, but it is written beside the one that was.                      *)
WriteSetup ==
  /\ Ended("setup")
  /\ \E v \in Verdicts \cup {CutOff} :
       /\ \/ Runs(candidate, v) /\ UNCHANGED slow
          \/ v = CutOff /\ slow' = TRUE /\ UNCHANGED verdicts
       /\ \/ /\ Same(v.status)
             /\ out' = [items |-> candidate, ran |-> candidate, status |-> v.status]
          \/ /\ ~Same(v.status)
             /\ \E r \in Replays :
                  out' = [items |-> candidate, ran |-> job.script, status |-> r.status]
  /\ at' = "done"
  /\ UNCHANGED <<job, candidate, chunk, index, improved, best, decisions, expired>>

Write == WriteSteps \/ WriteRerun \/ ShrinkSetup \/ WriteSetup

ShrinkNext == Baseline \/ Loop \/ TrySlowly \/ RunFails \/ Expire \/ Write

ShrinkSpec == ShrinkInit /\ [][ShrinkNext]_svars

-----------------------------------------------------------------------------
(* Without item i the candidate no longer ends as recorded, or may not be  *)
(* run.                                                                    *)
Needed(i) ==
  \/ Barred(candidate, i, 1)
  \/ /\ Cut(candidate, i, 1) \in DOMAIN verdicts
     /\ ~Keeps(verdicts[Cut(candidate, i, 1)])

(* A loop that ran to its end, and was not misled by a trial cut off for   *)
(* its time, ends on a sequence no single item of which can be dropped.    *)
ShrunkIsMinimal ==
  at = "ended" /\ ~expired /\ ~slow =>
    \A i \in 0..(Len(candidate) - 1) : Needed(i)

(* Whatever was dropped, and whenever the loop is left, what is kept ends  *)
(* as recorded.                                                            *)
ShrunkIsKept ==
  candidate # job.items /\ ~slow =>
    candidate \in DOMAIN verdicts /\ Keeps(verdicts[candidate])

(* The trace written is a run of what it holds, with a status of the class *)
(* asked for if the original still has it.                                 *)
ShrunkIsWritten ==
  out # Nothing /\ ~slow =>
    /\ out.ran = out.items
    /\ (\E v \in {verdicts[s] : s \in DOMAIN verdicts \cap {job.items}} : Same(v.status))
         => Same(out.status)

ShrinkIsSound == ShrunkIsMinimal /\ ShrunkIsKept /\ ShrunkIsWritten

=============================================================================
