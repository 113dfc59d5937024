--------------------------- MODULE ExploreReplay ---------------------------
(***************************************************************************)
(* run_explore_replay_inner (src/src/modes/explore/exec.rs): a recorded    *)
(* exploration, then its replay.  The replay runs the same script, so it   *)
(* starts from the state the recorded run had when its script ended; then  *)
(* it delivers the recorded ids, whether or not the messages could be      *)
(* delivered, and at the end one message more if any is left.              *)
(***************************************************************************)
EXTENDS Explore

VARIABLES
  stage,     \* "record", "decisions", "done" or "drift" (FozzyError::Trace)
  start,     \* the store and the queue when the script ended
  trial,     \* the decisions to replay
  pos,       \* how many of them were
  r_kv, r_ver, r_queue,
  r_status

replay == <<stage, trial, pos, r_kv, r_ver, r_queue, r_status>>
rvars  == <<vars, start, replay>>

RInit ==
  /\ Init
  /\ stage = "record" /\ trial = <<>> /\ pos = 0
  /\ start = [kv |-> kv, ver |-> ver, queue |-> queue]
  /\ r_kv = kv /\ r_ver = ver /\ r_queue = queue
  /\ r_status = "none"

Record ==
  /\ stage = "record"
  /\ Next
  /\ start' = IF phase = "script" THEN [kv |-> kv', ver |-> ver', queue |-> queue']
                                  ELSE start
  /\ UNCHANGED replay

(* What is left of a sequence when elements are taken out of it. *)
Subsequences(s) ==
  UNION {LET rising == {e \in [1..n -> DOMAIN s] : \A i, j \in 1..n : i < j => e[i] < e[j]}
         IN  {[i \in 1..n |-> s[e[i]]] : e \in rising} : n \in 1..Len(s)}

(* `fozzy replay` on the trace of the run that ended, or `fozzy shrink` on *)
(* it, which replays some of the decisions in their order: any of them,    *)
(* though the model shrinks failures only.                                 *)
Trials ==
  {decisions} \cup (IF status = "fail" THEN Subsequences(decisions) ELSE {})

BeginReplay ==
  /\ stage = "record" /\ phase = "done"
  /\ stage' = "decisions"
  /\ trial' \in Trials
  /\ r_kv' = start.kv /\ r_ver' = start.ver /\ r_queue' = start.queue
  /\ UNCHANGED <<vars, start, pos, r_status>>

\* mutants: every message up to it is taken; the version is not written
TakeUpTo(m) ==
  /\ r_queue' = {o \in r_queue : o.id > m.id}
  /\ r_kv' = KvAfter(m, r_kv, r_ver)
  /\ r_ver' = VerAfter(m, r_ver)
TakeWithoutVersion(m) ==
  /\ r_queue' = r_queue \ {m}
  /\ r_kv' = KvAfter(m, r_kv, r_ver)
  /\ UNCHANGED r_ver

Take(m) ==
  /\ r_queue' = r_queue \ {m}
  /\ r_kv' = KvAfter(m, r_kv, r_ver)
  /\ r_ver' = VerAfter(m, r_ver)

(* The next recorded id is looked up in the queue and delivered. *)
ReplayDecision ==
  /\ stage = "decisions" /\ pos < Len(trial)
  /\ pos' = pos + 1
  /\ \/ \E m \in r_queue :
          /\ m.id = trial[pos + 1]
          /\ Take(m)
          /\ IF ChecksHold(r_kv', FALSE)
             THEN UNCHANGED <<stage, r_status>>
             ELSE stage' = "done" /\ r_status' = "fail"
     \/ /\ \A m \in r_queue : m.id # trial[pos + 1]
        /\ stage' = "drift"
        /\ UNCHANGED <<r_kv, r_ver, r_queue, r_status>>
  /\ UNCHANGED <<vars, start, trial>>

(* All ids replayed: one more delivery if any is possible, picked afresh   *)
(* and without the progress check, then the final check.                   *)
ReplayEnd ==
  /\ stage = "decisions" /\ pos = Len(trial)
  /\ \/ \E m \in Picks(Deliverable(r_queue), {}) : Take(m)
     \/ Deliverable(r_queue) = {} /\ UNCHANGED <<r_kv, r_ver, r_queue>>
  /\ stage' = "done"
  /\ r_status' = IF ChecksHold(r_kv', TRUE) THEN "pass" ELSE "fail"
  /\ UNCHANGED <<vars, start, trial, pos>>

RNext == Record \/ BeginReplay \/ ReplayDecision \/ ReplayEnd

RSpec == RInit /\ [][RNext]_rvars

(* Both commands are one thread that nothing blocks. *)
FairRSpec == RSpec /\ WF_rvars(RNext)

-----------------------------------------------------------------------------
(* A trace never drifts: every recorded id is found in the replay's queue. *)
NeverDrifts == stage # "drift"

(* The replay of a run that failed on the way, or delivered all it could,  *)
(* ends with the recorded verdict, store and queue.                        *)
ReplayReproducesFinished ==
  stage = "done" /\ trial = decisions /\ status \in {"pass", "fail"}
    /\ (Deliverable(queue) = {} \/ (decisions # <<>> /\ ~ChecksHold(kv, FALSE))) =>
      /\ r_status = status
      /\ r_kv = kv /\ r_ver = ver /\ r_queue = queue

(* "every failure can be recorded, replayed, minimized" (README): the      *)
(* replay of a failed run fails.                                           *)
ReplayReproducesFailure ==
  stage = "done" /\ trial = decisions /\ status = "fail" => r_status = "fail"

(* The exploration and its replay end, without --steps and --time as well: *)
(* each turn of the loop takes a message and none is ever added.           *)
ExploreEnds == <>(phase = "error" \/ stage \in {"done", "drift"})

=============================================================================
