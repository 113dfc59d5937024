------------------------------ MODULE HostProc ------------------------------
(***************************************************************************)
(* dispatch_host_proc (src/src/runtime/host.rs): running a real process    *)
(* for a proc_spawn step.  Four actors interleave: the child (and a        *)
(* process of its own that inherited its pipes), one reader thread per     *)
(* stream, and the dispatching thread, which polls the child, the readers' *)
(* channels and the deadline every 10 ms.                                  *)
(***************************************************************************)
EXTENDS Naturals

CONSTANTS
  MaxBytes,     \* HOST_PROC_MAX_STDOUT_BYTES and HOST_PROC_MAX_STDERR_BYTES
  PipeCap,      \* capacity of a pipe
  MaxWritten,   \* bound on what is written to one stream
  HasDeadline,  \* TRUE: --timeout is given
  Inherits      \* TRUE: a process the child starts may inherit its streams

ASSUME SizesAssumption == MaxBytes \in Nat /\ PipeCap \in Nat /\ MaxWritten \in Nat
ASSUME SwitchAssumption == {HasDeadline, Inherits} \subseteq BOOLEAN

Streams == {"stdout", "stderr"}

VARIABLES
  tidy,      \* the child keeps its streams open until it exits
  child,     \* "none", "running", "zombie", "reaped"
  holders,   \* stream -> the processes with its write end open
  pending,   \* stream -> bytes in the pipe
  written,   \* history: stream -> bytes ever written to it
  total, buf,   \* the reader's count, and the length of its buffer
  reader,    \* stream -> "reading", "sent" (its one message), "gone"
  channel,   \* stream -> "empty", "ok" (Ok(())), "limit" (LimitExceeded)
  pc,        \* the dispatching thread
  stdout_done,
  expired,   \* the deadline has passed
  result

pipes   == <<holders, pending, written>>
readers == <<total, buf, reader, channel>>
vars == <<tidy, child, pipes, readers, pc, stdout_done, expired, result>>

Init ==
  /\ tidy \in BOOLEAN
  /\ child = "none"
  /\ holders \in [Streams -> {{"child"}} \cup (IF Inherits THEN {{"child", "heir"}} ELSE {})]
  /\ pending = [s \in Streams |-> 0] /\ written = [s \in Streams |-> 0]
  /\ total = [s \in Streams |-> 0] /\ buf = [s \in Streams |-> 0]
  /\ reader = [s \in Streams |-> "reading"]
  /\ channel = [s \in Streams |-> "empty"]
  /\ pc = "spawn" /\ stdout_done = FALSE
  /\ expired = FALSE /\ result = "none"

-----------------------------------------------------------------------------
(* The child and its heir *)

Started == child # "none"
Alive(h) == h = "heir" \/ child = "running"

(* A process writes; the reader that hit the limit has closed its end, and *)
(* then the writer is killed by SIGPIPE.                                   *)
Write(h, s) ==
  /\ Started /\ Alive(h) /\ h \in holders[s]
  /\ IF reader[s] = "reading"
     THEN /\ pending[s] < PipeCap /\ written[s] < MaxWritten
          /\ pending' = [pending EXCEPT ![s] = @ + 1]
          /\ written' = [written EXCEPT ![s] = @ + 1]
          /\ UNCHANGED <<child, holders>>
     ELSE /\ child' = IF h = "child" THEN "zombie" ELSE child
          /\ holders' = [t \in Streams |-> holders[t] \ {h}]
          /\ UNCHANGED <<pending, written>>
  /\ UNCHANGED <<tidy, readers, pc, stdout_done, expired, result>>

Close(h, s) ==
  /\ Started /\ Alive(h) /\ h \in holders[s]
  /\ h = "child" => ~tidy
  /\ holders' = [holders EXCEPT ![s] = @ \ {h}]
  /\ UNCHANGED <<tidy, child, pending, written, readers, pc, stdout_done, expired, result>>

Exit ==
  /\ child = "running"
  /\ child' = "zombie"
  /\ holders' = [s \in Streams |-> holders[s] \ {"child"}]
  /\ UNCHANGED <<tidy, pending, written, readers, pc, stdout_done, expired, result>>

-----------------------------------------------------------------------------
(* spawn_stream_reader *)

Kept(n) == IF n <= MaxBytes THEN n ELSE MaxBytes

OverLimit(n) == n > MaxBytes

AtEndIfEmpty(s) == pending[s] = 0   \* mutant: an empty pipe taken for its end
AtEnd(s) == pending[s] = 0 /\ holders[s] = {}

Read(s) ==
  /\ Started /\ reader[s] = "reading" /\ pending[s] > 0
  /\ \E n \in 1..pending[s] :
       /\ pending' = [pending EXCEPT ![s] = @ - n]
       /\ total' = [total EXCEPT ![s] = @ + n]
       /\ buf' = [buf EXCEPT ![s] = Kept(@ + n)]
  /\ IF OverLimit(total'[s])
     THEN /\ channel' = [channel EXCEPT ![s] = "limit"]
          /\ reader' = [reader EXCEPT ![s] = "sent"]
     ELSE UNCHANGED <<channel, reader>>
  /\ UNCHANGED <<tidy, child, holders, written, pc, stdout_done, expired, result>>

ReadEnd(s) ==
  /\ Started /\ reader[s] = "reading" /\ AtEnd(s)
  /\ channel' = [channel EXCEPT ![s] = "ok"]
  /\ reader' = [reader EXCEPT ![s] = "sent"]
  /\ UNCHANGED <<tidy, child, pipes, total, buf, pc, stdout_done, expired, result>>

(* The reader thread returns and drops its end of the channel. *)
Return(s) ==
  /\ reader[s] = "sent"
  /\ reader' = [reader EXCEPT ![s] = "gone"]
  /\ UNCHANGED <<tidy, child, pipes, total, buf, channel, pc, stdout_done, expired, result>>

-----------------------------------------------------------------------------
(* The dispatching thread *)

Done(r) == pc' = "done" /\ result' = r
Goto(l) == pc' = l /\ UNCHANGED result
Received(s) == channel' = [channel EXCEPT ![s] = "empty"]

Spawn ==
  /\ pc = "spawn"
  /\ \/ child' = "running" /\ Goto("deadline")
     \/ UNCHANGED child /\ Done("spawn")
  /\ UNCHANGED <<tidy, pipes, readers, stdout_done, expired>>

Unwaited == "zombie"   \* mutant: killed and not waited for
Killed == "reaped"     \* kill, then wait

(* Head of the loop: past the deadline the child is killed and reaped. *)
CheckDeadline ==
  /\ pc = "deadline"
  /\ IF expired
     THEN /\ child' = Killed
          /\ holders' = [s \in Streams |-> holders[s] \ {"child"}]
          /\ Goto("drain_stdout")
     ELSE Goto("try_wait") /\ UNCHANGED <<child, holders>>
  /\ UNCHANGED <<tidy, pending, written, readers, stdout_done, expired>>

\* mutant: recv instead of recv_timeout
WaitReturnsNoTimeout(s, outcome) ==
  \/ outcome \in {"ok", "limit"} /\ channel[s] = outcome
  \/ outcome = "disconnected" /\ channel[s] = "empty" /\ reader[s] = "gone"

(* wait_stream_reader: what recv_timeout(1s) may return.  A second is      *)
(* taken to be enough for a reader to empty a pipe nobody holds open.      *)
WaitReturns(s, outcome) ==
  CASE outcome \in {"ok", "limit"} -> channel[s] = outcome
    [] outcome = "disconnected" -> channel[s] = "empty" /\ reader[s] = "gone"
    [] outcome = "flush" -> channel[s] = "empty" /\ reader[s] # "gone" /\ holders[s] # {}

Outcomes == {"ok", "limit", "disconnected", "flush"}

(* After a kill the readers are waited for and their results ignored. *)
Drain(s, here, next, r) ==
  /\ pc = here
  /\ \E outcome \in Outcomes : WaitReturns(s, outcome)
  /\ Received(s)
  /\ pc' = next /\ result' = r
  /\ UNCHANGED <<tidy, child, pipes, total, buf, reader, stdout_done, expired>>
DrainStdout == Drain("stdout", "drain_stdout", "drain_stderr", result)
DrainStderr == Drain("stderr", "drain_stderr", "done", "timed_out")

TryWait ==
  /\ pc = "try_wait"
  /\ IF child = "zombie"
     THEN child' = "reaped" /\ Goto("flush_stdout")
     ELSE UNCHANGED child /\ Goto("poll_stdout")
  /\ UNCHANGED <<tidy, pipes, readers, stdout_done, expired>>

(* The child has exited: both readers must report the end of their stream. *)
Flush(s, here, next, r) ==
  /\ pc = here
  /\ \E outcome \in Outcomes :
       /\ WaitReturns(s, outcome)
       /\ IF outcome = "ok" THEN pc' = next /\ result' = r ELSE Done(outcome)
  /\ Received(s)
  /\ UNCHANGED <<tidy, child, pipes, total, buf, reader, stdout_done, expired>>
FlushStdout == Flush("stdout", "flush_stdout", "flush_stderr", result)
FlushStderr == Flush("stderr", "flush_stderr", "done", "completed")

(* poll_stream_reader: what try_recv returns. *)
PollReturns(s, outcome) ==
  CASE outcome \in {"ok", "limit"} -> channel[s] = outcome
    [] outcome = "disconnected" -> channel[s] = "empty" /\ reader[s] = "gone"
    [] outcome = "empty" -> channel[s] = "empty" /\ reader[s] # "gone"

PollStdout ==
  /\ pc = "poll_stdout"
  /\ \E outcome \in {"ok", "limit", "disconnected", "empty"} :
       /\ PollReturns("stdout", outcome)
       /\ stdout_done' = (outcome = "ok")
       /\ IF outcome \in {"ok", "empty"} THEN Goto("poll_stderr") ELSE Done(outcome)
  /\ Received("stdout")
  /\ UNCHANGED <<tidy, child, pipes, total, buf, reader, expired>>

BothEnded(outcome) == stdout_done /\ outcome = "ok"

(* Only two ends seen in the same round lead to the blocking wait; else    *)
(* the thread sleeps and the round is forgotten.                           *)
PollStderr ==
  /\ pc = "poll_stderr"
  /\ \E outcome \in {"ok", "limit", "disconnected", "empty"} :
       /\ PollReturns("stderr", outcome)
       /\ IF outcome \in {"ok", "empty"}
          THEN Goto(IF BothEnded(outcome) THEN "reap" ELSE "deadline")
          ELSE Done(outcome)
  /\ Received("stderr")
  /\ stdout_done' = FALSE
  /\ UNCHANGED <<tidy, child, pipes, total, buf, reader, expired>>

(* child.wait(): blocks, without a deadline, until the child exits. *)
Reap ==
  /\ pc = "reap" /\ child = "zombie"
  /\ child' = "reaped"
  /\ Done("completed")
  /\ UNCHANGED <<tidy, pipes, readers, stdout_done, expired>>

Expire ==
  /\ HasDeadline /\ ~expired /\ pc # "done"
  /\ expired' = TRUE
  /\ UNCHANGED <<tidy, child, pipes, readers, pc, stdout_done, result>>

-----------------------------------------------------------------------------
Dispatch ==
  \/ Spawn \/ CheckDeadline \/ DrainStdout \/ DrainStderr \/ TryWait
  \/ FlushStdout \/ FlushStderr \/ PollStdout \/ PollStderr \/ Reap

Reader(s) == Read(s) \/ ReadEnd(s) \/ Return(s)

Outside == Exit \/ \E h \in {"child", "heir"}, s \in Streams : Write(h, s) \/ Close(h, s)

Next == Dispatch \/ (\E s \in Streams : Reader(s)) \/ Outside \/ Expire

Spec == Init /\ [][Next]_vars

(* The operating system runs every thread of this program and time passes; *)
(* nothing is assumed of the processes it started.                         *)
FairSpec ==
  /\ Spec
  /\ WF_vars(Dispatch)
  /\ \A s \in Streams : WF_vars(Reader(s))
  /\ WF_vars(Expire)

-----------------------------------------------------------------------------
Results == {"none", "spawn", "completed", "timed_out", "limit", "disconnected", "flush"}

(* The values of the state. *)
TypeOK ==
  /\ tidy \in BOOLEAN
  /\ child \in {"none", "running", "zombie", "reaped"}
  /\ holders \in [Streams -> SUBSET {"child", "heir"}]
  /\ pending \in [Streams -> Nat] /\ written \in [Streams -> Nat]
  /\ total \in [Streams -> Nat] /\ buf \in [Streams -> 0..MaxBytes]
  /\ reader \in [Streams -> {"reading", "sent", "gone"}]
  /\ channel \in [Streams -> {"empty", "ok", "limit"}]
  /\ pc \in {"spawn", "deadline", "drain_stdout", "drain_stderr", "try_wait",
            "flush_stdout", "flush_stderr", "poll_stdout", "poll_stderr", "reap", "done"}
  /\ stdout_done \in BOOLEAN /\ expired \in BOOLEAN
  /\ result \in Results

(* A completed call returns all of the output: everything the child (and   *)
(* whoever it shared its streams with) wrote is in the two buffers, the    *)
(* streams are closed, and the child has been reaped.  This holds on both  *)
(* ways out, whether the exit or the ends of the streams were seen first.  *)
CompletedHasAllOutput ==
  result = "completed" =>
    /\ child = "reaped"
    /\ \A s \in Streams : buf[s] = written[s] /\ holders[s] = {}

(* A call that timed out did so after the deadline, left no child behind,  *)
(* and returns no more than was written.                                   *)
TimeoutIsClean ==
  result = "timed_out" =>
    /\ expired /\ child = "reaped"
    /\ \A s \in Streams : buf[s] <= written[s]

(* "host proc run should pass" (the test of /usr/bin/true): a reader that  *)
(* did its work is not reported as lost.                                   *)
ReaderNotReportedLost == result # "disconnected"

(* Once the deadline has passed the call returns, unless the child closed  *)
(* its streams and runs on: then child.wait() has no deadline.  A full     *)
(* pipe, an heir of the streams, a late reader do not hold the call up.    *)
DeadlineEndsCall == (tidy /\ expired) ~> (pc = "done")

(* "Hung host proc calls time out promptly" (FIXES.md): once the deadline  *)
(* has passed the call returns, whatever the child does.                   *)
DeadlineEndsEveryCall == expired ~> (pc = "done")

=============================================================================
