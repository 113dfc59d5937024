------------------------------ MODULE Scenario ------------------------------
(***************************************************************************)
(* The scenario engine (src/src/runtime/engine): a run executes the steps  *)
(* of a scenario one after the other over an ExecCtx and logs the choices  *)
(* it made; a replay executes the same steps with a cursor over that log.  *)
(* One behaviour is a recording followed by the replay of its trace.       *)
(*                                                                         *)
(* The random generator is a stream of values drawn in order, the same for *)
(* the recording and the replay because the trace holds the seed.  Strings *)
(* are numbers or model values.  Memory steps are in module MemoryCap and  *)
(* the file and http steps, which follow the pattern of proc_spawn, are    *)
(* not modelled.                                                           *)
(***************************************************************************)
EXTENDS Integers, Sequences, FiniteSets, FiniteSetsExt, SequencesExt

CONSTANTS
  Menus,        \* what recordings are made of, see Menu
  HostResults,  \* what a host process may do: records with a result
  MaxDraw,      \* the largest value the random generator draws
  Nodes,        \* the names of the network nodes
  None          \* an absent option, value or decision

(* What a recording may fail with and its replay need not: these failures  *)
(* leave no decision in the log.                                           *)
Unlogged ==
  {"scenario_timeout",       \* the loop's timeout
   "proc_unmatched",         \* a replayed spawn uses up no rule
   "proc_when_host_unmatched", "proc_when_host_exit", "proc_spawn_host"}
                             \* these come before the decision of the spawn

ASSUME NoneAssumption == None \notin Int \cup Unlogged
ASSUME MenuAssumption ==
  /\ MaxDraw \in Nat
  /\ \A m \in Menus :
       /\ DOMAIN m = {"steps",     \* the steps of scenarios, as records with an op
                     "max",       \* bound on the number of them
                     "dets",      \* the values of --det
                     "timeouts",  \* the values of --timeout in ms, None for no timeout
                     "backends",  \* the values of --proc-backend: "scripted", "host"
                     "untils",    \* whether the replay has an --until budget
                     "streams"}   \* what the random generator draws, in order
       /\ m.max \in Nat /\ m.dets \subseteq BOOLEAN /\ m.untils \subseteq BOOLEAN
       /\ m.streams \subseteq Seq(0..MaxDraw) \ {<<>>}
       /\ \A step \in m.steps :
            /\ step.op \in {"sleep", "advance"} => step.ms \in Nat
            /\ step.op = "freeze" => step.at \in Nat \cup {None}
            /\ step.op \in {"eventually", "never"} => step.poll \in Nat
ASSUME HostAssumption == \A r \in HostResults : r.result # "refused" => r.ms \in Nat

VARIABLES
  setup,      \* the scenario and the options of its recording, never changed
  mode,       \* "record", then "replay"
  phase,      \* "head" of the loop, in a "step", "polling" in one, or "over"
  pc,         \* the step of the scenario in hand, 1-based as its task id is
  nest,       \* None, or the frame of the assert_throws block being run
  deadline,   \* of the assert_eventually_kv or assert_never_kv being polled
  world,      \* what exec_expect_failure checkpoints (ExecCheckpoint)
  log,        \* ctx.decisions
  findings,   \* the titles of ctx.findings
  executed,   \* ctx.executed_steps
  cursor,     \* ctx.replay: the position in the trace, None when not replaying
  status,     \* of the run in hand: None until it ends
  recorded    \* None, or the recording: its trace and how it ended

run  == <<pc, nest, deadline, world, log, findings, executed, cursor, status>>
vars == <<setup, mode, phase, run, recorded>>

Program == setup.program
Det     == mode = "replay" \/ setup.det
Backend == IF mode = "replay" THEN "scripted" ELSE setup.backend

-----------------------------------------------------------------------------
(* ExecCtx::new *)
EmptyWorld ==
  [rng |-> 0, clock |-> 0, frozen |-> FALSE, kv |-> <<>>, rules |-> <<>>,
   queue |-> <<>>, inbox |-> [n \in Nodes |-> <<>>], cut |-> {}, next_id |-> 1,
   rate |-> 0, reorder |-> FALSE]

(* rng.next_u64: the value drawn, the stream repeating past its end. *)
Draw(w) == setup.stream[(w.rng % Len(setup.stream)) + 1]
Drawn(w) == [w EXCEPT !.rng = @ + 1]

Put(w, key, value) ==
  [w EXCEPT !.kv = [k \in DOMAIN @ \cup {key} |-> IF k = key THEN value ELSE @[k]]]
Lookup(w, key) == IF key \in DOMAIN w.kv THEN w.kv[key] ELSE None

(* The decisions of the trace, and the one the cursor is at. *)
Peek(c) == IF c # None /\ c \in DOMAIN recorded.trace THEN recorded.trace[c] ELSE None
NextIs(c, kind) ==
  c # None /\ c \in DOMAIN recorded.trace /\ recorded.trace[c].kind = kind
Past(c) == IF c = None THEN None ELSE c + 1

(* A step is one of the scenario's own, or of an assert_throws block.      *)
InBlock == nest # None
CurrentStep == IF InBlock THEN Program[pc].steps[nest.pc] ELSE Program[pc]
Doing(op) == phase = "step" /\ CurrentStep.op = op

IsDeclaration(step) == step.op = "when"

(* The virtual time of the run has used up its timeout. *)
Spent(w) == setup.timeout # None /\ w.clock >= setup.timeout

\* mutant: off by one
TimeoutPassed(w) ==
  IF mode = "replay" \/ setup.timeout = None THEN {FALSE}
  ELSE IF setup.det THEN {Spent(w) /\ w.clock # setup.timeout} ELSE BOOLEAN

(* timeout_reached: virtual time in deterministic mode, real time (which   *)
(* may have run out at any moment) in the other.                           *)
TimeoutReached(w) ==
  IF mode = "replay" \/ setup.timeout = None THEN {FALSE}
  ELSE IF setup.det THEN {Spent(w)} ELSE BOOLEAN

-----------------------------------------------------------------------------
Init ==
  /\ \E m \in Menus : \E n \in 0..m.max : setup \in
       [program : [1..n -> m.steps], det : m.dets, timeout : m.timeouts,
        backend : m.backends, until : m.untils, stream : m.streams]
  /\ mode = "record" /\ phase = "head"
  /\ pc = 1 /\ nest = None /\ deadline = None
  /\ world = EmptyWorld /\ log = <<>> /\ findings = {} /\ executed = 0
  /\ cursor = None /\ status = None /\ recorded = None

(* ExecCtx::finish *)
End(s, new) ==
  /\ phase' = "over" /\ status' = s /\ findings' = findings \cup new
  /\ nest' = None /\ deadline' = None

(* The head of the loop when a step is left: the recording looks at its    *)
(* timeout and logs the pick; the replay, unless its --until budget of     *)
(* real time is spent, expects that pick in the trace.                     *)
(* A trace without any pick is taken for one of the older format, whose    *)
(* step decisions no recording writes any more: it is refused all the same. *)
PickStep ==
  /\ phase = "head" /\ pc <= Len(Program)
  /\ \/ /\ mode = "record"
        /\ \E out \in TimeoutReached(world) :
             IF out THEN End("timeout", {"scenario_timeout"}) /\ UNCHANGED log
             ELSE /\ log' = Append(log, [kind |-> "pick", id |-> pc])
                  /\ phase' = "step"
                  /\ UNCHANGED <<status, findings, nest, deadline>>
        /\ UNCHANGED cursor
     \/ /\ mode = "replay" /\ setup.until
        /\ End("timeout", {"until"})
        /\ UNCHANGED <<log, cursor>>
     \/ /\ mode = "replay"
        /\ cursor' = Past(cursor)
        /\ IF NextIs(cursor, "pick") /\ Peek(cursor).id = pc
           THEN phase' = "step" /\ UNCHANGED <<status, findings, nest, deadline>>
           ELSE End("error", {"replay drift"})
        /\ UNCHANGED log
  /\ UNCHANGED <<setup, mode, pc, world, executed, recorded>>

(* The loop has run out of steps. *)
EndOfSteps ==
  /\ phase = "head" /\ pc > Len(Program)
  /\ IF mode = "replay" /\ cursor <= Len(recorded.trace)
     THEN End("fail", {"replay_unused_decisions"})
     ELSE IF executed = 0 /\ \E i \in DOMAIN Program : IsDeclaration(Program[i])
     THEN End("fail", {"no_steps_executed"})
     ELSE End("pass", {})
  /\ UNCHANGED <<setup, mode, pc, world, log, executed, cursor, recorded>>

(* A step of the scenario itself has succeeded, leaving the world w. *)
StepDone(w) ==
  /\ world' = w
  /\ executed' = IF IsDeclaration(Program[pc]) THEN executed ELSE executed + 1
  /\ \E out \in TimeoutReached(w) :
       IF out THEN End("timeout", {"scenario_timeout"}) /\ UNCHANGED pc
       ELSE /\ pc' = pc + 1 /\ phase' = "head" /\ nest' = None /\ deadline' = None
            /\ UNCHANGED <<status, findings>>

\* mutant: the status is left as it was initialised
StepFailedStatusKept(w, title) ==
  /\ world' = w
  /\ End(IF title = "proc_timeout" THEN "timeout" ELSE "pass", {title})
  /\ UNCHANGED <<pc, executed>>

(* A step of the scenario itself has failed. *)
StepFailed(w, title) ==
  /\ world' = w
  /\ End(IF title = "proc_timeout" THEN "timeout" ELSE "fail", {title})
  /\ UNCHANGED <<pc, executed>>

(* How every step ends: the world it leaves, the decisions it logs, where  *)
(* it leaves the cursor, and the title of its finding, None on success.    *)
(* In a block a failure is what the block expects: the checkpoint and the  *)
(* cursor come back and the block has succeeded, while the log keeps what  *)
(* the block wrote.                                                        *)
Settle(w, ds, c, err) ==
  /\ log' = log \o ds
  /\ UNCHANGED <<setup, mode, recorded>>
  /\ IF ~InBlock THEN
       /\ cursor' = c
       /\ IF err = None THEN StepDone(w) ELSE StepFailed(w, err)
     ELSE IF err # None THEN
       /\ cursor' = nest.cursor
       /\ StepDone(nest.saved)
     ELSE IF nest.pc < Len(Program[pc].steps) THEN
       /\ nest' = [nest EXCEPT !.pc = @ + 1]
       /\ world' = w /\ cursor' = c /\ phase' = "step" /\ deadline' = None
       /\ UNCHANGED <<pc, status, findings, executed>>
     ELSE
       /\ cursor' = nest.cursor
       /\ StepFailed(nest.saved, "assert_throws")

Succeed(w) == Settle(w, <<>>, cursor, None)
Refuse(title) == Settle(world, <<>>, cursor, title)

\* mutant: the decision of the trace is compared and not taken
ComparedNotTaken(w0, w, d) ==
  IF cursor = None \/ Peek(cursor) = d
  THEN Settle(w, <<d>>, cursor, None)
  ELSE Settle(w0, <<d>>, cursor, "replay_drift")

(* A decision the step computes anew and only compares with the trace,     *)
(* where it drifts leaving the world w0.                                   *)
Compared(w0, w, d) ==
  IF cursor = None \/ Peek(cursor) = d
  THEN Settle(w, <<d>>, Past(cursor), None)
  ELSE Settle(w0, <<d>>, Past(cursor), "replay_drift")

-----------------------------------------------------------------------------
(* exec_basic_step *)
RandU64 ==
  /\ Doing("rand")
  /\ Compared(Drawn(world), Put(Drawn(world), CurrentStep.key, Draw(world)),
              [kind |-> "rand", value |-> Draw(world)])

AdvancedNever(w, ms) == w   \* mutant
Advanced(w, ms) == [w EXCEPT !.clock = @ + ms]

(* A recording that is not deterministic really sleeps and logs nothing.   *)
Sleep ==
  /\ Doing("sleep")
  /\ LET d == [kind |-> "sleep", ms |-> CurrentStep.ms]
         w == Advanced(world, CurrentStep.ms)
     IN  IF Det THEN Compared(w, w, d) ELSE Succeed(world)

Advance ==
  /\ Doing("advance")
  /\ LET d == [kind |-> "advance", ms |-> CurrentStep.ms]
         w == Advanced(world, CurrentStep.ms)
     IN  IF Det THEN Compared(w, w, d) ELSE Refuse("advance_requires_det")

Freeze ==
  /\ Doing("freeze")
  /\ Succeed([world EXCEPT !.frozen = TRUE,
                           !.clock = IF CurrentStep.at = None THEN @ ELSE CurrentStep.at])

Unfreeze == Doing("unfreeze") /\ Succeed([world EXCEPT !.frozen = FALSE])

SetKv == Doing("set") /\ Succeed(Put(world, CurrentStep.key, CurrentStep.value))

(* The key is to be absent, or to have a value, or to have this one. *)
GetKvAssert ==
  /\ Doing("get")
  /\ LET got == Lookup(world, CurrentStep.key)
     IN  IF CurrentStep.is_null = (got = None) /\ CurrentStep.equals \in {None, got}
         THEN Succeed(world) ELSE Refuse("get_kv_assert")

(* assert_ok and the other assertions over constants, fail and panic. *)
Fail == Doing("fail") /\ Refuse("fail")

-----------------------------------------------------------------------------
(* exec_proc_net_step, processes.  An exit code stands for all that is     *)
(* observed of a process.                                                  *)
ProcWhen ==
  /\ Doing("when")
  /\ Succeed([world EXCEPT !.rules = Append(@,
       [cmd |-> CurrentStep.cmd, exit |-> CurrentStep.exit, times |-> CurrentStep.times])])

Matching(w, cmd) == {i \in DOMAIN w.rules : w.rules[i].cmd = cmd /\ w.rules[i].times # 0}
UsedOnce(w, i) ==
  [w EXCEPT !.rules[i].times = IF @ = None THEN None ELSE @ - 1]

SpawnDecision(exit, ms) ==
  [kind |-> "spawn", cmd |-> CurrentStep.cmd, exit |-> exit, ms |-> ms]
SpawnTimeoutDecision(ms) ==
  [kind |-> "spawn_timeout", cmd |-> CurrentStep.cmd, ms |-> ms]

(* What the step asserts of the process, and what it saves. *)
CheckExit(w, ds, c, exit) ==
  IF CurrentStep.expect \notin {None, exit} THEN Settle(w, ds, c, "proc_exit")
  ELSE IF CurrentStep.save = None THEN Settle(w, ds, c, None)
  ELSE Settle(Put(w, CurrentStep.save, exit), ds, c, None)

SpawnReplayed ==
  /\ Doing("spawn") /\ (NextIs(cursor, "spawn") \/ NextIs(cursor, "spawn_timeout"))
  /\ LET d == Peek(cursor) IN
     IF d.cmd # CurrentStep.cmd THEN Refuse("replay_drift")
     ELSE IF d.kind = "spawn"
     THEN CheckExit(Advanced(world, d.ms), <<>>, Past(cursor), d.exit)
     ELSE Settle(Advanced(world, d.ms), <<>>, Past(cursor), "proc_timeout")

SpawnLive == Doing("spawn") /\ ~NextIs(cursor, "spawn") /\ ~NextIs(cursor, "spawn_timeout")

(* A process of the host, checked against the first rule that matches when *)
(* there are rules at all.  A process whose exit is not the rule's fails    *)
(* the step before its decision is logged.                                 *)
SpawnHost(r) ==
  LET cmd   == CurrentStep.cmd
      match == Matching(world, cmd)
      rule  == world.rules[Min(match)]
      used  == IF match = {} THEN world ELSE UsedOnce(world, Min(match))
  IN
  /\ SpawnLive /\ Backend = "host"
  /\ r.result = "timed_out" => setup.timeout # None
  /\ IF world.rules # <<>> /\ match = {} THEN Refuse("proc_when_host_unmatched")
     ELSE IF r.result = "refused" THEN Refuse("proc_spawn_host")
     ELSE IF r.result = "timed_out"
     THEN Settle(Advanced(world, r.ms), <<SpawnTimeoutDecision(r.ms)>>, cursor, "proc_timeout")
     ELSE IF match # {} /\ rule.exit # r.exit
     THEN Settle(used, <<>>, cursor, "proc_when_host_exit")
     ELSE CheckExit(Advanced(used, r.ms), <<SpawnDecision(r.exit, r.ms)>>, cursor, r.exit)

SpawnScripted ==
  LET match == Matching(world, CurrentStep.cmd) IN
  /\ SpawnLive /\ Backend = "scripted"
  /\ IF match = {} THEN Refuse("proc_unmatched")
     ELSE LET exit == world.rules[Min(match)].exit
          IN  CheckExit(UsedOnce(world, Min(match)), <<SpawnDecision(exit, 0)>>, cursor, exit)

-----------------------------------------------------------------------------
(* exec_proc_net_step, network.  A drop rate is counted in the steps of    *)
(* the random values: v < rate stands for v / max < rate / max.            *)
NetPartition == Doing("partition") /\ Succeed([world EXCEPT !.cut = @ \cup {CurrentStep.pair}])
NetHeal == Doing("heal") /\ Succeed([world EXCEPT !.cut = @ \ {CurrentStep.pair}])
NetSetDropRate ==
  /\ Doing("rate")
  /\ IF CurrentStep.rate \in 0..MaxDraw
     THEN Succeed([world EXCEPT !.rate = CurrentStep.rate]) ELSE Refuse("net_drop_rate")
NetSetReorder == Doing("reorder") /\ Succeed([world EXCEPT !.reorder = CurrentStep.on])

NetSend ==
  /\ Doing("send")
  /\ Succeed([world EXCEPT !.next_id = @ + 1,
       !.queue = Append(@, [id |-> world.next_id, from |-> CurrentStep.from,
                            to |-> CurrentStep.to, payload |-> CurrentStep.payload])])

(* The places in the queue of what may be delivered, and the nth of them,  *)
(* counted from 0.                                                         *)
Deliverable(w) == {i \in DOMAIN w.queue : {w.queue[i].from, w.queue[i].to} \notin w.cut}
Nth(places, n) == CHOOSE i \in places : Cardinality({j \in places : j < i}) = n

\* mutant: the head is taken whatever was picked
WithoutHead(queue, i) == Tail(queue)
Without(queue, i) == RemoveAt(queue, i)
DropDecision(id, dropped) == [kind |-> "drop", id |-> id, dropped |-> dropped]

(* The second half of the step: whether the message picked, at place i of  *)
(* the queue, is dropped.                                                  *)
DropOrDeliver(w, c, i) ==
  LET m       == w.queue[i]
      taken   == [w EXCEPT !.queue = Without(@, i)]
      pick    == [kind |-> "deliver", id |-> m.id]
      logged  == NextIs(c, "drop")
      sampled == ~logged /\ w.rate > 0
      dropped == IF logged THEN Peek(c).dropped ELSE sampled /\ Draw(w) < w.rate
      after   == IF sampled THEN Drawn(taken) ELSE taken
      drop    == DropDecision(m.id, dropped)
  IN
  IF logged /\ Peek(c).id # m.id THEN Settle(taken, <<pick>>, c, "replay_drift")
  ELSE Settle(IF dropped THEN after ELSE [after EXCEPT !.inbox[m.to] = Append(@, m)],
              <<pick, drop>>, IF logged THEN Past(c) ELSE c, None)

(* A replayed pick or drop draws nothing from the random stream. *)
NetDeliverOne ==
  /\ Doing("deliver")
  /\ LET ready  == Deliverable(world)
         asked  == {i \in ready : world.queue[i].id = Peek(cursor).id}
         random == IF CurrentStep.random = None THEN world.reorder ELSE CurrentStep.random
     IN
     IF ready = {} THEN Refuse("net_deliver")
     ELSE IF NextIs(cursor, "deliver") THEN
       IF asked # {} THEN DropOrDeliver(world, Past(cursor), Min(asked))
       ELSE Refuse("replay_drift")
     ELSE IF random
     THEN DropOrDeliver(Drawn(world), cursor, Nth(ready, Draw(world) % Cardinality(ready)))
     ELSE DropOrDeliver(world, cursor, Nth(ready, 0))

NetRecvAssert ==
  /\ Doing("recv")
  /\ LET inbox == world.inbox[CurrentStep.node]
         found == {i \in DOMAIN inbox :
                     /\ CurrentStep.from \in {None, inbox[i].from}
                     /\ inbox[i].payload = CurrentStep.payload}
     IN  IF found = {} THEN Refuse("net_recv_assert")
         ELSE Succeed([world EXCEPT !.inbox[CurrentStep.node] = RemoveAt(@, Min(found))])

-----------------------------------------------------------------------------
(* exec_expect_failure: the checkpoint is taken, the cursor put aside, and *)
(* the decisions and findings so far are cleared.  The checkpoint does not *)
(* hold them.  Blocks inside blocks are not modelled.                      *)
AssertThrows ==
  /\ Doing("throws")
  /\ nest' = [saved |-> world, cursor |-> cursor, pc |-> 1]
  /\ cursor' = None /\ log' = <<>> /\ findings' = {}
  /\ UNCHANGED <<setup, mode, phase, pc, deadline, world, executed, status, recorded>>

(* assert_eventually_kv and assert_never_kv poll a virtual deadline. *)
StartPolling ==
  /\ phase = "step" /\ CurrentStep.op \in {"eventually", "never"}
  /\ phase' = "polling"
  /\ deadline' = world.clock + CurrentStep.within
  /\ UNCHANGED <<setup, mode, pc, nest, world, log, findings, executed, cursor, status, recorded>>

PollEnds ==
  LET seen   == Lookup(world, CurrentStep.key) = CurrentStep.value
      wanted == CurrentStep.op = "eventually"
  IN
  /\ phase = "polling"
  /\ \/ seen /\ IF wanted THEN Succeed(world) ELSE Refuse("assert_never_kv")
     \/ ~seen /\ world.clock >= deadline
        /\ IF wanted THEN Refuse("assert_eventually_kv") ELSE Succeed(world)

(* sleep_poll: only a deterministic run moves the clock the deadline is on. *)
PollSleeps ==
  /\ phase = "polling"
  /\ Lookup(world, CurrentStep.key) # CurrentStep.value /\ ~ (world.clock >= deadline)
  /\ world' = IF Det THEN Advanced(world, CurrentStep.poll) ELSE world
  /\ UNCHANGED <<setup, mode, phase, pc, nest, deadline, log, findings, executed, cursor,
                 status, recorded>>

-----------------------------------------------------------------------------
(* replay_trace: a new context, over the trace the recording wrote. *)
StartReplay ==
  /\ mode = "record" /\ phase = "over"
  /\ recorded' = [trace |-> log, status |-> status, findings |-> findings, world |-> world]
  /\ mode' = "replay" /\ phase' = "head" /\ pc' = 1
  /\ nest' = None /\ deadline' = None /\ world' = EmptyWorld
  /\ log' = <<>> /\ findings' = {} /\ executed' = 0 /\ cursor' = 1 /\ status' = None
  /\ UNCHANGED setup

BasicStep == RandU64 \/ Sleep \/ Advance \/ Freeze \/ Unfreeze \/ SetKv \/ GetKvAssert \/ Fail
ProcStep  == ProcWhen \/ SpawnReplayed \/ SpawnScripted \/ \E r \in HostResults : SpawnHost(r)
NetStep   == NetPartition \/ NetHeal \/ NetSetDropRate \/ NetSetReorder
             \/ NetSend \/ NetDeliverOne \/ NetRecvAssert
BlockStep == AssertThrows \/ StartPolling \/ PollEnds \/ PollSleeps
Next == PickStep \/ EndOfSteps \/ BasicStep \/ ProcStep \/ NetStep \/ BlockStep \/ StartReplay

Spec == Init /\ [][Next]_vars

(* The one thread of the run goes on as long as it can. *)
FairSpec == Spec /\ WF_vars(Next)

-----------------------------------------------------------------------------

(* A run that passes has run every step, in either mode: nothing ends the  *)
(* loop early without a finding, and a finding never ends in a pass.       *)
PassRunsEverything ==
  phase = "over" /\ status = "pass" =>
    /\ pc = Len(Program) + 1 /\ findings = {}
    /\ executed = Cardinality({i \in DOMAIN Program : ~IsDeclaration(Program[i])})

(* A deterministic recording of a step or more that passes never used up   *)
(* its timeout: the virtual time a step takes is held against the limit    *)
(* right after it, the last step's too.  (A freeze may set the clock back  *)
(* later.)                                                                 *)
PassIsWithinTimeout ==
  phase = "over" /\ mode = "record" /\ setup.det /\ status = "pass" /\ Program # <<>>
    => ~Spent(world)

(* A pass is earned: every step was run, and in time.                      *)
PassIsEarned == PassRunsEverything /\ PassIsWithinTimeout

HasBlocks == \E i \in DOMAIN Program : Program[i].op = "throws"

(* Outside assert_throws, the log is the history of the network: a message *)
(* that was sent is queued until it is picked, is picked once, and is then *)
(* in the inbox of its destination only if the log does not say dropped.   *)
LogTellsNetwork ==
  LET Ids(seq)   == {seq[i].id : i \in DOMAIN seq}
      Picks      == {i \in DOMAIN log : log[i].kind = "deliver"}
      Dropped    == {log[i].id : i \in {j \in DOMAIN log :
                        log[j].kind = "drop" /\ log[j].dropped}}
  IN ~HasBlocks =>
       /\ Ids(world.queue) \cap {log[i].id : i \in Picks} = {}
       /\ Ids(world.queue) \cup {log[i].id : i \in Picks} = 1..(world.next_id - 1)
       /\ \A i, j \in Picks : log[i].id = log[j].id => i = j
       /\ \A n \in Nodes : Ids(world.inbox[n]) \cap (Dropped \cup Ids(world.queue)) = {}

-----------------------------------------------------------------------------
(* What a replay promises, and where it holds.                             *)

Outcome(s, f, w) == [status |-> s, findings |-> f, world |-> [w EXCEPT !.rng = 0, !.rules = <<>>]]

(* A replay ends as its recording did: with the same status and findings,  *)
(* the same key-value store, clock and network.                            *)
ReplayReproduces ==
  mode = "replay" /\ phase = "over" =>
    Outcome(status, findings, world)
      = Outcome(recorded.status, recorded.findings, recorded.world)

(* A replay gives the verdict its recording gave. *)
ReplayKeepsVerdict ==
  mode = "replay" /\ phase = "over" => status = recorded.status

Ops == {Program[i].op : i \in DOMAIN Program}
DeliverMayDraw == {"reorder", "rate"} \cap Ops # {} \/ \E i \in DOMAIN Program :
                    Program[i].op = "deliver" /\ Program[i].random = TRUE

(* The recordings whose replay can be relied on.                           *)
Replayable ==
  /\ ~HasBlocks                    \* a block wipes the log
  /\ setup.det \/ Ops \cap {"sleep", "advance"} = {}   \* not logged, or refused
  /\ ~(DeliverMayDraw /\ "rand" \in Ops)   \* a replayed pick draws nothing
  /\ ~setup.until
  /\ recorded.findings \cap Unlogged = {}

(* A recording outside the exceptions is reproduced exactly, failures and  *)
(* timeouts of host processes included, without running a host process.    *)
ReplayableReproduces == mode = "replay" /\ Replayable => ReplayReproduces

(* assert_eventually_kv or assert_never_kv waits for a virtual time that   *)
(* never comes: its value is not there, its deadline lies ahead, and       *)
(* sleep_poll moves no clock, because the run is not deterministic or the  *)
(* step's poll is 0, which validate_steps accepts.                         *)
PollsForEver ==
  /\ phase = "polling" /\ (~Det \/ CurrentStep.poll = 0)
  /\ Lookup(world, CurrentStep.key) # CurrentStep.value
  /\ world.clock < deadline

(* Such a poll is the only thing that keeps a scenario from its end, or    *)
(* its replay, however it fails, blocks or runs out of time.               *)
RunEnds == <>(PollsForEver \/ (mode = "replay" /\ phase = "over"))

=============================================================================
