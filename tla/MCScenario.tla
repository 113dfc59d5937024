---------------------------- MODULE MCScenario ----------------------------
(* TLC instances of Scenario: menus of steps, each for one aspect. *)
EXTENDS Scenario

MCStreams == {<<0, 2, 1>>, <<1, 0, 2>>}

Rand(k)       == [op |-> "rand", key |-> k]
SleepFor(ms)  == [op |-> "sleep", ms |-> ms]
AdvanceBy(ms) == [op |-> "advance", ms |-> ms]
FreezeAt(at)  == [op |-> "freeze", at |-> at]
Thaw          == [op |-> "unfreeze"]
Set(k, v)     == [op |-> "set", key |-> k, value |-> v]
Get(k, v)     == [op |-> "get", key |-> k, equals |-> v, is_null |-> FALSE]
GetNull(k)    == [op |-> "get", key |-> k, equals |-> None, is_null |-> TRUE]
When(c, e, t) == [op |-> "when", cmd |-> c, exit |-> e, times |-> t]
Spawn(c, e)   == [op |-> "spawn", cmd |-> c, expect |-> e, save |-> "k"]
Send(f, t)    == [op |-> "send", from |-> f, to |-> t, payload |-> f]
Deliver(r)    == [op |-> "deliver", random |-> r]
Recv(n, p)    == [op |-> "recv", node |-> n, from |-> None, payload |-> p]
Cut(a, b)     == [op |-> "partition", pair |-> {a, b}]
Heal(a, b)    == [op |-> "heal", pair |-> {a, b}]
Rate(r)       == [op |-> "rate", rate |-> r]
Reorder       == [op |-> "reorder", on |-> TRUE]
Throws(steps) == [op |-> "throws", steps |-> steps]
Poll(op, k, v, within, poll) ==
  [op |-> op, key |-> k, value |-> v, within |-> within, poll |-> poll]
Failing       == [op |-> "fail"]

(* Time, random values and assertions, under every option. *)
TimeSteps ==
  {Rand("k"), SleepFor(1), AdvanceBy(2), FreezeAt(0), FreezeAt(None), Thaw,
   Set("k", 1), Get("k", 1), Get("k", None), GetNull("k"), Failing,
   Poll("eventually", "k", 1, 2, 1), Poll("never", "k", 1, 2, 1),
   Poll("eventually", "k", 1, 2, 0), Poll("never", "k", 1, 0, 0)}
TimeMenu ==
  [steps |-> TimeSteps, max |-> 3, dets |-> BOOLEAN, timeouts |-> {None, 2},
   backends |-> {"scripted"}, untils |-> {FALSE}, streams |-> {<<1, 0, 2>>}]
UntilMenu == [TimeMenu EXCEPT !.max = 2, !.untils = {TRUE}, !.timeouts = @ \cup {0}]

(* Processes of both backends. *)
ProcSteps ==
  {When("a", 0, None), When("a", 0, 1), When("a", 1, None), Spawn("a", None), Spawn("a", 0),
   Spawn("b", None), Get("k", 0), AdvanceBy(2)}

MCHostResults ==
  {[result |-> "completed", exit |-> 0, ms |-> 2], [result |-> "completed", exit |-> 1, ms |-> 1],
   [result |-> "timed_out", ms |-> 3], [result |-> "refused"]}

ProcMenu ==
  [steps |-> ProcSteps, max |-> 3, dets |-> {TRUE}, timeouts |-> {None, 6},
   backends |-> {"scripted", "host"}, untils |-> {FALSE}, streams |-> {<<1, 0, 2>>}]

(* The network. *)
NetSteps ==
  {Send("x", "y"), Send("y", "x"), Deliver(None), Deliver(TRUE), Recv("y", "x"),
   Cut("x", "y"), Heal("x", "y"), Rate(1), Rate(3), Reorder, Rand("k")}

NetMenu ==
  [steps |-> NetSteps, max |-> 4, dets |-> {TRUE}, timeouts |-> {None},
   backends |-> {"scripted"}, untils |-> {FALSE}, streams |-> MCStreams]

(* Blocks that are expected to fail. *)
BlockSteps ==
  {Throws(<<Rand("k"), Failing>>), Throws(<<Set("k", 1), Rand("k")>>),
   Throws(<<Poll("never", "k", 1, 1, 1), Get("k", 1)>>),
   Throws(<<Poll("eventually", "k", 1, 1, 0)>>), Rand("j"), Get("k", 1), Set("k", 1)}
BlockMenu ==
  [steps |-> BlockSteps, max |-> 3, dets |-> {TRUE}, timeouts |-> {None},
   backends |-> {"scripted"}, untils |-> {FALSE}, streams |-> MCStreams]

MCMenus == {TimeMenu, UntilMenu, ProcMenu, NetMenu, BlockMenu}
MCNetMenu == {NetMenu}

=============================================================================
