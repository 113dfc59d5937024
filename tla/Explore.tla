------------------------------ MODULE Explore ------------------------------
(***************************************************************************)
(* run_explore_inner (src/src/modes/explore/exec.rs): the simulated        *)
(* distributed store.  The whole script runs first, and only then are the  *)
(* messages it left in the queue delivered, one at a time, in the order    *)
(* the scheduling strategy picks, until none can be delivered, the step    *)
(* budget or the time is used up, or an invariant fails.                   *)
(*                                                                         *)
(* The code's queue only grows at its end and its ids only increase, so    *)
(* position in the queue is the order of ids: the queue here is the set of *)
(* its messages.                                                           *)
(***************************************************************************)
EXTENDS Naturals, FiniteSets, Sequences

CONSTANTS
  NumNodes,     \* the nodes are 1..NumNodes, in the order of their names
  Unknown,      \* names a script uses that --nodes took out of the node list
  Keys, Values,
  Null,         \* a key without a value
  MaxScript,    \* bound on the steps of a script
  MaxPuts,      \* bound on the client_put steps among them
  Strategies,   \* subset of the ScheduleStrategy names
  Checks,       \* sets of invariants a scenario may have
  Budgets,      \* values of --steps
  None          \* no --steps

ASSUME NodesAssumption == NumNodes \in Nat \ {0}
ASSUME BoundsAssumption == MaxScript \in Nat /\ MaxPuts \in Nat
ASSUME StrategyAssumption ==
  Strategies \subseteq {"fifo", "bfs", "dfs", "random", "pct", "coverage_guided"}
ASSUME BudgetAssumption == Budgets \subseteq Nat /\ None \notin Nat
ASSUME NullAssumption == Null \notin Values
ASSUME UnknownAssumption == Unknown \cap (1..NumNodes) = {}

Nodes == 1..NumNodes

VARIABLES
  phase,       \* "script", "deliver", "done", or "error" (the script failed)
  steps,       \* script steps applied
  running,     \* node -> BOOLEAN
  partitions,  \* the blocked pairs of nodes
  kv, ver,     \* node -> key -> value, version
  queue,       \* the messages in flight
  next_id,
  puts,        \* history: the writes that took effect
  schedule, budget, timed,    \* the options; timed: --time is given
  checks,      \* the scenario's invariants
  seen,        \* edges the coverage-guided strategy has picked
  decisions,   \* the ids delivered, in order
  status       \* "none" until the run is done, then the ExitStatus

store   == <<kv, ver>>
cluster == <<running, partitions>>
setup   == <<schedule, budget, timed, checks>>
vars == <<phase, steps, cluster, store, queue, next_id, puts, setup, seen,
          decisions, status>>

Pair(a, b) == {a, b}

Init ==
  /\ phase = "script" /\ steps = 0
  /\ running = [n \in Nodes |-> TRUE]
  /\ partitions = {}
  /\ kv = [n \in Nodes |-> [k \in Keys |-> Null]]
  /\ ver = [n \in Nodes |-> [k \in Keys |-> 0]]
  /\ queue = {} /\ next_id = 1 /\ puts = {}
  /\ schedule \in Strategies
  /\ budget \in Budgets \cup {None}
  /\ timed \in BOOLEAN
  /\ checks \in Checks
  /\ seen = {} /\ decisions = <<>> /\ status = "none"

-----------------------------------------------------------------------------
(* apply_script_step *)

Scripting == phase = "script" /\ steps < MaxScript

\* mutants: one id for all of them; only the nodes after the writer
ReplicationsSameId(n, k, v, version) ==
  {[id |-> next_id, from |-> n, to |-> to, key |-> k, value |-> v, version |-> version] :
     to \in Nodes \ {n}}
ReplicationsAfter(n, k, v, version) ==
  {[id |-> next_id + Cardinality({p \in Nodes \ {n} : p < to}),
    from |-> n, to |-> to, key |-> k, value |-> v, version |-> version] :
     to \in {p \in Nodes : p > n}}

(* One message to every other node, in the order of their names. *)
Replications(n, k, v, version) ==
  {[id |-> next_id + Cardinality({p \in Nodes \ {n} : p < to}),
    from |-> n, to |-> to, key |-> k, value |-> v, version |-> version] :
     to \in Nodes \ {n}}

ClientPut(n, k, v) ==
  LET version == ver[n][k] + 1
  IN  /\ Scripting /\ Cardinality(puts) < MaxPuts
      /\ steps' = steps + 1
      /\ IF running[n]
         THEN /\ kv' = [kv EXCEPT ![n][k] = v]
              /\ ver' = [ver EXCEPT ![n][k] = version]
              /\ queue' = queue \cup Replications(n, k, v, version)
              /\ next_id' = next_id + (NumNodes - 1)
              /\ puts' = puts \cup {[node |-> n, key |-> k, value |-> v,
                                     version |-> version]}
         ELSE UNCHANGED <<store, queue, next_id, puts>>
      /\ UNCHANGED <<phase, cluster, setup, seen, decisions, status>>

(* The three forms of the step: is_null, equals, and neither ("exists"). *)
GetHolds(n, k, want) ==
  IF want = "exists" THEN kv[n][k] # Null ELSE kv[n][k] = want

ClientGetAssert(n, k, want) ==
  /\ Scripting
  /\ steps' = steps + 1
  /\ phase' = IF running[n] /\ ~GetHolds(n, k, want) THEN "error" ELSE phase
  /\ UNCHANGED <<cluster, store, queue, next_id, puts, setup, seen, decisions, status>>

(* client_put or client_get_assert on a node that does not exist. *)
UnknownNode ==
  /\ Scripting /\ Unknown # {}
  /\ steps' = steps + 1
  /\ phase' = "error"
  /\ UNCHANGED <<cluster, store, queue, next_id, puts, setup, seen, decisions, status>>

Partition(a, b) ==
  /\ Scripting
  /\ steps' = steps + 1
  /\ partitions' = partitions \cup {Pair(a, b)}
  /\ UNCHANGED <<phase, running, store, queue, next_id, puts, setup, seen, decisions, status>>

Heal(a, b) ==
  /\ Scripting
  /\ steps' = steps + 1
  /\ partitions' = partitions \ {Pair(a, b)}
  /\ UNCHANGED <<phase, running, store, queue, next_id, puts, setup, seen, decisions, status>>

(* crash and restart; neither touches the store of the node, and both      *)
(* ignore a node that does not exist.                                      *)
SetRunning(n, up) ==
  /\ Scripting
  /\ steps' = steps + 1
  /\ running' = [running EXCEPT ![n] = up]
  /\ UNCHANGED <<phase, partitions, store, queue, next_id, puts, setup, seen, decisions, status>>

EndScript ==
  /\ phase = "script"
  /\ phase' = "deliver"
  /\ UNCHANGED <<steps, cluster, store, queue, next_id, puts, setup, seen, decisions, status>>

-----------------------------------------------------------------------------
(* deliverable_indices, over any queue *)
CanReach(m) == running[m.from] /\ running[m.to] /\ Pair(m.from, m.to) \notin partitions
Deliverable(q) == {m \in q : CanReach(m)}

Earliest(ms) == {m \in ms : \A o \in ms : m.id <= o.id}
Latest(ms)   == {m \in ms : \A o \in ms : m.id >= o.id}
Edge(m)      == <<m.from, m.to, m.key>>

(* pick_index: the messages the strategy may pick among ms.  A pick by the *)
(* seeded generator may be any of them.                                    *)
Picks(ms, edges) ==
  CASE schedule \in {"fifo", "bfs"} -> Earliest(ms)
    [] schedule = "dfs" -> Latest(ms)
    [] schedule \in {"random", "pct"} -> ms
    [] schedule = "coverage_guided" ->
         LET unseen == {m \in ms : Edge(m) \notin edges}
         IN  IF unseen = {} THEN ms ELSE Earliest(unseen)

\* mutant: no look at the version
AppliesAlways(m, ver_) == running[m.to]
KvAfterAlways(m, kv_, ver_) == [kv_ EXCEPT ![m.to][m.key] = m.value]

(* deliver_message: last writer wins among equal versions. *)
Applies(m, ver_) == running[m.to] /\ m.version >= ver_[m.to][m.key]
KvAfter(m, kv_, ver_) ==
  IF Applies(m, ver_) THEN [kv_ EXCEPT ![m.to][m.key] = m.value] ELSE kv_
VerAfter(m, ver_) ==
  IF Applies(m, ver_) THEN [ver_ EXCEPT ![m.to][m.key] = m.version] ELSE ver_

-----------------------------------------------------------------------------
(* check_invariants *)

Live == {n \in Nodes : running[n]}

(* The loop keeps the first value it meets, but a node without the key     *)
(* leaves the expectation open: only nodes after that value are compared.  *)
AllEqual(k, kv_) ==
  \A n \in Live :
    (\A m \in Live : m < n => kv_[m][k] = Null)
      => \A m \in Live : n < m /\ kv_[n][k] # Null => kv_[m][k] = kv_[n][k]

CheckHolds(c, kv_, final) ==
  CASE c.type = "kv_all_equal" -> final => AllEqual(c.key, kv_)
    [] c.type = "kv_present_on_all" -> \A n \in Live : kv_[n][c.key] # Null
    [] c.type = "kv_node_equals" ->
         c.node \in Nodes /\ (running[c.node] => kv_[c.node][c.key] = c.value)

ChecksHold(kv_, final) == \A c \in checks : CheckHolds(c, kv_, final)

-----------------------------------------------------------------------------
Delivered == Len(decisions)
BudgetLeft == budget # None => Delivered < budget

Finish(result) == phase' = "done" /\ status' = result

(* One turn of the delivery loop. *)
Deliver(m) ==
  /\ phase = "deliver" /\ BudgetLeft
  /\ m \in Picks(Deliverable(queue), seen)
  /\ queue' = queue \ {m}
  /\ seen' = IF schedule = "coverage_guided" THEN seen \cup {Edge(m)} ELSE seen
  /\ decisions' = Append(decisions, m.id)
  /\ kv' = KvAfter(m, kv, ver)
  /\ ver' = VerAfter(m, ver)
  /\ IF ChecksHold(kv', FALSE) THEN UNCHANGED <<phase, status>> ELSE Finish("fail")
  /\ UNCHANGED <<steps, cluster, next_id, puts, setup>>

QueueEmpty == queue = {}   \* mutant: what cannot be delivered is waited for
NothingLeft == Deliverable(queue) = {}

(* The loop ends: nothing to deliver, or the budget is used up. *)
EndDelivery ==
  /\ phase = "deliver"
  /\ ~BudgetLeft \/ NothingLeft
  /\ Finish(IF ChecksHold(kv, TRUE) THEN "pass" ELSE "fail")
  /\ UNCHANGED <<steps, cluster, store, queue, next_id, puts, setup, seen, decisions>>

(* The deadline is found to have passed at the head of the loop. *)
Expire ==
  /\ phase = "deliver" /\ BudgetLeft /\ timed
  /\ Finish("timeout")
  /\ UNCHANGED <<steps, cluster, store, queue, next_id, puts, setup, seen, decisions>>

ScriptStep ==
  \/ \E n \in Nodes, k \in Keys :
       \/ \E v \in Values : ClientPut(n, k, v)
       \/ \E want \in Values \cup {Null, "exists"} : ClientGetAssert(n, k, want)
  \/ \E a, b \in Nodes : a < b /\ (Partition(a, b) \/ Heal(a, b))
  \/ \E n \in Nodes, up \in BOOLEAN : SetRunning(n, up)
  \/ UnknownNode
  \/ EndScript

LoopStep == (\E m \in queue : Deliver(m)) \/ EndDelivery \/ Expire

Next == ScriptStep \/ LoopStep

Spec == Init /\ [][Next]_vars

-----------------------------------------------------------------------------
Messages == [id : Nat, from : Nodes, to : Nodes, key : Keys, value : Values, version : Nat]
Writes   == [node : Nodes, key : Keys, value : Values, version : Nat]

(* The values of the state. *)
TypeOK ==
  /\ phase \in {"script", "deliver", "done", "error"}
  /\ steps \in Nat
  /\ running \in [Nodes -> BOOLEAN]
  /\ partitions \subseteq SUBSET Nodes
  /\ kv \in [Nodes -> [Keys -> Values \cup {Null}]]
  /\ ver \in [Nodes -> [Keys -> Nat]]
  /\ queue \subseteq Messages
  /\ next_id \in Nat
  /\ puts \subseteq Writes
  /\ schedule \in Strategies
  /\ budget \in Budgets \cup {None}
  /\ timed \in BOOLEAN
  /\ checks \in Checks
  /\ seen \subseteq Nodes \X Nodes \X Keys
  /\ decisions \in Seq(Nat)
  /\ status \in {"none", "pass", "fail", "timeout"}

(* Messages are neither lost nor duplicated: every id handed out is in the *)
(* queue or among the decisions, once.                                     *)
MessagesConserved ==
  LET queued == {m.id : m \in queue}
      taken  == {decisions[i] : i \in DOMAIN decisions}
  IN  /\ queued \cup taken = 1..(next_id - 1)
      /\ queued \cap taken = {}
      /\ Cardinality(queued) = Cardinality(queue)
      /\ Cardinality(taken) = Len(decisions)

(* The store refines Replicas: whatever the schedule, the faults and the   *)
(* point where the run stops, a node holds only what a client wrote, with  *)
(* that write's version, and its versions never go back.                   *)
Abstract == INSTANCE Replicas
StoreFollowsWrites == Abstract!Spec

(* What ties the messages to the writes: a message in flight carries a     *)
(* write that took effect.                                                 *)
QueueCarriesWrites ==
  \A m \in queue :
    [node |-> m.from, key |-> m.key, value |-> m.value, version |-> m.version] \in puts

(* A key has a value exactly where it has a version (the two maps of Node  *)
(* are written together), and that value is some write of that version.    *)
ValueMatchesVersion ==
  \A n \in Nodes, k \in Keys :
    /\ ver[n][k] = 0 <=> kv[n][k] = Null
    /\ ver[n][k] > 0 =>
         \E p \in puts : p.key = k /\ p.version = ver[n][k] /\ p.value = kv[n][k]

Drained == phase = "done" /\ Deliverable(queue) = {} /\ status # "timeout"

Linked(n, m) == running[n] /\ running[m] /\ Pair(n, m) \notin partitions

(* When every node is up, no pair is blocked and nothing is left to        *)
(* deliver, all nodes agree on the version of every key, whatever order    *)
(* the strategy chose; they agree on the value too unless two clients      *)
(* wrote the winning version on different nodes (deliver_message lets the  *)
(* last of those to arrive win, so replicas may differ for ever).          *)
ConvergesUpToTies ==
  Drained /\ (\A n, m \in Nodes : n # m => Linked(n, m)) =>
    \A k \in Keys, n, m \in Nodes :
      /\ ver[n][k] = ver[m][k]
      /\ Cardinality({p \in puts : p.key = k /\ p.version = ver[n][k]}) <= 1
           => kv[n][k] = kv[m][k]

(* A key written on one node only is up to date, at the end, on every node *)
(* that node can reach, whatever else is down or blocked.                  *)
SingleWriterConverges ==
  Drained =>
    \A k \in Keys, w \in Nodes :
      (\A p \in puts : p.key = k => p.node = w) =>
        \A n \in Nodes : n # w /\ Linked(w, n)
          => kv[n][k] = kv[w][k] /\ ver[n][k] = ver[w][k]

(* Replicas converge: those of a healthy cluster, and those a lone writer   *)
(* can reach.                                                              *)
Converges == ConvergesUpToTies /\ SingleWriterConverges

=============================================================================
