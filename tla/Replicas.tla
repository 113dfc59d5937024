------------------------------ MODULE Replicas ------------------------------
(***************************************************************************)
(* What the simulated key-value store of `fozzy explore` promises, without *)
(* messages, partitions or schedules: a write takes the next version its   *)
(* node knows of, and a node only ever adopts a value some client wrote,   *)
(* with that value's version, and never one older than what it has.        *)
(***************************************************************************)
EXTENDS Naturals

CONSTANTS Nodes, Keys, Values, Null

VARIABLES kv, ver, puts

vars == <<kv, ver, puts>>

Init ==
  /\ kv = [n \in Nodes |-> [k \in Keys |-> Null]]
  /\ ver = [n \in Nodes |-> [k \in Keys |-> 0]]
  /\ puts = {}

Write(n, k, v) ==
  /\ kv' = [kv EXCEPT ![n][k] = v]
  /\ ver' = [ver EXCEPT ![n][k] = @ + 1]
  /\ puts' = puts \cup {[node |-> n, key |-> k, value |-> v, version |-> ver[n][k] + 1]}

Adopt(n, p) ==
  /\ p \in puts /\ p.version >= ver[n][p.key]
  /\ kv' = [kv EXCEPT ![n][p.key] = p.value]
  /\ ver' = [ver EXCEPT ![n][p.key] = p.version]
  /\ UNCHANGED puts

Next ==
  \E n \in Nodes :
    \/ \E k \in Keys, v \in Values : Write(n, k, v)
    \/ \E p \in puts : Adopt(n, p)

Spec == Init /\ [][Next]_vars

=============================================================================
