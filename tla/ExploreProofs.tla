--------------------------- MODULE ExploreProofs ---------------------------
(***************************************************************************)
(* Proofs about Explore and ExploreReplay, for any number of nodes, keys,  *)
(* values and script steps, every strategy, budget and set of checks:      *)
(* types, the link between versions, values and writes, the refinement of  *)
(* Replicas, conservation of messages, convergence, and the replay of a    *)
(* recorded run.                                                           *)
(***************************************************************************)
EXTENDS ExploreReplay, FiniteSetTheorems, FunctionTheorems, TLAPS

USE NodesAssumption, BoundsAssumption

WriteOf(m) == [node |-> m.from, key |-> m.key, value |-> m.value, version |-> m.version]

PutsArePositive == \A p \in puts : p.version > 0

IInv == TypeOK /\ QueueCarriesWrites /\ ValueMatchesVersion /\ PutsArePositive

-----------------------------------------------------------------------------
(* The messages of one put are messages, and each carries that put. *)
LEMMA ReplicationsAreMessages ==
  ASSUME NEW n \in Nodes, NEW k \in Keys, NEW v \in Values, NEW version \in Nat,
         next_id \in Nat
  PROVE  /\ Replications(n, k, v, version) \subseteq Messages
         /\ \A m \in Replications(n, k, v, version) :
              WriteOf(m) = [node |-> n, key |-> k, value |-> v, version |-> version]
<1>1. ASSUME NEW to \in Nodes
      PROVE  Cardinality({p \in Nodes \ {n} : p < to}) \in Nat
  <2>1. IsFiniteSet(Nodes)
    BY FS_Interval DEF Nodes
  <2>2. IsFiniteSet({p \in Nodes \ {n} : p < to})
    BY <2>1, FS_Subset
  <2>3. QED BY <2>2, FS_CardinalityType
<1>2. SUFFICES ASSUME NEW m \in Replications(n, k, v, version)
               PROVE  m \in Messages
                      /\ WriteOf(m) = [node |-> n, key |-> k, value |-> v, version |-> version]
  OBVIOUS
<1>3. PICK to \in Nodes \ {n} :
        m = [id |-> next_id + Cardinality({p \in Nodes \ {n} : p < to}),
             from |-> n, to |-> to, key |-> k, value |-> v, version |-> version]
  BY DEF Replications
<1>4. next_id + Cardinality({p \in Nodes \ {n} : p < to}) \in Nat
  BY <1>1
<1>5. QED BY <1>3, <1>4 DEF Messages, WriteOf

(* A delivery keeps the types of the store. *)
LEMMA DeliveryTypes ==
  ASSUME TypeOK, NEW m \in queue
  PROVE  /\ KvAfter(m, kv, ver) \in [Nodes -> [Keys -> Values \cup {Null}]]
         /\ VerAfter(m, ver) \in [Nodes -> [Keys -> Nat]]
<1>1. m \in Messages
  BY DEF TypeOK
<1>2. QED BY <1>1 DEF TypeOK, Messages, KvAfter, VerAfter

LEMMA InitIInv == Init => IInv
BY DEF Init, IInv, TypeOK, QueueCarriesWrites, ValueMatchesVersion, PutsArePositive

-----------------------------------------------------------------------------
(* A put: the new version is above every one the node knew of. *)
LEMMA PutIInv ==
  ASSUME IInv, NEW n \in Nodes, NEW k \in Keys, NEW v \in Values, ClientPut(n, k, v)
  PROVE  IInv'
<1> DEFINE version == ver[n][k] + 1
           write   == [node |-> n, key |-> k, value |-> v, version |-> version]
<1>0. /\ ver \in [Nodes -> [Keys -> Nat]]
      /\ kv \in [Nodes -> [Keys -> Values \cup {Null}]]
      /\ next_id \in Nat /\ version \in Nat
  BY DEF IInv, TypeOK
<1>1. UNCHANGED <<phase, cluster, setup, seen, decisions, status>> /\ steps' = steps + 1
  BY DEF ClientPut
<1>2. CASE ~running[n]
  <2>1. UNCHANGED <<store, queue, next_id, puts>>
    BY <1>2 DEF ClientPut
  <2>2. QED
    BY <1>1, <2>1 DEF IInv, TypeOK, QueueCarriesWrites, ValueMatchesVersion,
                      PutsArePositive, cluster, setup, store
<1>3. CASE running[n]
  <2>1. /\ kv' = [kv EXCEPT ![n][k] = v]
        /\ ver' = [ver EXCEPT ![n][k] = version]
        /\ queue' = queue \cup Replications(n, k, v, version)
        /\ next_id' = next_id + (NumNodes - 1)
        /\ puts' = puts \cup {write}
    BY <1>3 DEF ClientPut
  <2>2. /\ Replications(n, k, v, version) \subseteq Messages
        /\ \A m \in Replications(n, k, v, version) : WriteOf(m) = write
    BY <1>0, ReplicationsAreMessages
  <2> HIDE DEF version
  <2>3. write \in Writes
    BY <1>0 DEF Writes
  <2>4. TypeOK'
    <3>1. /\ kv' \in [Nodes -> [Keys -> Values \cup {Null}]]
          /\ ver' \in [Nodes -> [Keys -> Nat]]
      BY <1>0, <2>1
    <3>2. queue' \subseteq Messages /\ puts' \subseteq Writes
      BY <2>1, <2>2, <2>3 DEF IInv, TypeOK
    <3>3. next_id' \in Nat /\ steps' \in Nat
      BY <1>0, <1>1, <2>1 DEF IInv, TypeOK
    <3>4. QED BY <1>1, <3>1, <3>2, <3>3 DEF IInv, TypeOK, cluster, setup
  <2>5. QueueCarriesWrites'
    BY <2>1, <2>2 DEF IInv, QueueCarriesWrites, WriteOf
  <2>6. ValueMatchesVersion'
    <3> SUFFICES ASSUME NEW a \in Nodes, NEW b \in Keys
                 PROVE  /\ ver'[a][b] = 0 <=> kv'[a][b] = Null
                        /\ ver'[a][b] > 0 =>
                             \E p \in puts' : p.key = b /\ p.version = ver'[a][b]
                                              /\ p.value = kv'[a][b]
      BY DEF ValueMatchesVersion
    <3>1. CASE a = n /\ b = k
      <4>1. ver'[a][b] = version /\ kv'[a][b] = v
        BY <1>0, <2>1, <3>1
      <4>2. write \in puts' /\ write.key = b /\ write.version = version /\ write.value = v
        BY <2>1, <3>1
      <4>3. version > 0 /\ v # Null
        BY <1>0, NullAssumption DEF version
      <4>4. QED BY <4>1, <4>2, <4>3
    <3>2. CASE ~(a = n /\ b = k)
      <4>1. ver'[a][b] = ver[a][b] /\ kv'[a][b] = kv[a][b]
        BY <1>0, <2>1, <3>2
      <4>2. QED BY <4>1, <2>1 DEF IInv, ValueMatchesVersion
    <3>3. QED BY <3>1, <3>2
  <2>7. PutsArePositive'
    <3>1. version > 0
      BY <1>0 DEF version
    <3>2. QED BY <2>1, <3>1 DEF IInv, PutsArePositive
  <2>8. QED BY <2>4, <2>5, <2>6, <2>7 DEF IInv
<1>4. QED BY <1>2, <1>3

(* A delivery adopts a write that is already among the puts. *)
LEMMA DeliverIInv ==
  ASSUME IInv, NEW m \in queue, Deliver(m)
  PROVE  IInv'
<1>0. m \in Messages /\ WriteOf(m) \in puts
  BY DEF IInv, TypeOK, QueueCarriesWrites, WriteOf
<1>1. /\ kv' = KvAfter(m, kv, ver) /\ ver' = VerAfter(m, ver)
      /\ queue' = queue \ {m}
      /\ decisions' = Append(decisions, m.id)
      /\ seen' = IF schedule = "coverage_guided" THEN seen \cup {Edge(m)} ELSE seen
      /\ UNCHANGED <<steps, cluster, next_id, puts, setup>>
  BY DEF Deliver
<1>2. TypeOK'
  <2>1. /\ kv' \in [Nodes -> [Keys -> Values \cup {Null}]]
        /\ ver' \in [Nodes -> [Keys -> Nat]]
    BY <1>1, DeliveryTypes DEF IInv
  <2>2. decisions' \in Seq(Nat)
    BY <1>0, <1>1 DEF IInv, TypeOK, Messages
  <2>3. seen' \subseteq Nodes \X Nodes \X Keys
    BY <1>0, <1>1 DEF IInv, TypeOK, Messages, Edge
  <2>4. phase' \in {"script", "deliver", "done", "error"}
        /\ status' \in {"none", "pass", "fail", "timeout"}
    BY DEF Deliver, Finish, IInv, TypeOK
  <2>5. queue' \subseteq Messages
    BY <1>1 DEF IInv, TypeOK
  <2>6. QED BY <1>1, <2>1, <2>2, <2>3, <2>4, <2>5 DEF IInv, TypeOK, cluster, setup
<1>3. QueueCarriesWrites'
  BY <1>1 DEF IInv, QueueCarriesWrites
<1>4. ValueMatchesVersion'
  <2>1. CASE ~Applies(m, ver)
    BY <1>1, <2>1 DEF KvAfter, VerAfter, IInv, ValueMatchesVersion
  <2>2. CASE Applies(m, ver)
    <3>0. /\ ver \in [Nodes -> [Keys -> Nat]]
          /\ kv \in [Nodes -> [Keys -> Values \cup {Null}]]
          /\ m.to \in Nodes /\ m.key \in Keys /\ m.value \in Values /\ m.version \in Nat
      BY <1>0 DEF IInv, TypeOK, Messages
    <3>1. /\ kv' = [kv EXCEPT ![m.to][m.key] = m.value]
          /\ ver' = [ver EXCEPT ![m.to][m.key] = m.version]
          /\ puts' = puts
      BY <1>1, <2>2 DEF KvAfter, VerAfter
    <3>2. m.version > 0
      BY <1>0 DEF IInv, PutsArePositive, WriteOf
    <3> SUFFICES ASSUME NEW a \in Nodes, NEW b \in Keys
                 PROVE  /\ ver'[a][b] = 0 <=> kv'[a][b] = Null
                        /\ ver'[a][b] > 0 =>
                             \E p \in puts' : p.key = b /\ p.version = ver'[a][b]
                                              /\ p.value = kv'[a][b]
      BY DEF ValueMatchesVersion
    <3>3. CASE a = m.to /\ b = m.key
      <4>1. ver'[a][b] = m.version /\ kv'[a][b] = m.value
        BY <3>0, <3>1, <3>3
      <4>2. WriteOf(m) \in puts' /\ WriteOf(m).key = b
            /\ WriteOf(m).version = m.version /\ WriteOf(m).value = m.value
        BY <1>0, <3>1, <3>3 DEF WriteOf
      <4>3. m.value # Null
        BY <3>0, NullAssumption
      <4>4. QED BY <3>0, <3>2, <4>1, <4>2, <4>3
    <3>4. CASE ~(a = m.to /\ b = m.key)
      <4>1. ver'[a][b] = ver[a][b] /\ kv'[a][b] = kv[a][b]
        BY <3>0, <3>1, <3>4
      <4>2. QED BY <4>1, <3>1 DEF IInv, ValueMatchesVersion
    <3>5. QED BY <3>3, <3>4
  <2>3. QED BY <2>1, <2>2
<1>5. PutsArePositive'
  BY <1>1 DEF IInv, PutsArePositive
<1>6. QED BY <1>2, <1>3, <1>4, <1>5 DEF IInv

(* The other steps leave the store, the messages and the writes alone. *)
LEMMA OtherStepsIInv ==
  ASSUME IInv,
         \/ \E n \in Nodes, k \in Keys, want \in Values \cup {Null, "exists"} :
              ClientGetAssert(n, k, want)
         \/ \E a, b \in Nodes : Partition(a, b) \/ Heal(a, b)
         \/ \E n \in Nodes, up \in BOOLEAN : SetRunning(n, up)
         \/ UnknownNode \/ EndScript \/ EndDelivery \/ Expire
         \/ UNCHANGED vars
  PROVE  IInv'
<1>1. UNCHANGED <<kv, ver, queue, next_id, puts, setup, seen, decisions>>
  BY DEF ClientGetAssert, Partition, Heal, SetRunning, UnknownNode, EndScript,
         EndDelivery, Expire, vars, store
<1>2. steps' \in Nat
  <2>1. steps' = steps \/ steps' = steps + 1
    BY DEF ClientGetAssert, Partition, Heal, SetRunning, UnknownNode, EndScript,
           EndDelivery, Expire, vars
  <2>2. QED BY <2>1 DEF IInv, TypeOK
<1>3. phase' \in {"script", "deliver", "done", "error"}
      /\ status' \in {"none", "pass", "fail", "timeout"}
  BY DEF ClientGetAssert, Partition, Heal, SetRunning, UnknownNode, EndScript,
         EndDelivery, Expire, Finish, vars, IInv, TypeOK
<1>4. running' \in [Nodes -> BOOLEAN] /\ partitions' \subseteq SUBSET Nodes
  <2>0. running \in [Nodes -> BOOLEAN] /\ partitions \subseteq SUBSET Nodes
    BY DEF IInv, TypeOK
  <2>1. ASSUME NEW a \in Nodes, NEW b \in Nodes, Partition(a, b) \/ Heal(a, b)
        PROVE  running' \in [Nodes -> BOOLEAN] /\ partitions' \subseteq SUBSET Nodes
    BY <2>0, <2>1 DEF Partition, Heal, Pair
  <2>2. ASSUME NEW n \in Nodes, NEW up \in BOOLEAN, SetRunning(n, up)
        PROVE  running' \in [Nodes -> BOOLEAN] /\ partitions' \subseteq SUBSET Nodes
    BY <2>0, <2>2 DEF SetRunning
  <2>3. ASSUME UNCHANGED cluster
        PROVE  running' \in [Nodes -> BOOLEAN] /\ partitions' \subseteq SUBSET Nodes
    BY <2>0, <2>3 DEF cluster
  <2>4. \/ UNCHANGED cluster
        \/ \E a, b \in Nodes : Partition(a, b) \/ Heal(a, b)
        \/ \E n \in Nodes, up \in BOOLEAN : SetRunning(n, up)
    BY DEF ClientGetAssert, UnknownNode, EndScript, EndDelivery, Expire, vars
  <2>5. QED BY <2>1, <2>2, <2>3, <2>4
<1>5. TypeOK'
  BY <1>1, <1>2, <1>3, <1>4 DEF IInv, TypeOK, setup
<1>6. QED
  BY <1>1, <1>5 DEF IInv, QueueCarriesWrites, ValueMatchesVersion, PutsArePositive

LEMMA NextIInv == IInv /\ [Next]_vars => IInv'
BY PutIInv, DeliverIInv, OtherStepsIInv DEF Next, ScriptStep, LoopStep

THEOREM InvariantHolds == Spec => []IInv
BY InitIInv, NextIInv, PTL DEF Spec

-----------------------------------------------------------------------------
(* run_explore_inner implements Replicas: a put is a Write, a delivery that *)
(* applies is an Adopt, everything else leaves the store alone.            *)
THEOREM ExploreRefinesReplicas == Spec => StoreFollowsWrites
<1>1. Init => Abstract!Init
  BY DEF Init, Abstract!Init
<1>2. IInv /\ [Next]_vars => [Abstract!Next]_(Abstract!vars)
  <2> SUFFICES ASSUME IInv, [Next]_vars PROVE Abstract!Next \/ UNCHANGED Abstract!vars
    OBVIOUS
  <2>0. /\ ver \in [Nodes -> [Keys -> Nat]]
        /\ queue \subseteq Messages
    BY DEF IInv, TypeOK
  <2>1. ASSUME NEW n \in Nodes, NEW k \in Keys, NEW v \in Values, ClientPut(n, k, v)
        PROVE  Abstract!Next \/ UNCHANGED Abstract!vars
    <3>1. CASE running[n]
      <4>1. /\ kv' = [kv EXCEPT ![n][k] = v]
            /\ ver' = [ver EXCEPT ![n][k] = ver[n][k] + 1]
            /\ puts' = puts \cup {[node |-> n, key |-> k, value |-> v,
                                   version |-> ver[n][k] + 1]}
        BY <2>1, <3>1 DEF ClientPut
      <4>2. Abstract!Write(n, k, v)
        BY <4>1, <2>0 DEF Abstract!Write
      <4>3. QED BY <4>2 DEF Abstract!Next
    <3>2. CASE ~running[n]
      BY <2>1, <3>2 DEF ClientPut, store, Abstract!vars
    <3>3. QED BY <3>1, <3>2
  <2>2. ASSUME NEW m \in queue, Deliver(m)
        PROVE  Abstract!Next \/ UNCHANGED Abstract!vars
    <3>0. kv' = KvAfter(m, kv, ver) /\ ver' = VerAfter(m, ver) /\ puts' = puts
      BY <2>2 DEF Deliver
    <3>1. CASE Applies(m, ver)
      <4>1. /\ WriteOf(m) \in puts
            /\ WriteOf(m).key = m.key /\ WriteOf(m).value = m.value
            /\ WriteOf(m).version = m.version /\ m.to \in Nodes
        BY <2>0 DEF IInv, QueueCarriesWrites, WriteOf, Messages
      <4>2. /\ kv' = [kv EXCEPT ![m.to][m.key] = m.value]
            /\ ver' = [ver EXCEPT ![m.to][m.key] = m.version]
            /\ m.version >= ver[m.to][m.key]
        BY <3>0, <3>1 DEF KvAfter, VerAfter, Applies
      <4>3. Abstract!Adopt(m.to, WriteOf(m))
        BY <3>0, <4>1, <4>2 DEF Abstract!Adopt
      <4>4. QED BY <4>1, <4>3 DEF Abstract!Next
    <3>2. CASE ~Applies(m, ver)
      BY <3>0, <3>2 DEF KvAfter, VerAfter, Abstract!vars
    <3>3. QED BY <3>1, <3>2
  <2>3. ASSUME \/ \E n \in Nodes, k \in Keys, want \in Values \cup {Null, "exists"} :
                    ClientGetAssert(n, k, want)
               \/ \E a, b \in Nodes : Partition(a, b) \/ Heal(a, b)
               \/ \E n \in Nodes, up \in BOOLEAN : SetRunning(n, up)
               \/ UnknownNode \/ EndScript \/ EndDelivery \/ Expire
               \/ UNCHANGED vars
        PROVE  UNCHANGED Abstract!vars
    BY <2>3 DEF ClientGetAssert, Partition, Heal, SetRunning, UnknownNode, EndScript,
                EndDelivery, Expire, vars, store, Abstract!vars
  <2>4. QED BY <2>1, <2>2, <2>3 DEF Next, ScriptStep, LoopStep
<1>3. QED
  BY <1>1, <1>2, InvariantHolds, PTL DEF Spec, StoreFollowsWrites, Abstract!Spec

(* The state of an exploration (run_explore_inner) has its types, whatever *)
(* the script, the schedule and the budget.                                *)
THEOREM ExploreTypeCorrect == Spec => []TypeOK
<1>1. IInv => TypeOK
  BY DEF IInv
<1>2. QED BY <1>1, InvariantHolds, PTL

(* No value out of thin air: client_put and deliver_message keep the two   *)
(* maps of a node in step, and what a node holds is a write with exactly   *)
(* the version recorded for it.                                            *)
THEOREM ValuesAreWrites == Spec => []ValueMatchesVersion
<1>1. IInv => ValueMatchesVersion
  BY DEF IInv
<1>2. QED BY <1>1, InvariantHolds, PTL

-----------------------------------------------------------------------------
(* The ids of the messages. *)

IdsAreFresh ==
  /\ next_id \in Nat \ {0}
  /\ \A m \in queue : m.id \in 1..(next_id - 1)
  /\ \A i \in DOMAIN decisions : decisions[i] \in 1..(next_id - 1)

IdsAreUnique ==
  /\ \A m, o \in queue : m.id = o.id => m = o
  /\ \A i, j \in DOMAIN decisions : decisions[i] = decisions[j] => i = j
  /\ \A m \in queue, i \in DOMAIN decisions : m.id # decisions[i]

NoIdIsLost ==
  \A x \in 1..(next_id - 1) :
    (\E m \in queue : m.id = x) \/ (\E i \in DOMAIN decisions : decisions[i] = x)

IdsInv == IdsAreFresh /\ IdsAreUnique /\ NoIdIsLost

(* How many nodes other than n come before node to. *)
LEMMA PlaceOfNode ==
  ASSUME NEW n \in Nodes, NEW to \in Nodes \ {n}
  PROVE  Cardinality({p \in Nodes \ {n} : p < to}) = IF to < n THEN to - 1 ELSE to - 2
<1>1. NumNodes \in Nat /\ n \in 1..NumNodes /\ to \in 1..NumNodes /\ to # n
  BY DEF Nodes
<1>2. {p \in Nodes \ {n} : p < to} = (1..(to - 1)) \ {n}
  BY <1>1 DEF Nodes
<1>3. /\ IsFiniteSet(1..(to - 1))
      /\ Cardinality(1..(to - 1)) = to - 1
  BY <1>1, FS_Interval
<1>4. Cardinality((1..(to - 1)) \ {n}) =
        IF n \in 1..(to - 1) THEN Cardinality(1..(to - 1)) - 1 ELSE Cardinality(1..(to - 1))
  BY <1>3, FS_RemoveElement
<1>5. CASE to < n
  <2>1. ~(n \in 1..(to - 1))
    BY <1>1, <1>5
  <2>2. Cardinality((1..(to - 1)) \ {n}) = to - 1
    BY <1>3, <1>4, <2>1
  <2>3. QED BY <1>2, <1>5, <2>2
<1>6. CASE ~(to < n)
  <2>1. n \in 1..(to - 1)
    BY <1>1, <1>6
  <2>2. Cardinality((1..(to - 1)) \ {n}) = to - 2
    BY <1>1, <1>3, <1>4, <2>1
  <2>3. QED BY <1>2, <1>6, <2>2
<1>7. QED BY <1>5, <1>6

(* One put numbers its messages next_id, next_id + 1, ... without a gap    *)
(* and without using a number twice.                                       *)
LEMMA ReplicationIds ==
  ASSUME NEW n \in Nodes, NEW k \in Keys, NEW v \in Values, NEW version \in Nat,
         next_id \in Nat \ {0}
  PROVE  LET ms == Replications(n, k, v, version)
             upper == next_id + (NumNodes - 1)
         IN  /\ \A m \in ms : m.id \in next_id..(upper - 1)
             /\ \A m, o \in ms : m.id = o.id => m = o
             /\ \A x \in next_id..(upper - 1) : \E m \in ms : m.id = x
<1> DEFINE ms == Replications(n, k, v, version)
           upper == next_id + (NumNodes - 1)
           Id(to) == next_id + (IF to < n THEN to - 1 ELSE to - 2)
           Msg(to) == [id |-> Id(to), from |-> n, to |-> to, key |-> k, value |-> v,
                       version |-> version]
<1>0. NumNodes \in Nat \ {0} /\ n \in 1..NumNodes /\ next_id \in Nat \ {0}
  BY DEF Nodes
<1>1. ASSUME NEW m \in ms
      PROVE  \E to \in (1..NumNodes) \ {n} : m = Msg(to)
  <2>1. PICK to \in Nodes \ {n} :
          m = [id |-> next_id + Cardinality({p \in Nodes \ {n} : p < to}),
               from |-> n, to |-> to, key |-> k, value |-> v, version |-> version]
    BY <1>1 DEF Replications
  <2>2. m = Msg(to)
    BY <2>1, PlaceOfNode
  <2>3. QED BY <2>2 DEF Nodes
<1>2. ASSUME NEW to \in (1..NumNodes) \ {n}
      PROVE  Msg(to) \in ms
  <2>1. [id |-> next_id + Cardinality({p \in Nodes \ {n} : p < to}),
         from |-> n, to |-> to, key |-> k, value |-> v, version |-> version] \in ms
    BY DEF Replications, Nodes
  <2>2. Cardinality({p \in Nodes \ {n} : p < to}) = IF to < n THEN to - 1 ELSE to - 2
    BY PlaceOfNode DEF Nodes
  <2>3. QED BY <2>1, <2>2
<1>3. ASSUME NEW m \in ms PROVE m.id \in next_id..(upper - 1)
  <2>1. PICK to \in (1..NumNodes) \ {n} : m = Msg(to)
    BY <1>1
  <2>2. m.id = Id(to)
    BY <2>1
  <2>3. Id(to) \in next_id..(upper - 1)
    BY <1>0
  <2>4. QED BY <2>2, <2>3
<1>4. ASSUME NEW m \in ms, NEW o \in ms, m.id = o.id PROVE m = o
  <2>1. PICK a \in (1..NumNodes) \ {n} : m = Msg(a)
    BY <1>1
  <2>2. PICK b \in (1..NumNodes) \ {n} : o = Msg(b)
    BY <1>1
  <2>3. Id(a) = Id(b)
    BY <1>4, <2>1, <2>2
  <2>4. a = b
    BY <1>0, <2>3
  <2>5. QED BY <2>1, <2>2, <2>4
<1>5. ASSUME NEW x \in next_id..(upper - 1) PROVE \E m \in ms : m.id = x
  <2> DEFINE place == x - next_id + 1
             to == IF place < n THEN place ELSE place + 1
  <2>1. to \in (1..NumNodes) \ {n} /\ Id(to) = x
    BY <1>0
  <2> HIDE DEF to
  <2>2. Msg(to).id = x
    BY <2>1
  <2>3. QED BY <1>2, <2>1, <2>2
<1>6. QED BY <1>3, <1>4, <1>5

LEMMA InitIdsInv == Init => IdsInv
BY DEF Init, IdsInv, IdsAreFresh, IdsAreUnique, NoIdIsLost

LEMMA PutIdsInv ==
  ASSUME IInv, IdsInv, NEW n \in Nodes, NEW k \in Keys, NEW v \in Values, ClientPut(n, k, v)
  PROVE  IdsInv'
<1>1. CASE ~running[n]
  BY <1>1 DEF ClientPut, IdsInv, IdsAreFresh, IdsAreUnique, NoIdIsLost
<1>2. CASE running[n]
  <2> DEFINE ms == Replications(n, k, v, ver[n][k] + 1)
             upper == next_id + (NumNodes - 1)
  <2>0. ver[n][k] + 1 \in Nat /\ next_id \in Nat \ {0} /\ NumNodes \in Nat \ {0}
    BY DEF IInv, TypeOK, IdsInv, IdsAreFresh
  <2>1. queue' = queue \cup ms /\ next_id' = upper /\ decisions' = decisions
    BY <1>2 DEF ClientPut
  <2>2. /\ \A m \in ms : m.id \in next_id..(upper - 1)
        /\ \A m, o \in ms : m.id = o.id => m = o
        /\ \A x \in next_id..(upper - 1) : \E m \in ms : m.id = x
    BY <2>0, ReplicationIds
  <2> HIDE DEF ms
  <2>3. /\ upper \in Nat \ {0} /\ next_id - 1 <= upper - 1
        /\ \A x : x \in 1..(upper - 1) => x \in 1..(next_id - 1) \/ x \in next_id..(upper - 1)
        /\ \A x \in 1..(next_id - 1) : x \in 1..(upper - 1) /\ x \notin next_id..(upper - 1)
        /\ \A x \in next_id..(upper - 1) : x \in 1..(upper - 1)
    BY <2>0
  <2> HIDE DEF upper
  <2>4. IdsAreFresh'
    BY <2>1, <2>2, <2>3 DEF IdsInv, IdsAreFresh
  <2>5. IdsAreUnique'
    BY <2>1, <2>2, <2>3 DEF IdsInv, IdsAreFresh, IdsAreUnique
  <2>6. NoIdIsLost'
    BY <2>1, <2>2, <2>3 DEF IdsInv, NoIdIsLost
  <2>7. QED BY <2>4, <2>5, <2>6 DEF IdsInv
<1>3. QED BY <1>1, <1>2

(* A delivery moves one id from the queue to the decisions. *)
LEMMA DeliverIdsInv ==
  ASSUME IInv, IdsInv, NEW m \in queue, Deliver(m)
  PROVE  IdsInv'
<1>0. decisions \in Seq(Nat) /\ m.id \in Nat
  BY DEF IInv, TypeOK, Messages
<1>1. queue' = queue \ {m} /\ decisions' = Append(decisions, m.id) /\ next_id' = next_id
  BY DEF Deliver
<1>2. /\ DOMAIN decisions' = 1..(Len(decisions) + 1)
      /\ DOMAIN decisions = 1..Len(decisions)
      /\ Len(decisions) \in Nat
      /\ \A i \in DOMAIN decisions : decisions'[i] = decisions[i]
      /\ decisions'[Len(decisions) + 1] = m.id
  BY <1>0, <1>1
<1>3. \A i \in DOMAIN decisions' : i \in DOMAIN decisions \/ i = Len(decisions) + 1
  BY <1>2
<1>4. IdsAreFresh'
  BY <1>1, <1>2, <1>3 DEF IdsInv, IdsAreFresh
<1>5. IdsAreUnique'
  <2>1. ASSUME NEW i \in DOMAIN decisions', NEW j \in DOMAIN decisions',
               decisions'[i] = decisions'[j]
        PROVE  i = j
    BY <1>2, <1>3, <2>1 DEF IdsInv, IdsAreUnique
  <2>2. ASSUME NEW o \in queue', NEW i \in DOMAIN decisions' PROVE o.id # decisions'[i]
    BY <1>1, <1>2, <1>3 DEF IdsInv, IdsAreUnique
  <2>3. QED BY <1>1, <2>1, <2>2 DEF IdsInv, IdsAreUnique
<1>6. NoIdIsLost'
  <2> SUFFICES ASSUME NEW x \in 1..(next_id - 1)
               PROVE  \/ \E o \in queue' : o.id = x
                      \/ \E i \in DOMAIN decisions' : decisions'[i] = x
    BY <1>1 DEF NoIdIsLost
  <2>1. CASE x = m.id
    <3>1. Len(decisions) + 1 \in DOMAIN decisions'
      BY <1>2
    <3>2. QED BY <1>2, <2>1, <3>1
  <2>2. CASE \E o \in queue : o.id = x /\ x # m.id
    BY <1>1, <2>2
  <2>3. CASE \E i \in DOMAIN decisions : decisions[i] = x
    <3>1. \A i \in DOMAIN decisions : i \in DOMAIN decisions'
      BY <1>2
    <3>2. QED BY <1>2, <2>3, <3>1
  <2>4. QED BY <2>1, <2>2, <2>3 DEF IdsInv, NoIdIsLost
<1>7. QED BY <1>4, <1>5, <1>6 DEF IdsInv

LEMMA NextIdsInv == IInv /\ IdsInv /\ [Next]_vars => IdsInv'
<1> SUFFICES ASSUME IInv, IdsInv, [Next]_vars PROVE IdsInv'
  OBVIOUS
<1>1. ASSUME UNCHANGED <<queue, next_id, decisions>> PROVE IdsInv'
  BY <1>1 DEF IdsInv, IdsAreFresh, IdsAreUnique, NoIdIsLost
<1>2. \/ \E n \in Nodes, k \in Keys, v \in Values : ClientPut(n, k, v)
      \/ \E m \in queue : Deliver(m)
      \/ UNCHANGED <<queue, next_id, decisions>>
  BY DEF Next, ScriptStep, LoopStep, ClientGetAssert, Partition, Heal, SetRunning,
         UnknownNode, EndScript, EndDelivery, Expire, vars
<1>3. QED BY <1>1, <1>2, PutIdsInv, DeliverIdsInv

(* What the invariant says of sets, counted. *)
LEMMA ConservedIfIdsInv == TypeOK /\ IdsInv => MessagesConserved
<1> SUFFICES ASSUME TypeOK, IdsInv PROVE MessagesConserved
  OBVIOUS
<1> DEFINE queued == {m.id : m \in queue}
           taken == {decisions[i] : i \in DOMAIN decisions}
           all == 1..(next_id - 1)
<1>0. next_id \in Nat \ {0} /\ decisions \in Seq(Nat) /\ Len(decisions) \in Nat
      /\ DOMAIN decisions = 1..Len(decisions)
  BY DEF TypeOK, IdsInv, IdsAreFresh
<1>1. queued \cup taken = all
  BY DEF IdsInv, IdsAreFresh, NoIdIsLost
<1>2. queued \cap taken = {}
  BY DEF IdsInv, IdsAreUnique
<1>3. IsFiniteSet(queued) /\ IsFiniteSet(taken)
  <2>1. IsFiniteSet(all)
    BY <1>0, FS_Interval
  <2>2. queued \in SUBSET all /\ taken \in SUBSET all
    BY <1>1
  <2> HIDE DEF queued, taken, all
  <2>3. QED BY <2>1, <2>2, FS_Subset
<1>4. Cardinality(queued) = Cardinality(queue)
  <2> DEFINE f == [m \in queue |-> m.id]
  <2>1. f \in Bijection(queue, queued)
    <3>1. f \in [queue -> queued] /\ \A m \in queue : f[m] = m.id
      OBVIOUS
    <3>2. \A a, b \in queue : f[a] = f[b] => a = b
      BY <3>1 DEF IdsInv, IdsAreUnique
    <3>3. \A t \in queued : \E s \in queue : f[s] = t
      BY <3>1
    <3> HIDE DEF f, queued
    <3>4. QED BY <3>1, <3>2, <3>3, Fun_IsBij
  <2> HIDE DEF f, queued
  <2>2. ExistsBijection(queued, queue)
    BY <2>1, Fun_ExistsBij, Fun_ExistsBijSymmetric
  <2>3. QED BY <1>3, <2>2, FS_Bijection
<1>5. Cardinality(taken) = Len(decisions)
  <2>1. decisions \in Bijection(1..Len(decisions), taken)
    <3>1. decisions \in [1..Len(decisions) -> taken]
      BY <1>0
    <3>2. \A a, b \in 1..Len(decisions) : decisions[a] = decisions[b] => a = b
      BY <1>0 DEF IdsInv, IdsAreUnique
    <3>3. \A t \in taken : \E s \in 1..Len(decisions) : decisions[s] = t
      BY <1>0
    <3> HIDE DEF taken
    <3>4. QED BY <3>1, <3>2, <3>3, Fun_IsBij
  <2> HIDE DEF taken
  <2>2. ExistsBijection(1..Len(decisions), taken)
    BY <2>1, Fun_ExistsBij
  <2>3. QED BY <1>0, <2>2, FS_CountingElements
<1>6. QED BY <1>1, <1>2, <1>4, <1>5 DEF MessagesConserved

(* The queue of run_explore_inner neither loses nor duplicates a message:   *)
(* every id a put handed out is in the queue or was delivered, once.       *)
THEOREM NoMessageLostOrDuplicated == Spec => []MessagesConserved
<1>1. Init => IInv /\ IdsInv
  BY InitIInv, InitIdsInv
<1>2. (IInv /\ IdsInv) /\ [Next]_vars => (IInv /\ IdsInv)'
  BY NextIInv, NextIdsInv
<1>3. IInv /\ IdsInv => MessagesConserved
  BY ConservedIfIdsInv DEF IInv
<1>4. QED BY <1>1, <1>2, <1>3, PTL DEF Spec

-----------------------------------------------------------------------------
(* Where a write is while it spreads. *)

(* A node keeps what it wrote, or something newer. *)
WriterIsCurrent == \A p \in puts : ver[p.node][p.key] >= p.version

(* A node numbers its own writes of a key: two of them differ. *)
WriterNumbersWrites ==
  \A p, q \in puts :
    p.node = q.node /\ p.key = q.key /\ p.version = q.version => p = q

(* To every other node a write is on its way until that node has it, or    *)
(* something newer.                                                        *)
WritesTravel ==
  \A p \in puts, n \in Nodes :
    n # p.node =>
      \/ ver[n][p.key] >= p.version
      \/ \E m \in queue : WriteOf(m) = p /\ m.to = n

SpreadInv == WriterIsCurrent /\ WriterNumbersWrites /\ WritesTravel /\ IsFiniteSet(puts)

(* Versions of a node never go back. *)
LEMMA VersionsGrow ==
  ASSUME IInv, NEW m \in queue, m \in Deliverable(queue)
  PROVE  /\ \A n \in Nodes, k \in Keys : VerAfter(m, ver)[n][k] >= ver[n][k]
         /\ VerAfter(m, ver)[m.to][m.key] >= m.version
<1>1. /\ m \in Messages /\ running[m.to]
      /\ ver \in [Nodes -> [Keys -> Nat]]
  BY DEF IInv, TypeOK, Deliverable, CanReach
<1>2. m.to \in Nodes /\ m.key \in Keys /\ m.version \in Nat
  BY <1>1 DEF Messages
<1>3. CASE m.version >= ver[m.to][m.key]
  <2>1. VerAfter(m, ver) = [ver EXCEPT ![m.to][m.key] = m.version]
    BY <1>1, <1>3 DEF VerAfter, Applies
  <2>2. QED BY <1>1, <1>2, <1>3, <2>1
<1>4. CASE ~(m.version >= ver[m.to][m.key])
  <2>1. VerAfter(m, ver) = ver
    BY <1>4 DEF VerAfter, Applies
  <2>2. QED BY <1>1, <1>2, <1>4, <2>1
<1>5. QED BY <1>3, <1>4

(* Every strategy picks among the messages it may deliver. *)
LEMMA PicksAreDeliverable ==
  ASSUME NEW ms, NEW edges, NEW m \in Picks(ms, edges), schedule \in Strategies
  PROVE  m \in ms
<1>1. schedule \in {"fifo", "bfs", "dfs", "random", "pct", "coverage_guided"}
  BY StrategyAssumption
<1>2. QED BY <1>1 DEF Picks, Earliest, Latest

LEMMA InitSpreadInv == Init => SpreadInv
BY FS_EmptySet DEF Init, SpreadInv, WriterIsCurrent, WriterNumbersWrites, WritesTravel

LEMMA PutSpreadInv ==
  ASSUME IInv, SpreadInv, NEW n \in Nodes, NEW k \in Keys, NEW v \in Values,
         ClientPut(n, k, v)
  PROVE  SpreadInv'
<1>1. CASE ~running[n]
  BY <1>1 DEF ClientPut, SpreadInv, WriterIsCurrent, WriterNumbersWrites, WritesTravel, store
<1>2. CASE running[n]
  <2> DEFINE version == ver[n][k] + 1
             write == [node |-> n, key |-> k, value |-> v, version |-> version]
             ms == Replications(n, k, v, version)
  <2>0. /\ ver \in [Nodes -> [Keys -> Nat]] /\ puts \subseteq Writes
        /\ ver[n][k] \in Nat /\ version \in Nat /\ version > ver[n][k]
        /\ queue \subseteq Messages /\ next_id \in Nat
    BY DEF IInv, TypeOK
  <2>1. /\ ver' = [ver EXCEPT ![n][k] = version]
        /\ queue' = queue \cup ms
        /\ puts' = puts \cup {write}
    BY <1>2 DEF ClientPut
  <2>2. ms \subseteq Messages /\ \A m \in ms : WriteOf(m) = write
    BY <2>0, ReplicationsAreMessages
  <2>3. \A to \in Nodes \ {n} : \E m \in ms : m.to = to
    <3> TAKE to \in Nodes \ {n}
    <3> DEFINE m == [id |-> next_id + Cardinality({p \in Nodes \ {n} : p < to}),
                     from |-> n, to |-> to, key |-> k, value |-> v, version |-> version]
    <3>1. m \in ms
      BY DEF Replications
    <3>2. m.to = to
      OBVIOUS
    <3> HIDE DEF m
    <3>3. QED BY <3>1, <3>2
  <2>4. /\ write \in Writes /\ write.node = n /\ write.key = k /\ write.version = version
    BY <2>0 DEF Writes
  <2>5. \A p \in puts : p.node \in Nodes /\ p.key \in Keys /\ p.version \in Nat
    BY <2>0 DEF Writes
  <2> HIDE DEF ms, write, version
  <2>6. /\ \A a \in Nodes, b \in Keys : ver'[a][b] >= ver[a][b] /\ ver'[a][b] \in Nat
        /\ ver'[n][k] = version
    BY <2>0, <2>1
  <2>7. WriterIsCurrent'
    <3>1. ASSUME NEW p \in puts PROVE ver'[p.node][p.key] >= p.version
      <4>1. /\ ver[p.node][p.key] >= p.version
            /\ ver'[p.node][p.key] >= ver[p.node][p.key]
            /\ ver[p.node][p.key] \in Nat /\ ver'[p.node][p.key] \in Nat /\ p.version \in Nat
        BY <2>0, <2>5, <2>6 DEF SpreadInv, WriterIsCurrent
      <4>2. QED BY <4>1
    <3>2. ver'[write.node][write.key] >= write.version
      BY <2>0, <2>4, <2>6
    <3>3. QED BY <2>1, <3>1, <3>2 DEF WriterIsCurrent
  <2>8. WriterNumbersWrites'
    <3>1. ASSUME NEW p \in puts, p.node = n, p.key = k PROVE p.version # version
      <4>1. ver[n][k] >= p.version /\ p.version \in Nat
        BY <2>5, <3>1 DEF SpreadInv, WriterIsCurrent
      <4>2. QED BY <2>0, <4>1
    <3>2. QED BY <2>1, <2>4, <3>1 DEF SpreadInv, WriterNumbersWrites
  <2>9. WritesTravel'
    <3> SUFFICES ASSUME NEW p \in puts', NEW a \in Nodes, a # p.node
                 PROVE  \/ ver'[a][p.key] >= p.version
                        \/ \E m \in queue' : WriteOf(m) = p /\ m.to = a
      BY DEF WritesTravel
    <3>1. CASE p = write
      <4>1. PICK m \in ms : m.to = a
        BY <2>3, <2>4, <3>1
      <4>2. QED BY <2>1, <2>2, <3>1, <4>1
    <3>2. CASE p \in puts
      <4>1. CASE ver[a][p.key] >= p.version
        <5>1. /\ ver'[a][p.key] >= ver[a][p.key] /\ ver'[a][p.key] \in Nat
              /\ ver[a][p.key] \in Nat /\ p.version \in Nat
          BY <2>0, <2>5, <2>6, <3>2
        <5>2. QED BY <4>1, <5>1
      <4>2. CASE \E m \in queue : WriteOf(m) = p /\ m.to = a
        BY <2>1, <4>2
      <4>3. QED BY <3>2, <4>1, <4>2 DEF SpreadInv, WritesTravel
    <3>3. QED BY <2>1, <3>1, <3>2
  <2>10. IsFiniteSet(puts')
    BY <2>1, FS_AddElement DEF SpreadInv
  <2>11. QED BY <2>7, <2>8, <2>9, <2>10 DEF SpreadInv
<1>3. QED BY <1>1, <1>2

(* A delivered message leaves the queue because its write has arrived. *)
LEMMA DeliverSpreadInv ==
  ASSUME IInv, SpreadInv, NEW m \in queue, Deliver(m)
  PROVE  SpreadInv'
<1>0. m \in Deliverable(queue)
  BY PicksAreDeliverable DEF Deliver, IInv, TypeOK
<1>1. ver' = VerAfter(m, ver) /\ queue' = queue \ {m} /\ puts' = puts
  BY DEF Deliver
<1>2. /\ \A n \in Nodes, k \in Keys : ver'[n][k] >= ver[n][k]
      /\ ver'[m.to][m.key] >= m.version
  BY <1>0, <1>1, VersionsGrow
<1>3. /\ ver \in [Nodes -> [Keys -> Nat]] /\ ver' \in [Nodes -> [Keys -> Nat]]
      /\ m \in Messages /\ puts \subseteq Writes
  BY <1>1, DeliveryTypes DEF IInv, TypeOK
<1>4. \A p \in puts : p.node \in Nodes /\ p.key \in Keys /\ p.version \in Nat
  BY <1>3 DEF Writes
<1>5. ASSUME NEW p \in puts, NEW n \in Nodes, ver[n][p.key] >= p.version
      PROVE  ver'[n][p.key] >= p.version
  <2>1. /\ ver'[n][p.key] >= ver[n][p.key] /\ p.version \in Nat
        /\ ver[n][p.key] \in Nat /\ ver'[n][p.key] \in Nat
    BY <1>2, <1>3, <1>4
  <2>2. QED BY <1>5, <2>1
<1>6. WriterIsCurrent'
  BY <1>1, <1>4, <1>5 DEF SpreadInv, WriterIsCurrent
<1>7. WriterNumbersWrites' /\ IsFiniteSet(puts')
  BY <1>1 DEF SpreadInv, WriterNumbersWrites
<1>8. WritesTravel'
  <2> SUFFICES ASSUME NEW p \in puts, NEW n \in Nodes, n # p.node
               PROVE  \/ ver'[n][p.key] >= p.version
                      \/ \E o \in queue' : WriteOf(o) = p /\ o.to = n
    BY <1>1 DEF WritesTravel
  <2>1. CASE ver[n][p.key] >= p.version
    BY <1>5, <2>1
  <2>2. CASE WriteOf(m) = p /\ m.to = n
    <3>1. p.key = m.key /\ p.version = m.version
      BY <2>2 DEF WriteOf
    <3>2. QED BY <1>2, <2>2, <3>1
  <2>3. CASE \E o \in queue : WriteOf(o) = p /\ o.to = n /\ o # m
    BY <1>1, <2>3
  <2>4. QED BY <2>1, <2>2, <2>3 DEF SpreadInv, WritesTravel
<1>9. QED BY <1>6, <1>7, <1>8 DEF SpreadInv

LEMMA NextSpreadInv == IInv /\ SpreadInv /\ [Next]_vars => SpreadInv'
<1> SUFFICES ASSUME IInv, SpreadInv, [Next]_vars PROVE SpreadInv'
  OBVIOUS
<1>1. ASSUME UNCHANGED <<queue, ver, puts>> PROVE SpreadInv'
  BY <1>1 DEF SpreadInv, WriterIsCurrent, WriterNumbersWrites, WritesTravel
<1>2. \/ \E n \in Nodes, k \in Keys, v \in Values : ClientPut(n, k, v)
      \/ \E m \in queue : Deliver(m)
      \/ UNCHANGED <<queue, ver, puts>>
  BY DEF Next, ScriptStep, LoopStep, ClientGetAssert, Partition, Heal, SetRunning,
         UnknownNode, EndScript, EndDelivery, Expire, vars, store
<1>3. QED BY <1>1, <1>2, PutSpreadInv, DeliverSpreadInv

-----------------------------------------------------------------------------
(* When nothing is deliverable, a write has reached every node its writer  *)
(* is linked to.                                                           *)
LEMMA WritesArrive ==
  ASSUME IInv, SpreadInv, Deliverable(queue) = {}, NEW p \in puts, NEW n \in Nodes,
         n = p.node \/ Linked(p.node, n)
  PROVE  ver[n][p.key] >= p.version
<1>1. CASE n = p.node
  BY <1>1 DEF SpreadInv, WriterIsCurrent
<1>2. CASE n # p.node
  <2>1. ASSUME NEW m \in queue, WriteOf(m) = p, m.to = n PROVE FALSE
    <3>1. m.from = p.node
      BY <2>1 DEF WriteOf
    <3>2. m \in Deliverable(queue)
      BY <1>2, <2>1, <3>1 DEF Linked, Deliverable, CanReach
    <3>3. QED BY <3>2
  <2>2. QED BY <1>2, <2>1 DEF SpreadInv, WritesTravel
<1>3. QED BY <1>1, <1>2

LEMMA TwoInASmallSet ==
  ASSUME NEW S, IsFiniteSet(S), Cardinality(S) <= 1, NEW x \in S, NEW y \in S
  PROVE  x = y
<1>1. Cardinality(S) \in Nat
  BY FS_CardinalityType
<1>2. Cardinality(S) # 0
  BY FS_EmptySet
<1>3. Cardinality(S) = 1
  BY <1>1, <1>2
<1>4. PICK z : S = {z}
  BY <1>3, FS_Singleton
<1>5. QED BY <1>4

LEMMA ConvergesIfSpread == IInv /\ SpreadInv => Converges
<1> SUFFICES ASSUME IInv, SpreadInv, Drained PROVE Converges
  BY DEF Converges, ConvergesUpToTies, SingleWriterConverges
<1>0. /\ ver \in [Nodes -> [Keys -> Nat]] /\ puts \subseteq Writes
      /\ Deliverable(queue) = {} /\ ValueMatchesVersion
  BY DEF IInv, TypeOK, Drained
<1>1. ConvergesUpToTies
  <2> SUFFICES ASSUME \A n, m \in Nodes : n # m => Linked(n, m),
                      NEW k \in Keys, NEW n \in Nodes, NEW m \in Nodes
               PROVE  /\ ver[n][k] = ver[m][k]
                      /\ Cardinality({p \in puts : p.key = k /\ p.version = ver[n][k]}) <= 1
                           => kv[n][k] = kv[m][k]
    BY DEF ConvergesUpToTies
  <2>1. ASSUME NEW a \in Nodes, NEW b \in Nodes PROVE ver[a][k] >= ver[b][k]
    <3>0. ver[a][k] \in Nat /\ ver[b][k] \in Nat
      BY <1>0
    <3>1. CASE ver[b][k] = 0
      BY <3>0, <3>1
    <3>2. CASE ver[b][k] > 0
      <4>1. PICK p \in puts : p.key = k /\ p.version = ver[b][k]
        BY <1>0, <3>2 DEF ValueMatchesVersion
      <4>2. p.node \in Nodes
        BY <1>0 DEF Writes
      <4>3. a = p.node \/ Linked(p.node, a)
        BY <4>2
      <4>4. QED BY <1>0, <4>1, <4>3, WritesArrive
    <3>3. QED BY <3>0, <3>1, <3>2
  <2>2. ver[n][k] = ver[m][k]
    <3>1. ver[n][k] >= ver[m][k] /\ ver[m][k] >= ver[n][k]
      BY <2>1
    <3>2. ver[n][k] \in Nat /\ ver[m][k] \in Nat
      BY <1>0
    <3>3. QED BY <3>1, <3>2
  <2>3. ASSUME Cardinality({p \in puts : p.key = k /\ p.version = ver[n][k]}) <= 1
        PROVE  kv[n][k] = kv[m][k]
    <3> DEFINE winners == {p \in puts : p.key = k /\ p.version = ver[n][k]}
    <3>0. ver[n][k] \in Nat
      BY <1>0
    <3>1. CASE ver[n][k] = 0
      <4>1. ver[m][k] = 0
        BY <2>2, <3>1
      <4>2. kv[n][k] = Null /\ kv[m][k] = Null
        BY <1>0, <3>1, <4>1 DEF ValueMatchesVersion
      <4>3. QED BY <4>2
    <3>2. CASE ver[n][k] > 0
      <4>1. PICK p \in puts : p.key = k /\ p.version = ver[n][k] /\ p.value = kv[n][k]
        BY <1>0, <3>2 DEF ValueMatchesVersion
      <4>2. PICK q \in puts : q.key = k /\ q.version = ver[m][k] /\ q.value = kv[m][k]
        BY <1>0, <2>2, <3>2 DEF ValueMatchesVersion
      <4>3. p \in winners /\ q \in winners
        BY <2>2, <4>1, <4>2
      <4>4. IsFiniteSet(winners)
        <5>1. winners \in SUBSET puts
          OBVIOUS
        <5> HIDE DEF winners
        <5>2. QED BY <5>1, FS_Subset DEF SpreadInv
      <4>5. Cardinality(winners) <= 1
        BY <2>3
      <4> HIDE DEF winners
      <4>6. p = q
        BY <4>3, <4>4, <4>5, TwoInASmallSet
      <4>7. QED BY <4>1, <4>2, <4>6
    <3>3. QED BY <3>0, <3>1, <3>2
  <2>4. QED BY <2>2, <2>3
<1>2. SingleWriterConverges
  <2> SUFFICES ASSUME NEW k \in Keys, NEW w \in Nodes,
                      \A p \in puts : p.key = k => p.node = w,
                      NEW n \in Nodes, n # w, Linked(w, n)
               PROVE  kv[n][k] = kv[w][k] /\ ver[n][k] = ver[w][k]
    BY DEF SingleWriterConverges
  <2>0. ver[n][k] \in Nat /\ ver[w][k] \in Nat
    BY <1>0
  <2>1. ASSUME NEW p \in puts, p.key = k
        PROVE  ver[n][k] >= p.version /\ ver[w][k] >= p.version
    BY <1>0, <2>1, WritesArrive
  <2>2. ver[n][k] = ver[w][k]
    <3>1. ASSUME ver[n][k] > 0 PROVE ver[w][k] >= ver[n][k]
      BY <1>0, <2>1, <3>1 DEF ValueMatchesVersion
    <3>2. ASSUME ver[w][k] > 0 PROVE ver[n][k] >= ver[w][k]
      BY <1>0, <2>1, <3>2 DEF ValueMatchesVersion
    <3>3. QED BY <2>0, <3>1, <3>2
  <2>3. CASE ver[n][k] = 0
    <3>1. ver[w][k] = 0
      BY <2>2, <2>3
    <3>2. kv[n][k] = Null /\ kv[w][k] = Null
      BY <1>0, <2>3, <3>1 DEF ValueMatchesVersion
    <3>3. QED BY <2>2, <3>2
  <2>4. CASE ver[n][k] > 0
    <3>1. PICK p \in puts : p.key = k /\ p.version = ver[n][k] /\ p.value = kv[n][k]
      BY <1>0, <2>4 DEF ValueMatchesVersion
    <3>2. PICK q \in puts : q.key = k /\ q.version = ver[w][k] /\ q.value = kv[w][k]
      BY <1>0, <2>2, <2>4 DEF ValueMatchesVersion
    <3>3. p.node = w /\ q.node = w
      BY <3>1, <3>2
    <3>4. p = q
      BY <2>2, <3>1, <3>2, <3>3 DEF SpreadInv, WriterNumbersWrites
    <3>5. QED BY <2>2, <3>1, <3>2, <3>4
  <2>5. QED BY <2>0, <2>2, <2>3, <2>4
<1>3. QED BY <1>1, <1>2 DEF Converges

(* Whatever order the strategy of run_explore_inner picks, and whatever    *)
(* crashed or was cut off: once nothing is deliverable, the replicas of a  *)
(* healthy cluster agree up to ties, and those a lone writer reaches agree *)
(* with it.                                                                *)
THEOREM ReplicasConverge == Spec => []Converges
<1>1. Init => IInv /\ SpreadInv
  BY InitIInv, InitSpreadInv
<1>2. (IInv /\ SpreadInv) /\ [Next]_vars => (IInv /\ SpreadInv)'
  BY NextIInv, NextSpreadInv
<1>3. QED BY <1>1, <1>2, ConvergesIfSpread, PTL DEF Spec

-----------------------------------------------------------------------------
(* What the recorded verdict says of the recorded store. *)

VerdictInv ==
  /\ phase = "script" => decisions = <<>>
  /\ phase = "deliver" /\ decisions # <<>> => ChecksHold(kv, FALSE)
  /\ phase = "done" /\ decisions # <<>> /\ ~ChecksHold(kv, FALSE) => status = "fail"
  /\ phase = "done" /\ status # "timeout" /\ (decisions = <<>> \/ ChecksHold(kv, FALSE)) =>
       status = IF ChecksHold(kv, TRUE) THEN "pass" ELSE "fail"

LEMMA ChecksHoldStable ==
  ASSUME UNCHANGED <<running, checks>>
  PROVE  /\ ChecksHold(kv, FALSE)' = ChecksHold(kv', FALSE)
         /\ ChecksHold(kv, TRUE)' = ChecksHold(kv', TRUE)
BY DEF ChecksHold, CheckHolds, AllEqual, Live

LEMMA NextVerdictInv == IInv /\ VerdictInv /\ [Next]_vars => VerdictInv'
<1> SUFFICES ASSUME IInv, VerdictInv, [Next]_vars PROVE VerdictInv'
  OBVIOUS
<1>1. ASSUME phase = "script", UNCHANGED decisions, phase' \in {"script", "deliver", "error"}
      PROVE  VerdictInv'
  BY <1>1 DEF VerdictInv
<1>2. ASSUME NEW m \in queue, Deliver(m) PROVE VerdictInv'
  <2>1. UNCHANGED <<running, checks>> /\ phase = "deliver"
    BY <1>2 DEF Deliver, cluster, setup
  <2>2. decisions' # <<>>
    BY <1>2 DEF Deliver, IInv, TypeOK
  <2>3. ChecksHold(kv, FALSE)' = ChecksHold(kv', FALSE)
    BY <2>1, ChecksHoldStable
  <2>4. IF ChecksHold(kv', FALSE) THEN phase' = "deliver" ELSE phase' = "done" /\ status' = "fail"
    BY <1>2 DEF Deliver, Finish
  <2>5. CASE ChecksHold(kv', FALSE)
    BY <2>2, <2>3, <2>4, <2>5 DEF VerdictInv
  <2>6. CASE ~ChecksHold(kv', FALSE)
    BY <2>2, <2>3, <2>4, <2>6 DEF VerdictInv
  <2>7. QED BY <2>5, <2>6
<1>3. ASSUME EndDelivery \/ Expire PROVE VerdictInv'
  <2>1. UNCHANGED <<running, checks, kv, decisions>> /\ phase = "deliver" /\ phase' = "done"
    BY <1>3 DEF EndDelivery, Expire, Finish, cluster, setup, store
  <2>2. status' = "timeout" \/ status' = IF ChecksHold(kv, TRUE) THEN "pass" ELSE "fail"
    BY <1>3 DEF EndDelivery, Expire, Finish
  <2>3. /\ ChecksHold(kv, FALSE)' = ChecksHold(kv, FALSE)
        /\ ChecksHold(kv, TRUE)' = ChecksHold(kv, TRUE)
    BY <2>1, ChecksHoldStable
  <2>4. QED BY <2>1, <2>2, <2>3 DEF VerdictInv
<1>4. ASSUME UNCHANGED vars PROVE VerdictInv'
  <2>1. UNCHANGED <<running, checks, kv, decisions, phase, status>>
    BY <1>4 DEF vars, cluster, setup, store
  <2>2. /\ ChecksHold(kv, FALSE)' = ChecksHold(kv, FALSE)
        /\ ChecksHold(kv, TRUE)' = ChecksHold(kv, TRUE)
    BY <2>1, ChecksHoldStable
  <2>3. QED BY <2>1, <2>2 DEF VerdictInv
<1>5. \/ phase = "script" /\ UNCHANGED decisions /\ phase' \in {"script", "deliver", "error"}
      \/ \E m \in queue : Deliver(m)
      \/ EndDelivery \/ Expire \/ UNCHANGED vars
  BY DEF Next, ScriptStep, LoopStep, ClientPut, ClientGetAssert, Partition, Heal, SetRunning,
         UnknownNode, EndScript, Scripting
<1>6. QED BY <1>1, <1>2, <1>3, <1>4, <1>5

(* All that is known of the recorded run while it is replayed. *)
RecordInv == IInv /\ IdsInv /\ VerdictInv

LEMMA InitRecordInv == Init => RecordInv
<1>1. Init => VerdictInv
  BY DEF Init, VerdictInv
<1>2. QED BY <1>1, InitIInv, InitIdsInv DEF RecordInv

LEMMA NextRecordInv == RecordInv /\ [Next]_vars => RecordInv'
BY NextIInv, NextIdsInv, NextVerdictInv DEF RecordInv

(* A replay leaves the recorded run alone. *)
LEMMA ReplayRunsExplore == [RNext]_rvars => [Next]_vars
BY DEF RNext, Record, BeginReplay, ReplayDecision, ReplayEnd, rvars

-----------------------------------------------------------------------------
(* The replay of a recorded exploration. *)

State  == [kv |-> kv, ver |-> ver, queue |-> queue]
RState == [kv |-> r_kv, ver |-> r_ver, queue |-> r_queue]

After(m, s) ==
  [kv |-> KvAfter(m, s.kv, s.ver), ver |-> VerAfter(m, s.ver), queue |-> s.queue \ {m}]

StageInv ==
  /\ stage = "record" => pos = 0
  /\ stage # "record" => phase = "done"
  /\ phase \in {"script", "error"} => decisions = <<>>
  /\ phase \in {"script", "error"} => start = State

(* The recorded run started from the messages in start.queue. *)
StartInv ==
  /\ \E k, v, q : start = [kv |-> k, ver |-> v, queue |-> q]
  /\ queue \subseteq start.queue
  /\ \A m, o \in start.queue : m.id = o.id => m = o
  /\ \A i \in DOMAIN decisions : \E m \in start.queue : m.id = decisions[i]

(* What a trace holds: ids of those messages, each once; the replay's queue *)
(* is what it has not taken of them.                                        *)
TrialInv ==
  stage # "record" =>
    /\ trial \in Seq(Nat) /\ pos \in 0..Len(trial)
    /\ \A i, j \in DOMAIN trial : trial[i] = trial[j] => i = j
    /\ \A i \in DOMAIN trial : \E m \in start.queue : m.id = trial[i]
    /\ stage = "decisions" =>
         r_queue = {m \in start.queue : \A i \in 1..pos : m.id # trial[i]}

(* The states the recorded run went through. *)
History(h) ==
  /\ h[0] = start
  /\ h[Len(decisions)] = State
  /\ \A i \in 1..Len(decisions) :
       \E m \in h[i - 1].queue : m.id = decisions[i] /\ h[i] = After(m, h[i - 1])
  /\ \A i \in 1..(Len(decisions) - 1) : ChecksHold(h[i].kv, FALSE)

(* A replay of all decisions goes through them too. *)
Follows(h) ==
  stage = "decisions" /\ trial = decisions =>
    RState = h[pos] /\ (pos > 0 => ChecksHold(r_kv, FALSE))

HistoryInv == \E h : History(h) /\ Follows(h)

RInv == StageInv /\ StartInv /\ TrialInv /\ HistoryInv /\ NeverDrifts
        /\ ReplayReproducesFinished

LEMMA SubsequenceFacts ==
  ASSUME NEW s \in Seq(Nat), \A i, j \in DOMAIN s : s[i] = s[j] => i = j,
         NEW t \in Subsequences(s)
  PROVE  /\ t \in Seq(Nat)
         /\ \A i, j \in DOMAIN t : t[i] = t[j] => i = j
         /\ \A i \in DOMAIN t : \E j \in DOMAIN s : t[i] = s[j]
<1> DEFINE rising(n) == {e \in [1..n -> DOMAIN s] : \A i, j \in 1..n : i < j => e[i] < e[j]}
<1>0. PICK n \in 1..Len(s) : t \in {[i \in 1..n |-> s[e[i]]] : e \in rising(n)}
  BY Zenon DEF Subsequences
<1>1. PICK e \in [1..n -> DOMAIN s] :
        /\ \A i, j \in 1..n : i < j => e[i] < e[j]
        /\ t = [i \in 1..n |-> s[e[i]]]
  BY <1>0
<1>2. /\ DOMAIN s = 1..Len(s) /\ Len(s) \in Nat /\ n \in Nat
      /\ \A i \in 1..n : e[i] \in DOMAIN s /\ s[e[i]] \in Nat
  BY <1>1
<1>3. t \in [1..n -> Nat] /\ DOMAIN t = 1..n /\ \A i \in 1..n : t[i] = s[e[i]]
  BY <1>1, <1>2
<1>4. t \in Seq(Nat)
  BY <1>2, <1>3
<1>5. ASSUME NEW i \in 1..n, NEW j \in 1..n, t[i] = t[j] PROVE i = j
  <2>1. e[i] = e[j]
    BY <1>2, <1>3, <1>5
  <2>2. e[i] \in Nat
    BY <1>2
  <2>3. ~(i < j) /\ ~(j < i)
    BY <1>1, <2>1, <2>2
  <2>4. QED BY <1>2, <2>3
<1>6. QED BY <1>2, <1>3, <1>4, <1>5

LEMMA TrialFacts ==
  ASSUME RecordInv, StartInv, NEW t \in Trials
  PROVE  /\ t \in Seq(Nat)
         /\ \A i, j \in DOMAIN t : t[i] = t[j] => i = j
         /\ \A i \in DOMAIN t : \E m \in start.queue : m.id = t[i]
<1>1. /\ decisions \in Seq(Nat)
      /\ \A i, j \in DOMAIN decisions : decisions[i] = decisions[j] => i = j
  BY DEF RecordInv, IInv, TypeOK, IdsInv, IdsAreUnique
<1>2. CASE t = decisions
  BY <1>1, <1>2 DEF StartInv
<1>3. CASE t \in Subsequences(decisions)
  <2>1. /\ t \in Seq(Nat)
        /\ \A i, j \in DOMAIN t : t[i] = t[j] => i = j
        /\ \A i \in DOMAIN t : \E j \in DOMAIN decisions : t[i] = decisions[j]
    BY <1>1, <1>3, SubsequenceFacts
  <2>2. QED BY <2>1 DEF StartInv
<1>4. QED BY <1>2, <1>3 DEF Trials

LEMMA InitRInv == RInit => RInv
<1> SUFFICES ASSUME RInit PROVE RInv
  OBVIOUS
<1>1. /\ stage = "record" /\ pos = 0 /\ start = State /\ decisions = <<>> /\ phase = "script"
      /\ queue = {}
  BY DEF RInit, Init, State
<1>2. StageInv /\ TrialInv /\ NeverDrifts /\ ReplayReproducesFinished
  BY <1>1 DEF StageInv, TrialInv, NeverDrifts, ReplayReproducesFinished
<1>3. StartInv
  <2>1. start.queue = {} /\ DOMAIN decisions = {}
    BY <1>1 DEF State
  <2>2. \E k, v, q : start = [kv |-> k, ver |-> v, queue |-> q]
    BY <1>1 DEF State
  <2>3. QED BY <1>1, <2>1, <2>2 DEF StartInv
<1>4. HistoryInv
  <2> DEFINE h == [i \in {0} |-> start]
  <2>1. h[0] = start
    OBVIOUS
  <2> HIDE DEF h
  <2>2. Len(decisions) = 0
    BY <1>1
  <2>3. History(h) /\ Follows(h)
    BY <1>1, <2>1, <2>2 DEF History, Follows
  <2>4. QED BY <2>3 DEF HistoryInv
<1>5. QED BY <1>2, <1>3, <1>4 DEF RInv

-----------------------------------------------------------------------------
(* Recording *)

LEMMA ScriptRInv ==
  ASSUME RecordInv, RecordInv', RInv, stage = "record", Next, phase = "script",
         start' = [kv |-> kv', ver |-> ver', queue |-> queue'], UNCHANGED replay
  PROVE  RInv'
<1>1. UNCHANGED decisions /\ phase' \in {"script", "deliver", "error"}
  BY DEF Next, ScriptStep, LoopStep, ClientPut, ClientGetAssert, Partition, Heal, SetRunning,
         UnknownNode, EndScript, Scripting, Deliver, EndDelivery, Expire
<1>2. UNCHANGED <<stage, trial, pos>> /\ decisions = <<>> /\ decisions' = <<>>
  BY <1>1 DEF replay, RInv, StageInv
<1>3. start' = State'
  BY DEF State
<1>4. StageInv' /\ TrialInv' /\ NeverDrifts' /\ ReplayReproducesFinished'
  BY <1>2, <1>3 DEF RInv, StageInv, TrialInv, NeverDrifts, ReplayReproducesFinished
<1>5. StartInv'
  <2>1. start'.queue = queue'
    OBVIOUS
  <2>2. DOMAIN decisions' = {}
    BY <1>2
  <2>3. QED BY <2>1, <2>2 DEF StartInv, RecordInv, IdsInv, IdsAreUnique
<1>6. HistoryInv'
  <2>1. PICK h : h[0] = start'
    <3>1. [i \in {0} |-> start'][0] = start'
      OBVIOUS
    <3>2. QED BY <3>1
  <2>2. Len(decisions') = 0 /\ 1..Len(decisions') = {} /\ 1..(Len(decisions') - 1) = {}
    BY <1>2
  <2>3. History(h)'
    BY <1>3, <2>1, <2>2 DEF History
  <2>4. Follows(h)'
    BY <1>2 DEF Follows
  <2>5. QED BY <2>3, <2>4 DEF HistoryInv
<1>7. QED BY <1>4, <1>5, <1>6 DEF RInv

LEMMA AfterStable ==
  ASSUME UNCHANGED <<running, checks>>
  PROVE  /\ \A m, s : After(m, s)' = After(m, s)
         /\ \A f : ChecksHold(f, FALSE)' = ChecksHold(f, FALSE)
BY DEF After, KvAfter, VerAfter, Applies, ChecksHold, CheckHolds, AllEqual, Live

(* A delivery adds one state to the history. *)
LEMMA DeliverRInv ==
  ASSUME RecordInv, RInv, stage = "record", NEW m \in queue, Deliver(m),
         UNCHANGED <<start, replay>>
  PROVE  RInv'
<1>0. /\ decisions \in Seq(Nat) /\ m.id \in Nat /\ Len(decisions) \in Nat
      /\ queue \subseteq start.queue
  BY DEF RecordInv, IInv, TypeOK, Messages, RInv, StartInv
<1>1. /\ queue' = queue \ {m} /\ decisions' = Append(decisions, m.id)
      /\ kv' = KvAfter(m, kv, ver) /\ ver' = VerAfter(m, ver)
      /\ UNCHANGED <<running, checks>> /\ phase = "deliver" /\ phase' \in {"deliver", "done"}
  BY DEF Deliver, cluster, setup, Finish
<1>2. UNCHANGED <<stage, trial, pos, start>>
  BY DEF replay
<1> DEFINE n == Len(decisions)
<1>3. /\ Len(decisions) = n /\ Len(decisions') = n + 1 /\ n \in Nat
      /\ \A i \in 1..n : decisions'[i] = decisions[i]
      /\ decisions'[n + 1] = m.id
      /\ DOMAIN decisions' = 1..(n + 1) /\ DOMAIN decisions = 1..n
  BY <1>0, <1>1
<1> HIDE DEF n
<1>4. StageInv' /\ TrialInv' /\ NeverDrifts' /\ ReplayReproducesFinished'
  BY <1>1, <1>2 DEF RInv, StageInv, TrialInv, NeverDrifts, ReplayReproducesFinished
<1>5. StartInv'
  <2>1. queue' \subseteq start'.queue
    BY <1>0, <1>1, <1>2
  <2>2. ASSUME NEW i \in DOMAIN decisions' PROVE \E o \in start'.queue : o.id = decisions'[i]
    <3>1. CASE i = n + 1
      BY <1>0, <1>2, <1>3, <3>1
    <3>2. CASE i \in 1..n
      BY <1>2, <1>3, <3>2 DEF RInv, StartInv
    <3>3. QED BY <1>3, <3>1, <3>2
  <2>3. QED BY <1>2, <2>1, <2>2, ZenonT(60) DEF RInv, StartInv
<1>6. HistoryInv'
  <2>1. PICK g : History(g)
    BY DEF RInv, HistoryInv
  <2>2. PICK h : (\A i \in 0..n : h[i] = g[i]) /\ h[n + 1] = After(m, State)
    <3> DEFINE f == [i \in 0..(n + 1) |-> IF i = n + 1 THEN After(m, State) ELSE g[i]]
    <3>1. (\A i \in 0..n : f[i] = g[i]) /\ f[n + 1] = After(m, State)
      BY <1>3
    <3> HIDE DEF f
    <3>2. QED BY <3>1
  <2>3. g[n] = State /\ m \in State.queue /\ State.queue = queue /\ State.kv = kv
    BY <1>3, <2>1 DEF History, State
  <2>4. State' = After(m, State)
    BY <1>1 DEF State, After
  <2>5. h[0] = start' /\ h[n + 1] = State'
    BY <1>2, <1>3, <2>1, <2>2, <2>4 DEF History
  <2>6. ASSUME NEW i \in 1..(n + 1)
        PROVE  \E o \in h[i - 1].queue : o.id = decisions'[i] /\ h[i] = After(o, h[i - 1])
    <3>1. CASE i = n + 1
      <4>1. h[i - 1] = State /\ h[i] = After(m, State) /\ decisions'[i] = m.id
        BY <1>3, <2>2, <2>3, <3>1
      <4>2. QED BY <2>3, <4>1
    <3>2. CASE i \in 1..n
      <4>1. h[i - 1] = g[i - 1] /\ h[i] = g[i] /\ decisions'[i] = decisions[i]
        BY <1>3, <2>2, <3>2
      <4>2. QED BY <1>3, <2>1, <3>2, <4>1 DEF History
    <3>3. QED BY <1>3, <3>1, <3>2
  <2>7. ASSUME NEW i \in 1..n PROVE ChecksHold(h[i].kv, FALSE)
    <3>0. i = n \/ i \in 1..(n - 1)
      BY <1>3
    <3>1. CASE i = n
      <4>1. h[i].kv = kv
        BY <1>3, <2>2, <2>3, <3>1
      <4>2. decisions # <<>>
        BY <1>3
      <4>3. ChecksHold(kv, FALSE)
        BY <1>1, <4>2 DEF RecordInv, VerdictInv
      <4>4. QED BY <4>1, <4>3
    <3>2. CASE i \in 1..(n - 1)
      <4>1. h[i] = g[i]
        BY <1>3, <2>2
      <4>2. QED BY <1>3, <2>1, <3>2, <4>1 DEF History
    <3>3. QED BY <3>0, <3>1, <3>2
  <2>8. /\ \A o, s : After(o, s)' = After(o, s)
        /\ \A f : ChecksHold(f, FALSE)' = ChecksHold(f, FALSE)
    BY <1>1, AfterStable
  <2>9. (n + 1) - 1 = n
    BY <1>3
  <2>10. History(h)'
    BY <1>3, <2>5, <2>6, <2>7, <2>8, <2>9 DEF History
  <2>11. Follows(h)'
    BY <1>2 DEF Follows
  <2>12. QED BY <2>10, <2>11 DEF HistoryInv
<1>7. QED BY <1>4, <1>5, <1>6 DEF RInv

(* The steps of the recorded run that end it leave its store alone. *)
LEMMA EndRInv ==
  ASSUME RecordInv, RInv, stage = "record", EndDelivery \/ Expire,
         UNCHANGED <<start, replay>>
  PROVE  RInv'
<1>1. /\ UNCHANGED <<running, checks, kv, ver, queue, decisions>>
      /\ phase = "deliver" /\ phase' = "done"
  BY DEF EndDelivery, Expire, Finish, cluster, setup, store
<1>2. UNCHANGED <<stage, trial, pos, start>>
  BY DEF replay
<1>3. StageInv' /\ StartInv' /\ TrialInv' /\ NeverDrifts' /\ ReplayReproducesFinished'
  BY <1>1, <1>2 DEF RInv, StageInv, StartInv, TrialInv, NeverDrifts, ReplayReproducesFinished
<1>4. HistoryInv'
  <2>1. PICK h : History(h)
    BY DEF RInv, HistoryInv
  <2>2. State' = State
    BY <1>1 DEF State
  <2>3. /\ \A o, s : After(o, s)' = After(o, s)
        /\ \A f : ChecksHold(f, FALSE)' = ChecksHold(f, FALSE)
    BY <1>1, AfterStable
  <2>4. History(h)'
    BY <1>1, <1>2, <2>1, <2>2, <2>3 DEF History
  <2>5. Follows(h)'
    BY <1>2 DEF Follows
  <2>6. QED BY <2>4, <2>5 DEF HistoryInv
<1>5. QED BY <1>3, <1>4 DEF RInv

LEMMA RecordRInv ==
  ASSUME RecordInv, RecordInv', RInv, Record
  PROVE  RInv'
<1>1. stage = "record" /\ Next /\ UNCHANGED replay
  BY DEF Record
<1>2. CASE phase = "script"
  <2>1. start' = [kv |-> kv', ver |-> ver', queue |-> queue']
    BY <1>2 DEF Record
  <2>2. QED BY <1>1, <1>2, <2>1, ScriptRInv
<1>3. CASE phase # "script"
  <2>1. UNCHANGED start
    BY <1>3 DEF Record
  <2>2. (\E m \in queue : Deliver(m)) \/ EndDelivery \/ Expire
    BY <1>1, <1>3 DEF Next, ScriptStep, LoopStep, ClientPut, ClientGetAssert, Partition,
                      Heal, SetRunning, UnknownNode, EndScript, Scripting
  <2>3. QED BY <1>1, <2>1, <2>2, DeliverRInv, EndRInv
<1>4. QED BY <1>2, <1>3

-----------------------------------------------------------------------------
(* Replaying *)

(* A step of the replay changes nothing the recorded run left. *)
LEMMA HistoryStable ==
  ASSUME UNCHANGED <<vars, start>>
  PROVE  /\ \A h : History(h)' = History(h)
         /\ RecordInv => RecordInv'
         /\ StartInv => StartInv'
         /\ stage' # "record" /\ phase = "done" => StageInv'
<1>1. UNCHANGED <<running, checks, kv, ver, queue, decisions, phase>>
  BY DEF vars, cluster, setup, store
<1>2. State' = State
  BY <1>1 DEF State
<1>3. /\ \A o, s : After(o, s)' = After(o, s)
      /\ \A f : ChecksHold(f, FALSE)' = ChecksHold(f, FALSE)
  BY <1>1, AfterStable
<1>4. ASSUME NEW h PROVE History(h)' = History(h)
  BY <1>1, <1>2, <1>3 DEF History
<1>5. RecordInv => RecordInv'
  BY NextRecordInv
<1>6. StartInv => StartInv'
  BY <1>1 DEF StartInv
<1>7. stage' # "record" /\ phase = "done" => StageInv'
  BY <1>1 DEF StageInv
<1>8. QED BY <1>4, <1>5, <1>6, <1>7

LEMMA BeginRInv ==
  ASSUME RecordInv, RInv, BeginReplay
  PROVE  RInv'
<1>1. /\ stage = "record" /\ phase = "done" /\ stage' = "decisions" /\ trial' \in Trials
      /\ UNCHANGED <<vars, start>> /\ pos' = 0
      /\ r_kv' = start.kv /\ r_ver' = start.ver /\ r_queue' = start.queue
  BY DEF BeginReplay, RInv, StageInv
<1>2. UNCHANGED <<decisions, start>>
  BY <1>1 DEF vars
<1>3. StageInv' /\ StartInv' /\ NeverDrifts' /\ ReplayReproducesFinished'
  BY <1>1, HistoryStable DEF RInv, NeverDrifts, ReplayReproducesFinished
<1>4. TrialInv'
  <2>1. /\ trial' \in Seq(Nat)
        /\ \A i, j \in DOMAIN trial' : trial'[i] = trial'[j] => i = j
        /\ \A i \in DOMAIN trial' : \E m \in start.queue : m.id = trial'[i]
    BY <1>1, TrialFacts DEF RInv
  <2>2. pos' \in 0..Len(trial')
    BY <1>1, <2>1
  <2>3. r_queue' = {m \in start'.queue : \A i \in 1..pos' : m.id # trial'[i]}
    <3>1. 1..pos' = {}
      BY <1>1
    <3>2. QED BY <1>1, <1>2, <3>1
  <2>4. QED BY <1>2, <2>1, <2>2, <2>3 DEF TrialInv
<1>5. HistoryInv'
  <2>1. PICK h : History(h)
    BY DEF RInv, HistoryInv
  <2>2. h[0] = start /\ start = [kv |-> start.kv, ver |-> start.ver, queue |-> start.queue]
    <3>1. \E k, v, q : start = [kv |-> k, ver |-> v, queue |-> q]
      BY DEF RInv, StartInv
    <3>2. QED BY <2>1, <3>1 DEF History
  <2>3. RState' = h[pos']
    BY <1>1, <2>2 DEF RState
  <2>4. History(h)' /\ Follows(h)'
    BY <1>1, <2>1, <2>3, HistoryStable DEF Follows
  <2>5. QED BY <2>4 DEF HistoryInv
<1>6. QED BY <1>3, <1>4, <1>5 DEF RInv

(* The next recorded id is the id of one message, and that message is still *)
(* in the replay's queue.                                                   *)
LEMMA NextIsQueued ==
  ASSUME RInv, stage = "decisions", pos < Len(trial)
  PROVE  /\ \E m \in r_queue : m.id = trial[pos + 1]
         /\ \A m, o \in r_queue : m.id = o.id => m = o
<1>1. /\ trial \in Seq(Nat) /\ pos \in 0..Len(trial)
      /\ \A i, j \in DOMAIN trial : trial[i] = trial[j] => i = j
      /\ \A i \in DOMAIN trial : \E m \in start.queue : m.id = trial[i]
      /\ r_queue = {m \in start.queue : \A i \in 1..pos : m.id # trial[i]}
  BY DEF RInv, TrialInv
<1>2. /\ pos + 1 \in DOMAIN trial
      /\ \A i \in 1..pos : i \in DOMAIN trial /\ i # pos + 1
  BY <1>1
<1>3. PICK m \in start.queue : m.id = trial[pos + 1]
  BY <1>1, <1>2
<1>4. m \in r_queue
  BY <1>1, <1>2, <1>3
<1>5. \A a, o \in r_queue : a.id = o.id => a = o
  BY <1>1 DEF RInv, StartInv
<1>6. QED BY <1>3, <1>4, <1>5

LEMMA DecisionRInv ==
  ASSUME RecordInv, RInv, ReplayDecision
  PROVE  RInv'
<1>1. /\ stage = "decisions" /\ pos < Len(trial) /\ pos' = pos + 1
      /\ UNCHANGED <<vars, start, trial>>
  BY DEF ReplayDecision
<1>2. UNCHANGED <<running, checks, kv, ver, queue, decisions, phase, status, start, trial>>
  BY <1>1 DEF vars, cluster, setup, store
<1>3. /\ \E m \in r_queue : m.id = trial[pos + 1]
      /\ \A m, o \in r_queue : m.id = o.id => m = o
  BY <1>1, NextIsQueued
<1>4. PICK m \in r_queue :
        /\ m.id = trial[pos + 1] /\ Take(m)
        /\ IF ChecksHold(r_kv', FALSE) THEN UNCHANGED <<stage, r_status>>
                                       ELSE stage' = "done" /\ r_status' = "fail"
  BY <1>3 DEF ReplayDecision
<1>5. /\ trial \in Seq(Nat) /\ pos \in 0..Len(trial) /\ pos \in Nat /\ Len(trial) \in Nat
      /\ r_queue = {o \in start.queue : \A i \in 1..pos : o.id # trial[i]}
      /\ \A a, o \in start.queue : a.id = o.id => a = o
  BY <1>1 DEF RInv, TrialInv, StartInv
<1>6. /\ r_queue' = r_queue \ {m}
      /\ r_kv' = KvAfter(m, r_kv, r_ver) /\ r_ver' = VerAfter(m, r_ver)
  BY <1>4 DEF Take
<1>7. RState' = After(m, RState)
  BY <1>6 DEF RState, After
<1>8. StageInv' /\ StartInv' /\ NeverDrifts'
  <2>1. phase = "done"
    BY <1>1 DEF RInv, StageInv
  <2>2. stage' \in {"decisions", "done"}
    BY <1>1, <1>4
  <2>3. QED BY <1>1, <2>1, <2>2, HistoryStable DEF RInv, NeverDrifts
<1>9. TrialInv'
  <2>1. pos' \in 0..Len(trial)
    BY <1>1, <1>5
  <2>2. r_queue' = {o \in start.queue : \A i \in 1..(pos + 1) : o.id # trial[i]}
    <3>1. ASSUME NEW o \in start.queue
          PROVE  (\A i \in 1..(pos + 1) : o.id # trial[i]) <=>
                   (\A i \in 1..pos : o.id # trial[i]) /\ o.id # trial[pos + 1]
      <4>1. \A i : i \in 1..(pos + 1) <=> i \in 1..pos \/ i = pos + 1
        BY <1>5
      <4>2. QED BY <4>1
    <3>2. \A o \in start.queue : o.id = trial[pos + 1] <=> o = m
      BY <1>4, <1>5
    <3>3. QED BY <1>5, <1>6, <3>1, <3>2
  <2>3. QED BY <1>1, <1>2, <2>1, <2>2 DEF RInv, TrialInv
<1>10. PICK h : History(h) /\ Follows(h)
  BY DEF RInv, HistoryInv
<1>11. ASSUME trial = decisions
       PROVE  RState' = h[pos + 1] /\ (pos + 1 < Len(trial) => ChecksHold(r_kv', FALSE))
  <2>1. RState = h[pos] /\ RState.queue = r_queue /\ RState'.kv = r_kv'
    BY <1>1, <1>10, <1>11 DEF Follows, RState
  <2>2. pos + 1 \in 1..Len(decisions) /\ (pos + 1) - 1 = pos
    BY <1>1, <1>5, <1>11
  <2>3. PICK o \in h[pos].queue : o.id = decisions[pos + 1] /\ h[pos + 1] = After(o, h[pos])
    BY <1>10, <2>2 DEF History
  <2>4. o = m
    BY <1>3, <1>4, <1>11, <2>1, <2>3
  <2>5. RState' = h[pos + 1]
    BY <1>7, <2>1, <2>3, <2>4
  <2>6. ASSUME pos + 1 < Len(trial) PROVE ChecksHold(r_kv', FALSE)
    <3>1. pos + 1 \in 1..(Len(decisions) - 1)
      BY <1>5, <1>11, <2>6
    <3>2. QED BY <1>10, <2>1, <2>5, <3>1 DEF History
  <2>7. QED BY <2>5, <2>6
<1>12. HistoryInv'
  <2>1. ASSUME stage' = "decisions", trial = decisions PROVE ChecksHold(r_kv', FALSE)
    BY <1>4, <2>1
  <2>2. ChecksHold(r_kv, FALSE)' = ChecksHold(r_kv', FALSE)
    BY <1>2 DEF ChecksHold, CheckHolds, AllEqual, Live
  <2>3. Follows(h)'
    BY <1>1, <1>2, <1>11, <2>1, <2>2 DEF Follows
  <2>4. History(h)'
    BY <1>1, <1>10, HistoryStable
  <2>5. QED BY <2>3, <2>4 DEF HistoryInv
<1>13. ReplayReproducesFinished'
  <2>1. SUFFICES ASSUME stage' = "done", trial = decisions
                 PROVE  r_status' = status /\ r_kv' = kv /\ r_ver' = ver /\ r_queue' = queue
    BY <1>2 DEF ReplayReproducesFinished
  <2>2. ~ChecksHold(r_kv', FALSE) /\ r_status' = "fail"
    BY <1>1, <1>4, <2>1
  <2>3. pos + 1 = Len(decisions)
    <3>1. ~(pos + 1 < Len(trial))
      BY <1>11, <2>1, <2>2
    <3>2. QED BY <1>1, <1>5, <2>1, <3>1
  <2>4. RState' = State
    BY <1>10, <1>11, <2>1, <2>3 DEF History
  <2>5. r_kv' = kv /\ r_ver' = ver /\ r_queue' = queue
    BY <2>4 DEF RState, State
  <2>6. decisions # <<>> /\ phase = "done"
    BY <1>1, <1>5, <2>1 DEF RInv, StageInv
  <2>7. status = "fail"
    BY <2>2, <2>5, <2>6 DEF RecordInv, VerdictInv
  <2>8. QED BY <2>2, <2>5, <2>7
<1>14. QED BY <1>8, <1>9, <1>12, <1>13 DEF RInv

LEMMA EndReplayRInv ==
  ASSUME RecordInv, RInv, ReplayEnd
  PROVE  RInv'
<1>1. /\ stage = "decisions" /\ pos = Len(trial) /\ stage' = "done"
      /\ UNCHANGED <<vars, start, trial, pos>>
      /\ r_status' = IF ChecksHold(r_kv', TRUE) THEN "pass" ELSE "fail"
  BY DEF ReplayEnd
<1>2. UNCHANGED <<running, checks, kv, ver, queue, decisions, phase, status, start, trial,
                  partitions>>
  BY <1>1 DEF vars, cluster, setup, store
<1>3. phase = "done"
  BY <1>1 DEF RInv, StageInv
<1>4. StageInv' /\ StartInv' /\ NeverDrifts' /\ TrialInv'
  BY <1>1, <1>2, <1>3, HistoryStable DEF RInv, NeverDrifts, TrialInv
<1>5. PICK h : History(h) /\ Follows(h)
  BY DEF RInv, HistoryInv
<1>6. HistoryInv'
  BY <1>1, <1>5, HistoryStable DEF HistoryInv, Follows
<1>7. ReplayReproducesFinished'
  <2>0. (Deliverable(queue) = {})' = (Deliverable(queue) = {})
        /\ ChecksHold(kv, FALSE)' = ChecksHold(kv, FALSE)
    BY <1>2 DEF Deliverable, CanReach, ChecksHold, CheckHolds, AllEqual, Live
  <2> SUFFICES ASSUME trial = decisions, status \in {"pass", "fail"},
                      Deliverable(queue) = {} \/ (decisions # <<>> /\ ~ChecksHold(kv, FALSE))
               PROVE  r_status' = status /\ r_kv' = kv /\ r_ver' = ver /\ r_queue' = queue
    BY <1>2, <2>0 DEF ReplayReproducesFinished
  <2>1. RState = State /\ (pos > 0 => ChecksHold(r_kv, FALSE))
    BY <1>1, <1>5 DEF History, Follows
  <2>2. r_kv = kv /\ r_ver = ver /\ r_queue = queue
    BY <2>1 DEF RState, State
  <2>3. decisions = <<>> \/ ChecksHold(kv, FALSE)
    <3>1. decisions \in Seq(Nat)
      BY DEF RecordInv, IInv, TypeOK
    <3>2. decisions # <<>> => Len(decisions) > 0
      BY <3>1
    <3>3. QED BY <1>1, <2>1, <2>2, <3>2
  <2>4. Deliverable(r_queue) = {}
    BY <2>2, <2>3
  <2>5. UNCHANGED <<r_kv, r_ver, r_queue>>
    <3>1. ~\E m : m \in Picks(Deliverable(r_queue), {})
      BY <2>4, PicksAreDeliverable DEF RecordInv, IInv, TypeOK
    <3>2. QED BY <3>1 DEF ReplayEnd
  <2>6. status = IF ChecksHold(kv, TRUE) THEN "pass" ELSE "fail"
    BY <1>3, <2>3 DEF RecordInv, VerdictInv
  <2>7. QED BY <1>1, <2>2, <2>5, <2>6
<1>8. QED BY <1>4, <1>6, <1>7 DEF RInv

LEMMA NextRInv == RecordInv /\ RInv /\ [RNext]_rvars => (RecordInv /\ RInv)'
<1> SUFFICES ASSUME RecordInv, RInv, [RNext]_rvars PROVE (RecordInv /\ RInv)'
  OBVIOUS
<1>1. RecordInv'
  BY ReplayRunsExplore, NextRecordInv
<1>2. ASSUME UNCHANGED rvars PROVE RInv'
  <2>1. UNCHANGED <<vars, start, stage, trial, pos, r_kv, r_ver, r_queue, r_status>>
    BY <1>2 DEF rvars, replay
  <2>2. UNCHANGED <<running, partitions, checks, kv, ver, queue, decisions, phase, status>>
    BY <2>1 DEF vars, cluster, setup, store
  <2>3. StageInv' /\ StartInv' /\ NeverDrifts' /\ TrialInv'
    BY <2>1, <2>2, ZenonT(60) DEF RInv, NeverDrifts, TrialInv, StageInv, StartInv, State
  <2>4. HistoryInv'
    <3>1. PICK h : History(h) /\ Follows(h)
      BY DEF RInv, HistoryInv
    <3>2. RState' = RState /\ ChecksHold(r_kv, FALSE)' = ChecksHold(r_kv, FALSE)
      BY <2>1, <2>2 DEF RState, ChecksHold, CheckHolds, AllEqual, Live
    <3>3. History(h)' /\ Follows(h)'
      BY <2>1, <2>2, <3>1, <3>2, HistoryStable DEF Follows
    <3>4. QED BY <3>3 DEF HistoryInv
  <2>5. ReplayReproducesFinished'
    <3>1. (Deliverable(queue) = {})' = (Deliverable(queue) = {})
          /\ ChecksHold(kv, FALSE)' = ChecksHold(kv, FALSE)
      BY <2>2 DEF Deliverable, CanReach, ChecksHold, CheckHolds, AllEqual, Live
    <3>2. QED BY <2>1, <2>2, <3>1 DEF RInv, ReplayReproducesFinished
  <2>6. QED BY <2>3, <2>4, <2>5 DEF RInv
<1>3. QED
  BY <1>1, <1>2, RecordRInv, BeginRInv, DecisionRInv, EndReplayRInv DEF RNext

LEMMA ReplayInvariantHolds == RSpec => [](RecordInv /\ RInv)
<1>1. RInit => RecordInv /\ RInv
  BY InitRecordInv, InitRInv DEF RInit
<1>2. QED BY <1>1, NextRInv, PTL DEF RSpec

(* run_explore_replay_inner finds every id of a trace in the queue it      *)
(* rebuilt, and so does each trial of shrink_explore_trace: no replay of   *)
(* an exploration ends in a drift error.                                   *)
THEOREM ReplaysNeverDrift == RSpec => []NeverDrifts
<1>1. RInv => NeverDrifts
  BY DEF RInv
<1>2. QED BY <1>1, ReplayInvariantHolds, PTL

(* The replay of an exploration that failed on the way or delivered all it *)
(* could ends with the recorded verdict, store and queue.                  *)
THEOREM FinishedRunsReplay == RSpec => []ReplayReproducesFinished
<1>1. RInv => ReplayReproducesFinished
  BY DEF RInv
<1>2. QED BY <1>1, ReplayInvariantHolds, PTL

(* Recording and replaying keep what holds of an exploration by itself.    *)
COROLLARY RecordedRunsAreExplorations == RSpec => Spec
<1>1. RInit => Init
  BY DEF RInit
<1>2. QED BY <1>1, ReplayRunsExplore, PTL DEF RSpec, Spec

=============================================================================
