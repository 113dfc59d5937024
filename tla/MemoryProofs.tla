---------------------------- MODULE MemoryProofs ----------------------------
(***************************************************************************)
(* Proofs about memory, for every choice of the constants.                 *)
(*                                                                         *)
(* Of MemoryCap: types, the balance of the counters, the allocation graph, *)
(* and the running counter against the sum of the live allocations.        *)
(*                                                                         *)
(* Of Profiles: the heap profile read from the events of a run against the *)
(* recorder that wrote them.                                               *)
(***************************************************************************)
EXTENDS MemoryCap, Profiles, FiniteSetTheorems, SequenceTheorems, TLAPS

(* GraphTracksLive made inductive, for nodes N, edges E, the next id k and *)
(* the live ids D: every edge is of one of the two kinds and about an id   *)
(* already handed out, a freed_by edge has its free node, and only ids     *)
(* handed out and no longer live have a free node.                         *)
AllocEdge(cs, id) == <<CallsiteNode(cs), AllocNode(id)>>
FreeEdge(id)      == <<AllocNode(id), FreeNode(id)>>

GraphInv(N, E, k, D) ==
  /\ D \subseteq 1..(k - 1)
  /\ E \in Seq(N \X N)
  /\ \A i, j \in DOMAIN E : E[i] = E[j] => i = j
  /\ \A i \in DOMAIN E :
        \/ \E cs \in Callsites, id \in 1..(k - 1) : E[i] = AllocEdge(cs, id)
        \/ \E id \in 1..(k - 1) : E[i] = FreeEdge(id) /\ FreeNode(id) \in N
  /\ \A id \in 1..(k - 1) : AllocNode(id) \in N /\ (id \in D <=> FreeNode(id) \notin N)
  /\ \A id \in Nat : FreeNode(id) \in N => id \in 1..(k - 1)

(* The counters against the live ids: both balances are proved from it.    *)
Balance(k, ops, failed, freed, D) ==
  /\ IsFiniteSet(D)
  /\ ops = failed + freed + Cardinality(D)
  /\ k = freed + Cardinality(D) + 1

IInv ==
  /\ TypeOK
  /\ GraphInv(nodes, edges, next_alloc_id, DOMAIN live)
  /\ Balance(next_alloc_id, alloc_ops, failed_alloc_count, free_count, DOMAIN live)

-----------------------------------------------------------------------------
(* The saturating operations stay within the u64. *)
LEMMA SatArith ==
  ASSUME NEW a \in 0..MaxU64, NEW b \in 0..MaxU64
  PROVE  /\ SatAdd(a, b) \in 0..MaxU64
         /\ SatSub(a, b) \in 0..MaxU64
         /\ Larger(a, b) \in 0..MaxU64
BY U64Assumption DEF SatAdd, SatSub, Larger

LEMMA SatMulType ==
  ASSUME NEW a \in Nat, NEW b \in Nat
  PROVE  SatMul(a, b) \in 0..MaxU64
<1>1. a * b \in Nat OBVIOUS
<1>2. QED BY <1>1, U64Assumption DEF SatMul

(* What allocate charges is a u64, whatever the wave and the seed. *)
LEMMA EffectiveType ==
  ASSUME TypeOK, NEW b \in Sizes, NEW pct \in FragPcts, NEW n \in Nat \ {0}
  PROVE  EffectiveAllocBytes(b, n, pct) \in 0..MaxU64
<1> DEFINE scaled == Scaled(b, n)
<1>0. b \in 0..MaxU64 /\ MaxU64 \in Nat /\ pct \in 0..30
  BY BytesAssumption, U64Assumption, FragAssumption
<1>1. scaled \in 0..MaxU64
  <2>1. CASE wave = <<>>
    BY <2>1, <1>0 DEF Scaled
  <2>2. CASE wave # <<>>
    <3>1. wave \in Seq(1..MaxU64) /\ Len(wave) \in Nat \ {0}
      BY <2>2, WaveAssumption DEF TypeOK
    <3> DEFINE i == ((n - 1) % Len(wave)) + 1
    <3>2. i \in 1..Len(wave)
      BY <3>1
    <3> HIDE DEF i
    <3>3. wave[i] \in Nat
      BY <3>1, <3>2, <1>0
    <3>4. SatMul(b, wave[i]) \in 0..MaxU64
      BY <3>3, <1>0, SatMulType, b \in Nat
    <3>5. QED BY <2>2, <3>4 DEF Scaled, i
  <2>3. QED BY <2>1, <2>2
<1> HIDE DEF scaled
<1>2. SatMul(scaled, pct) \div 100 \in 0..MaxU64
  <2>1. SatMul(scaled, pct) \in 0..MaxU64
    BY <1>0, <1>1, SatMulType, scaled \in Nat, pct \in Nat
  <2>2. QED BY <2>1, <1>0
<1>3. SatAdd(scaled, SatMul(scaled, pct) \div 100) \in 0..MaxU64
  BY <1>1, <1>2, SatArith
<1>4. QED BY <1>1, <1>3 DEF EffectiveAllocBytes, scaled

-----------------------------------------------------------------------------
(* Appending a new element keeps a sequence free of duplicates. *)
LEMMA AppendKeepsDistinct ==
  ASSUME NEW S, NEW T, S \subseteq T, NEW s \in Seq(S), NEW e \in T,
         \A i, j \in DOMAIN s : s[i] = s[j] => i = j,
         \A i \in DOMAIN s : s[i] # e
  PROVE  /\ Append(s, e) \in Seq(T)
         /\ \A i, j \in DOMAIN Append(s, e) :
              Append(s, e)[i] = Append(s, e)[j] => i = j
         /\ \A i \in DOMAIN Append(s, e) :
              Append(s, e)[i] = e \/ (i \in DOMAIN s /\ Append(s, e)[i] = s[i])
<1>1. s \in Seq(T)
  OBVIOUS
<1>2. /\ Append(s, e) \in Seq(T)
      /\ DOMAIN Append(s, e) = 1..(Len(s) + 1)
      /\ \A i \in 1..Len(s) : Append(s, e)[i] = s[i]
      /\ Append(s, e)[Len(s) + 1] = e
  BY <1>1
<1>3. DOMAIN s = 1..Len(s) /\ Len(s) \in Nat
  BY <1>1
<1>4. QED BY <1>2, <1>3

(* The graph after a granted allocation. *)
LEMMA GraphAlloc ==
  ASSUME NEW N, NEW E, NEW k \in Nat \ {0}, NEW D, GraphInv(N, E, k, D),
         NEW cs \in Callsites
  PROVE  GraphInv(N \cup {AllocNode(k), CallsiteNode(cs)},
                  Append(E, AllocEdge(cs, k)), k + 1, D \cup {k})
<1> DEFINE M == N \cup {AllocNode(k), CallsiteNode(cs)}
           e == AllocEdge(cs, k)
           F == Append(E, e)
<1>0. e \in M \X M /\ N \X N \subseteq M \X M
  BY DEF AllocEdge
<1>1. \A i \in DOMAIN E : E[i] # e
  <2> TAKE i \in DOMAIN E
  <2>1. \A c, id : id \in 1..(k - 1) => AllocEdge(c, id) # e
    BY DEF AllocEdge, AllocNode
  <2>2. \A id : FreeEdge(id) # e
    BY DEF FreeEdge, AllocEdge, AllocNode, FreeNode, CallsiteNode
  <2> HIDE DEF e
  <2>3. QED BY <2>1, <2>2 DEF GraphInv
<1>2. /\ F \in Seq(M \X M)
      /\ \A i, j \in DOMAIN F : F[i] = F[j] => i = j
      /\ \A i \in DOMAIN F : F[i] = e \/ (i \in DOMAIN E /\ F[i] = E[i])
  BY <1>0, <1>1, AppendKeepsDistinct DEF GraphInv
<1>3. \A id : FreeNode(id) \in M <=> FreeNode(id) \in N
  BY DEF FreeNode, AllocNode, CallsiteNode
<1>4. \A i \in DOMAIN F :
        \/ \E c \in Callsites, id \in 1..k : F[i] = AllocEdge(c, id)
        \/ \E id \in 1..k : F[i] = FreeEdge(id) /\ FreeNode(id) \in M
  <2> TAKE i \in DOMAIN F
  <2> HIDE DEF F, M
  <2>1. CASE F[i] = e
    BY <2>1
  <2>2. CASE i \in DOMAIN E /\ F[i] = E[i]
    BY <2>2, <1>3 DEF GraphInv
  <2>3. QED BY <2>1, <2>2, <1>2
<1>5. FreeNode(k) \notin N
  BY DEF GraphInv
<1>6. \A id \in 1..k : AllocNode(id) \in M /\ (id \in D \cup {k} <=> FreeNode(id) \notin M)
  BY <1>3, <1>5 DEF GraphInv
<1>7. \A id \in Nat : FreeNode(id) \in M => id \in 1..k
  BY <1>3 DEF GraphInv
<1>8. D \cup {k} \subseteq 1..k
  BY DEF GraphInv
<1> HIDE DEF M, F, e
<1>9. QED BY <1>2, <1>4, <1>6, <1>7, <1>8, (k + 1) - 1 = k DEF GraphInv, M, F, e

(* The graph after a live allocation is freed. *)
LEMMA GraphFree ==
  ASSUME NEW N, NEW E, NEW k \in Nat \ {0}, NEW D, GraphInv(N, E, k, D),
         NEW id \in D
  PROVE  GraphInv(N \cup {FreeNode(id)}, Append(E, FreeEdge(id)), k, D \ {id})
<1> DEFINE M == N \cup {FreeNode(id)}
           e == FreeEdge(id)
           F == Append(E, e)
<1>0. /\ id \in 1..(k - 1) /\ AllocNode(id) \in N /\ FreeNode(id) \notin N
      /\ e \in M \X M /\ N \X N \subseteq M \X M
  BY DEF GraphInv, FreeEdge
<1>1. \A i \in DOMAIN E : E[i] # e
  BY <1>0 DEF GraphInv, AllocEdge, FreeEdge, AllocNode, FreeNode, CallsiteNode
<1>2. /\ F \in Seq(M \X M)
      /\ \A i, j \in DOMAIN F : F[i] = F[j] => i = j
      /\ \A i \in DOMAIN F : F[i] = e \/ (i \in DOMAIN E /\ F[i] = E[i])
  BY <1>0, <1>1, AppendKeepsDistinct DEF GraphInv
<1>3. \A j : FreeNode(j) \in M <=> (j = id \/ FreeNode(j) \in N)
  BY DEF FreeNode
<1>4. \A i \in DOMAIN F :
        \/ \E c \in Callsites, j \in 1..(k - 1) : F[i] = AllocEdge(c, j)
        \/ \E j \in 1..(k - 1) : F[i] = FreeEdge(j) /\ FreeNode(j) \in M
  <2> TAKE i \in DOMAIN F
  <2> HIDE DEF F, M
  <2>1. CASE F[i] = e
    BY <2>1, <1>0, <1>3
  <2>2. CASE i \in DOMAIN E /\ F[i] = E[i]
    BY <2>2, <1>3 DEF GraphInv
  <2>3. QED BY <2>1, <2>2, <1>2
<1>6. \A j \in 1..(k - 1) : AllocNode(j) \in M /\ (j \in D \ {id} <=> FreeNode(j) \notin M)
  BY <1>3 DEF GraphInv
<1>7. \A j \in Nat : FreeNode(j) \in M => j \in 1..(k - 1)
  BY <1>0, <1>3 DEF GraphInv
<1>8. D \ {id} \subseteq 1..(k - 1)
  BY DEF GraphInv
<1> HIDE DEF M, F, e
<1>9. QED BY <1>2, <1>4, <1>6, <1>7, <1>8 DEF GraphInv, M, F, e

(* The counters after an allocation is granted, refused, or freed. *)
LEMMA BalanceSteps ==
  ASSUME NEW k \in Nat \ {0}, NEW ops \in Nat, NEW failed \in Nat,
         NEW freed \in Nat, NEW D, Balance(k, ops, failed, freed, D)
  PROVE  /\ k \notin D => Balance(k + 1, ops + 1, failed, freed, D \cup {k})
         /\ Balance(k, ops + 1, failed + 1, freed, D)
         /\ \A id \in D : Balance(k, ops, failed, freed + 1, D \ {id})
<1>0. IsFiniteSet(D) /\ Cardinality(D) \in Nat
  BY FS_CardinalityType DEF Balance
<1>1. ASSUME k \notin D PROVE Balance(k + 1, ops + 1, failed, freed, D \cup {k})
  <2>1. IsFiniteSet(D \cup {k}) /\ Cardinality(D \cup {k}) = Cardinality(D) + 1
    BY <1>0, <1>1, FS_AddElement
  <2>2. QED BY <2>1, <1>0 DEF Balance
<1>2. Balance(k, ops + 1, failed + 1, freed, D)
  BY <1>0 DEF Balance
<1>3. ASSUME NEW id \in D PROVE Balance(k, ops, failed, freed + 1, D \ {id})
  <2>1. IsFiniteSet(D \ {id}) /\ Cardinality(D \ {id}) = Cardinality(D) - 1
    BY <1>0, FS_RemoveElement
  <2>2. QED BY <2>1, <1>0 DEF Balance
<1>4. QED BY <1>1, <1>2, <1>3

-----------------------------------------------------------------------------
(* The invariant holds at the start. *)
LEMMA InitIInv == Init => IInv
<1> SUFFICES ASSUME Init PROVE IInv
  OBVIOUS
<1>1. live = [id \in {} |-> 0] /\ DOMAIN live = {}
  BY DEF Init
<1>2. TypeOK
  BY <1>1, U64Assumption DEF Init, TypeOK
<1>3. GraphInv(nodes, edges, next_alloc_id, DOMAIN live)
  BY <1>1 DEF Init, GraphInv
<1>4. Balance(next_alloc_id, alloc_ops, failed_alloc_count, free_count, DOMAIN live)
  BY <1>1, FS_EmptySet DEF Init, Balance
<1>5. QED BY <1>2, <1>3, <1>4 DEF IInv

(* A granted allocation, whoever asks for it. *)
LEMMA AllocOkIInv ==
  ASSUME IInv, NEW b \in Sizes, NEW cs \in Callsites, NEW pct \in FragPcts,
         AllocOk(b, cs, pct), UNCHANGED <<options, policy>>,
         phase' \in {"running", "stopped", "done"},
         status' \in {"pass", "fail", "panic"}
  PROVE  IInv'
<1> DEFINE eff == EffectiveAllocBytes(b, alloc_ops + 1, pct)
           k == next_alloc_id
<1>1. eff \in 0..MaxU64
  BY EffectiveType DEF IInv, TypeOK
<1>2. DOMAIN live' = DOMAIN live \cup {k} /\ k \notin DOMAIN live
  BY DEF AllocOk, IInv, TypeOK
<1>3. TypeOK'
  <2>1. in_use_bytes' \in 0..MaxU64 /\ peak_bytes' \in 0..MaxU64
    BY <1>1, SatArith DEF AllocOk, IInv, TypeOK
  <2>2. live' \in [DOMAIN live' -> 0..MaxU64]
    BY <1>1, <1>2 DEF AllocOk, IInv, TypeOK
  <2>3. DOMAIN live' \subseteq 1..(next_alloc_id' - 1)
    BY <1>2 DEF AllocOk, IInv, TypeOK
  <2>4. QED BY <2>1, <2>2, <2>3, SMTT(60) DEF AllocOk, IInv, TypeOK, options, policy
<1>4. GraphInv(nodes, edges, next_alloc_id, DOMAIN live)'
  BY <1>2, GraphAlloc DEF AllocOk, IInv, TypeOK, AllocEdge
<1>5. Balance(next_alloc_id, alloc_ops, failed_alloc_count, free_count, DOMAIN live)'
  BY <1>2, BalanceSteps DEF AllocOk, IInv, TypeOK
<1>6. QED BY <1>3, <1>4, <1>5 DEF IInv

(* A refused allocation, whoever asks for it. *)
LEMMA AllocFailIInv ==
  ASSUME IInv, NEW b \in Sizes, NEW pct \in FragPcts,
         AllocFail(b, pct), UNCHANGED <<options, policy>>,
         phase' \in {"running", "stopped", "done"},
         status' \in {"pass", "fail", "panic"}
  PROVE  IInv'
<1>1. TypeOK'
  BY DEF AllocFail, IInv, TypeOK, options, policy, usage, graph
<1>2. Balance(next_alloc_id, alloc_ops, failed_alloc_count, free_count, DOMAIN live)'
  BY BalanceSteps DEF AllocFail, IInv, TypeOK, usage
<1>3. QED BY <1>1, <1>2 DEF AllocFail, IInv, usage, graph

LEMMA StepFreeIInv ==
  ASSUME IInv, NEW id, StepFree(id)
  PROVE  IInv'
<1>1. DOMAIN live' = DOMAIN live \ {id} /\ id \in DOMAIN live
  BY DEF StepFree
<1>2. TypeOK'
  <2>1. live[id] \in 0..MaxU64
    BY <1>1 DEF IInv, TypeOK
  <2>2. in_use_bytes' \in 0..MaxU64
    BY <2>1, SatArith DEF StepFree, FreedBytes, IInv, TypeOK
  <2>3. live' \in [DOMAIN live' -> 0..MaxU64]
    BY <1>1 DEF StepFree, IInv, TypeOK
  <2>4. QED BY <1>1, <2>2, <2>3
            DEF StepFree, IInv, TypeOK, options, policy, verdict
<1>3. GraphInv(nodes, edges, next_alloc_id, DOMAIN live)'
  BY <1>1, GraphFree DEF StepFree, IInv, TypeOK, FreeEdge
<1>4. Balance(next_alloc_id, alloc_ops, failed_alloc_count, free_count, DOMAIN live)'
  BY <1>1, BalanceSteps DEF StepFree, IInv, TypeOK
<1>5. QED BY <1>2, <1>3, <1>4 DEF IInv

(* One fuzz input: the id handed out is freed within the same step. *)
LEMMA FuzzExecIInv ==
  ASSUME IInv, NEW b \in Sizes, NEW cs \in Callsites, NEW pct \in FragPcts,
         FuzzExec(b, cs, pct)
  PROVE  IInv'
<1> DEFINE eff == EffectiveAllocBytes(b, alloc_ops + 1, pct)
           k == next_alloc_id
           D == DOMAIN live
<1>1. CASE AllocFail(b, pct)
  <2>1. status' = "fail" /\ phase' = phase /\ UNCHANGED <<options, policy>>
    BY <1>1 DEF FuzzExec, AllocFail
  <2>2. QED BY <1>1, <2>1, AllocFailIInv DEF IInv, TypeOK
<1>2. CASE ~ AllocFail(b, pct)
  <2>1. /\ alloc_ops' = alloc_ops + 1 /\ next_alloc_id' = k + 1
        /\ free_count' = free_count + 1
        /\ in_use_bytes' = SatSub(SatAdd(in_use_bytes, eff), eff)
        /\ peak_bytes' = Larger(peak_bytes, SatAdd(in_use_bytes, eff))
        /\ nodes' = (nodes \cup {AllocNode(k), CallsiteNode(cs)}) \cup {FreeNode(k)}
        /\ edges' = Append(Append(edges, AllocEdge(cs, k)), FreeEdge(k))
        /\ UNCHANGED <<failed_alloc_count, live, verdict, options, policy>>
    BY <1>2 DEF FuzzExec, AllocEdge, FreeEdge
  <2>2. eff \in 0..MaxU64
    BY EffectiveType DEF IInv, TypeOK
  <2>3. TypeOK'
    <3>1. in_use_bytes' \in 0..MaxU64 /\ peak_bytes' \in 0..MaxU64
      BY <2>1, <2>2, SatArith DEF IInv, TypeOK
    <3>2. /\ alloc_ops' \in Nat /\ free_count' \in Nat /\ next_alloc_id' \in Nat \ {0}
          /\ DOMAIN live \subseteq 1..(next_alloc_id' - 1)
      BY <2>1 DEF IInv, TypeOK
    <3>3. UNCHANGED <<caller, phase, limit, fail_after, wave, seed, fail_on_leak,
                      leak_budget, failed_alloc_count, live, status>>
      BY <2>1 DEF options, policy, verdict
    <3>4. QED BY <3>1, <3>2, <3>3 DEF IInv, TypeOK
  <2>4. k \in Nat \ {0} /\ k \notin D /\ (D \cup {k}) \ {k} = D
    <3>1. k \in Nat \ {0} /\ D \subseteq 1..(k - 1)
      BY DEF IInv, TypeOK
    <3>2. k \notin D
      BY <3>1
    <3> HIDE DEF k, D
    <3>3. (D \cup {k}) \ {k} = D
      BY <3>2
    <3>4. QED BY <3>1, <3>2, <3>3
  <2>5. GraphInv(nodes, edges, next_alloc_id, DOMAIN live)'
    <3>1. GraphInv(nodes \cup {AllocNode(k), CallsiteNode(cs)},
                   Append(edges, AllocEdge(cs, k)), k + 1, D \cup {k})
      BY <2>4, GraphAlloc DEF IInv
    <3>2. GraphInv((nodes \cup {AllocNode(k), CallsiteNode(cs)}) \cup {FreeNode(k)},
                   Append(Append(edges, AllocEdge(cs, k)), FreeEdge(k)),
                   k + 1, (D \cup {k}) \ {k})
      BY <2>4, <3>1, GraphFree
    <3>3. QED BY <2>1, <2>4, <3>2
  <2>6. Balance(next_alloc_id, alloc_ops, failed_alloc_count, free_count, DOMAIN live)'
    <3>1. Balance(k + 1, alloc_ops + 1, failed_alloc_count, free_count, D \cup {k})
      BY <2>4, BalanceSteps DEF IInv, TypeOK
    <3>a. /\ k + 1 \in Nat \ {0} /\ alloc_ops + 1 \in Nat
          /\ failed_alloc_count \in Nat /\ free_count \in Nat /\ k \in D \cup {k}
      BY <2>4 DEF IInv, TypeOK
    <3>2. Balance(k + 1, alloc_ops + 1, failed_alloc_count, free_count + 1, (D \cup {k}) \ {k})
      BY ONLY <3>1, <3>a, BalanceSteps
    <3>3. QED BY <2>1, <2>4, <3>2
  <2>7. QED BY <2>3, <2>5, <2>6 DEF IInv
<1>3. QED BY <1>1, <1>2 DEF FuzzExec

(* Every other step leaves the accounting and the graph alone. *)
LEMMA OtherStepsIInv ==
  ASSUME IInv,
         \/ \E id \in 1..(MaxOps + 1) : StepFreeMissing(id)
         \/ StepCheckpoint
         \/ \E p \in HostPeaks : StepHostProcPeak(p)
         \/ StepSetOption
         \/ EndSteps \/ FinishScenario \/ FinishFuzz \/ FinishPanic
         \/ UNCHANGED vars
  PROVE  IInv'
<1>1. UNCHANGED <<counters, live, graph>>
  BY DEF StepFreeMissing, StepCheckpoint, StepHostProcPeak, StepSetOption, EndSteps,
         FinishScenario, FinishFuzz, FinishPanic, vars, usage
<1>2. TypeOK'
  <2>1. CASE \E p \in HostPeaks : StepHostProcPeak(p)
    <3>1. PICK p \in HostPeaks : StepHostProcPeak(p)
      BY <2>1
    <3>2. peak_bytes' \in 0..MaxU64
      BY <3>1, SatArith, BytesAssumption DEF StepHostProcPeak, IInv, TypeOK
    <3>3. QED BY <3>1, <3>2
              DEF StepHostProcPeak, IInv, TypeOK, options, policy, counters, verdict
  <2>2. CASE StepSetOption
    BY <2>2 DEF StepSetOption, IInv, TypeOK, policy, counters, usage, verdict
  <2>3. CASE \/ \E id \in 1..(MaxOps + 1) : StepFreeMissing(id)
             \/ StepCheckpoint \/ EndSteps
    BY <2>3 DEF StepFreeMissing, StepCheckpoint, EndSteps, IInv, TypeOK,
                options, policy, counters, usage, verdict
  <2>4. CASE FinishScenario \/ FinishFuzz \/ FinishPanic \/ UNCHANGED vars
    BY <2>4 DEF FinishScenario, FinishFuzz, FinishPanic, vars, IInv, TypeOK,
                options, policy, counters, usage, verdict
  <2>5. QED BY <2>1, <2>2, <2>3, <2>4
<1>3. QED BY <1>1, <1>2 DEF IInv, counters, graph

LEMMA NextIInv == IInv /\ [Next]_vars => IInv'
<1> SUFFICES ASSUME IInv, [Next]_vars PROVE IInv'
  OBVIOUS
<1>1. ASSUME NEW b \in Sizes, NEW cs \in Callsites, NEW pct \in FragPcts,
             StepAlloc(b, cs, pct)
      PROVE  IInv'
  <2>1. CASE AllocOk(b, cs, pct) /\ UNCHANGED verdict
    BY <1>1, <2>1, AllocOkIInv DEF StepAlloc, verdict, IInv, TypeOK
  <2>2. CASE AllocFail(b, pct) /\ phase' = "stopped" /\ status' = "fail"
    BY <1>1, <2>2, AllocFailIInv DEF StepAlloc
  <2>3. QED BY <1>1, <2>1, <2>2 DEF StepAlloc
<1>2. ASSUME NEW b \in Sizes, NEW cs \in Callsites, NEW pct \in FragPcts,
             FuzzExec(b, cs, pct)
      PROVE  IInv'
  BY <1>2, FuzzExecIInv
<1>3. ASSUME NEW id \in 1..(MaxOps + 1), StepFree(id)
      PROVE  IInv'
  BY <1>3, StepFreeIInv
<1>4. QED BY <1>1, <1>2, <1>3, OtherStepsIInv DEF Next

THEOREM InvariantHolds == Spec => []IInv
BY InitIInv, NextIInv, PTL DEF Spec

(* The state keeps its types: byte quantities stay within the u64, live    *)
(* ids are ids that were handed out.                                       *)
THEOREM TypeCorrect == Spec => []TypeOK
<1>1. IInv => TypeOK
  BY DEF IInv
<1>2. QED BY <1>1, InvariantHolds, PTL

(* The reported counters always balance against the live table, for every  *)
(* sequence of allocations, refusals and frees.                            *)
THEOREM CountersBalance == Spec => []AccountingBalances
<1>1. IInv => AccountingBalances
  BY DEF IInv, Balance, AccountingBalances
<1>2. QED BY <1>1, InvariantHolds, PTL

(* The allocation graph is always one validate_memory_graph_structure      *)
(* accepts, and its unfreed alloc nodes are exactly the leaks.             *)
THEOREM GraphIsLive == Spec => []GraphTracksLive
<1>1. IInv => GraphTracksLive
  <2> SUFFICES ASSUME IInv PROVE GraphTracksLive
    OBVIOUS
  <2>1. \A i \in DOMAIN edges : edges[i][1] \in nodes /\ edges[i][2] \in nodes
    BY DEF IInv, GraphInv
  <2>2. QED BY <2>1 DEF IInv, GraphInv, GraphTracksLive
<1>2. QED BY <1>1, InvariantHolds, PTL

-----------------------------------------------------------------------------
(* Sums over finite sets.  The library's induction theorems cannot be used  *)
(* here (they take an operator), so each induction is the search for a     *)
(* least counterexample.                                                   *)

(* Every non-empty set of numbers has a least element. *)
LEMMA LeastNumber ==
  ASSUME NEW T, T \subseteq Nat, T # {}
  PROVE  \E n \in T : \A m \in T : n <= m
<1> DEFINE R == OpToRel(<, Nat)
<1>1. \A a, b \in Nat : a < b => <<a, b>> \in R
  BY DEF OpToRel
<1>2. IsWellFoundedOn(R, Nat)
  BY NatLessThanWellFounded
<1> HIDE DEF R
<1>3. PICK n \in T : \A m \in T : ~ (<<m, n>> \in R)
  BY <1>2, WFMin
<1>4. \A m \in T : ~(m < n)
  BY <1>1, <1>3
<1>5. QED BY <1>4

Pick(s) == CHOOSE x \in s : TRUE

(* g adds up f over the subsets of S, one picked element after the other.  *)
Adds(g, f, S) ==
  g = [s \in SUBSET S |-> IF s = {} THEN 0 ELSE f[Pick(s)] + g[s \ {Pick(s)}]]

LEMMA PickFacts ==
  ASSUME NEW S, IsFiniteSet(S), NEW s \in SUBSET S, s # {}
  PROVE  /\ Pick(s) \in s /\ s \ {Pick(s)} \in SUBSET S
         /\ Cardinality(s) \in Nat \ {0}
         /\ Cardinality(s \ {Pick(s)}) = Cardinality(s) - 1
<1>1. Pick(s) \in s
  BY DEF Pick
<1> HIDE DEF Pick
<1>2. IsFiniteSet(s) /\ Cardinality(s) \in Nat
  BY FS_Subset, FS_CardinalityType
<1>3. Cardinality(s) # 0
  BY <1>2, FS_EmptySet
<1>4. Cardinality(s \ {Pick(s)}) = Cardinality(s) - 1
  BY <1>1, <1>2, FS_RemoveElement
<1>5. QED BY <1>1, <1>2, <1>3, <1>4

(* The sums over a finite set exist: those over its subsets of at most n   *)
(* elements do, for every n.                                               *)
LEMMA SumsExist ==
  ASSUME NEW S, IsFiniteSet(S), NEW f
  PROVE  \E g : Adds(g, f, S)
<1> DEFINE Small(n) == {s \in SUBSET S : Cardinality(s) <= n}
           Upto(g, n) == g = [s \in Small(n) |->
                                IF s = {} THEN 0 ELSE f[Pick(s)] + g[s \ {Pick(s)}]]
           bad == {n \in Nat : ~\E g : Upto(g, n)}
<1>0. \A s \in SUBSET S : Cardinality(s) \in Nat
  BY FS_Subset, FS_CardinalityType
<1>1. ASSUME NEW n \in bad, \A m \in bad : n <= m PROVE FALSE
  <2>1. n \in Nat /\ ~\E g : Upto(g, n)
    OBVIOUS
  <2>2. CASE n = 0
    <3>1. ASSUME NEW s \in Small(0) PROVE s = {}
      BY <1>0, FS_EmptySet, FS_Subset
    <3> DEFINE g == [s \in Small(0) |-> 0]
    <3>2. Upto(g, 0)
      BY <3>1
    <3>3. QED BY <2>1, <2>2, <3>2
  <2>3. CASE n # 0
    <3>1. n - 1 \in Nat /\ ~(n <= n - 1)
      BY <2>1, <2>3
    <3>a. n - 1 \notin bad
      <4> HIDE DEF bad
      <4>1. QED BY <1>1, <3>1
    <3>2. PICK g : Upto(g, n - 1)
      BY <3>1, <3>a
    <3> DEFINE h == [s \in Small(n) |-> IF s = {} THEN 0 ELSE f[Pick(s)] + g[s \ {Pick(s)}]]
    <3>3. ASSUME NEW s \in Small(n), s # {} PROVE h[s \ {Pick(s)}] = g[s \ {Pick(s)}]
      <4> DEFINE t == s \ {Pick(s)}
      <4>1. t \in Small(n - 1) /\ t \in Small(n)
        BY <1>0, <2>1, <3>3, PickFacts
      <4> HIDE DEF t, Small
      <4>2. h[t] = IF t = {} THEN 0 ELSE f[Pick(t)] + g[t \ {Pick(t)}]
        BY <4>1
      <4>3. g[t] = IF t = {} THEN 0 ELSE f[Pick(t)] + g[t \ {Pick(t)}]
        BY <3>2, <4>1
      <4>4. QED BY <4>2, <4>3 DEF t
    <3>4. Upto(h, n)
      BY <3>3
    <3>5. QED BY <2>1, <3>4
  <2>4. QED BY <2>2, <2>3
<1>2. bad = {}
  <2> SUFFICES ASSUME bad # {} PROVE FALSE
    OBVIOUS
  <2>1. bad \subseteq Nat
    OBVIOUS
  <2> HIDE DEF bad
  <2>2. QED BY <1>1, <2>1, LeastNumber
<1>3. PICK g : Upto(g, Cardinality(S))
  BY <1>0, <1>2
<1>4. Small(Cardinality(S)) = SUBSET S
  BY FS_Subset
<1>5. Adds(g, f, S)
  BY <1>3, <1>4 DEF Adds
<1>6. QED BY <1>5

(* Sums are numbers, and depend only on what is added up. *)
LEMMA SumsAgree ==
  ASSUME NEW S, IsFiniteSet(S), NEW f, NEW g, Adds(g, f, S),
         NEW S2, IsFiniteSet(S2), NEW f2, NEW g2, Adds(g2, f2, S2),
         NEW T \in SUBSET S, T \in SUBSET S2,
         \A x \in T : f[x] = f2[x] /\ f[x] \in Nat
  PROVE  g[T] = g2[T] /\ g[T] \in Nat
<1> DEFINE bad == {n \in Nat : \E s \in SUBSET T :
                                 Cardinality(s) = n /\ ~(g[s] = g2[s] /\ g[s] \in Nat)}
<1>0. \A s \in SUBSET T : s \in SUBSET S /\ s \in SUBSET S2 /\ Cardinality(s) \in Nat
  BY FS_Subset, FS_CardinalityType
<1>1. ASSUME NEW n \in bad, \A m \in bad : n <= m PROVE FALSE
  <2>1. PICK s \in SUBSET T : Cardinality(s) = n /\ ~(g[s] = g2[s] /\ g[s] \in Nat)
    OBVIOUS
  <2>2. /\ g[s] = IF s = {} THEN 0 ELSE f[Pick(s)] + g[s \ {Pick(s)}]
        /\ g2[s] = IF s = {} THEN 0 ELSE f2[Pick(s)] + g2[s \ {Pick(s)}]
    BY <1>0 DEF Adds
  <2>3. s # {}
    BY <2>1, <2>2
  <2>4. /\ Pick(s) \in T /\ s \ {Pick(s)} \in SUBSET T
        /\ n \in Nat \ {0} /\ Cardinality(s \ {Pick(s)}) = n - 1
    BY <1>0, <2>1, <2>3, PickFacts
  <2>5. n - 1 \notin bad
    BY <1>1, <2>4
  <2>6. g[s \ {Pick(s)}] = g2[s \ {Pick(s)}] /\ g[s \ {Pick(s)}] \in Nat
    BY <2>4, <2>5
  <2>7. f[Pick(s)] = f2[Pick(s)] /\ f[Pick(s)] \in Nat
    BY <2>4
  <2> HIDE DEF bad
  <2>8. QED BY <2>1, <2>2, <2>3, <2>6, <2>7
<1>2. bad = {}
  <2> SUFFICES ASSUME bad # {} PROVE FALSE
    OBVIOUS
  <2>1. bad \subseteq Nat
    OBVIOUS
  <2> HIDE DEF bad
  <2>2. QED BY <1>1, <2>1, LeastNumber
<1>3. QED BY <1>0, <1>2

(* It does not matter which element is picked first. *)
LEMMA SumOneOut ==
  ASSUME NEW S, IsFiniteSet(S), NEW f, NEW g, Adds(g, f, S),
         \A x \in S : f[x] \in Nat, NEW T \in SUBSET S, NEW x \in T
  PROVE  g[T] = f[x] + g[T \ {x}]
<1> DEFINE bad == {n \in Nat : \E s \in SUBSET S : \E y \in s :
                                 Cardinality(s) = n /\ g[s] # f[y] + g[s \ {y}]}
<1>0. /\ \A s \in SUBSET S : Cardinality(s) \in Nat /\ g[s] \in Nat
      /\ \A s \in SUBSET S : s # {} => g[s] = f[Pick(s)] + g[s \ {Pick(s)}]
  <2>1. ASSUME NEW s \in SUBSET S PROVE Cardinality(s) \in Nat
    BY FS_Subset, FS_CardinalityType
  <2>2. ASSUME NEW s \in SUBSET S PROVE g[s] \in Nat
    BY SumsAgree
  <2>3. QED BY <2>1, <2>2 DEF Adds
<1>1. ASSUME NEW n \in bad, \A m \in bad : n <= m PROVE FALSE
  <2>1. PICK s \in SUBSET S : \E y \in s : Cardinality(s) = n /\ g[s] # f[y] + g[s \ {y}]
    OBVIOUS
  <2>2. PICK y \in s : Cardinality(s) = n /\ g[s] # f[y] + g[s \ {y}]
    BY <2>1
  <2> DEFINE p == Pick(s)
  <2>3. /\ p \in s /\ s \ {p} \in SUBSET S /\ s \ {y} \in SUBSET S
        /\ n \in Nat \ {0} /\ Cardinality(s \ {p}) = n - 1
        /\ g[s] = f[p] + g[s \ {p}]
    BY <1>0, <2>2, PickFacts
  <2> HIDE DEF p
  <2>4. Cardinality(s \ {y}) = n - 1
    BY <2>2, FS_Subset, FS_RemoveElement
  <2>5. p # y
    BY <2>2, <2>3
  <2>6. \A t \in SUBSET S : Cardinality(t) = n - 1 => \A z \in t : g[t] = f[z] + g[t \ {z}]
    <3>1. n - 1 \in Nat /\ ~(n <= n - 1)
      BY <2>3
    <3>2. n - 1 \notin bad
      <4> HIDE DEF bad
      <4>1. QED BY <1>1, <3>1
    <3>3. QED BY <3>1, <3>2
  <2> HIDE DEF bad
  <2>7. g[s \ {p}] = f[y] + g[(s \ {p}) \ {y}]
    BY <2>2, <2>3, <2>5, <2>6
  <2>8. g[s \ {y}] = f[p] + g[(s \ {y}) \ {p}]
    BY <2>3, <2>4, <2>5, <2>6
  <2>9. (s \ {p}) \ {y} = (s \ {y}) \ {p} /\ (s \ {p}) \ {y} \in SUBSET S
    OBVIOUS
  <2>10. f[p] \in Nat /\ f[y] \in Nat /\ g[(s \ {p}) \ {y}] \in Nat
    BY <1>0, <2>2, <2>3, <2>9
  <2>11. f[y] + (f[p] + g[(s \ {p}) \ {y}]) = f[p] + (f[y] + g[(s \ {p}) \ {y}])
    BY <2>10
  <2>12. QED BY <2>2, <2>3, <2>7, <2>8, <2>9, <2>11
<1>2. bad = {}
  <2> SUFFICES ASSUME bad # {} PROVE FALSE
    OBVIOUS
  <2>1. bad \subseteq Nat
    OBVIOUS
  <2> HIDE DEF bad
  <2>2. QED BY <1>1, <2>1, LeastNumber
<1>3. Cardinality(T) \in Nat /\ Cardinality(T) \notin bad
  <2> HIDE DEF bad
  <2>1. QED BY <1>0, <1>2
<1>4. QED BY <1>3

-----------------------------------------------------------------------------
(* The sum of the values of a function: what finalize computes of live. *)
Bytes(f) == MapThenSumSet(LAMBDA id : f[id], DOMAIN f)

LEMMA BytesAddUp ==
  ASSUME NEW f, IsFiniteSet(DOMAIN f)
  PROVE  \E g : Adds(g, f, DOMAIN f) /\ Bytes(f) = g[DOMAIN f]
<1> DEFINE D == DOMAIN f
           Sum(g) == g = [s \in SUBSET D |->
                            IF s = {} THEN 0
                            ELSE f[CHOOSE x \in s : TRUE] + g[s \ {CHOOSE x \in s : TRUE}]]
<1>1. \A g : Adds(g, f, D) <=> Sum(g)
  BY DEF Adds, Pick
<1>2. Bytes(f) = (CHOOSE g : Sum(g))[D]
  BY DEF Bytes, MapThenSumSet, MapThenFoldSet
<1>3. \E g : Sum(g)
  <2>1. PICK g : Adds(g, f, D)
    BY SumsExist
  <2> HIDE DEF Sum, D
  <2>2. QED BY <1>1, <2>1
<1> HIDE DEF Sum
<1>4. Sum(CHOOSE g : Sum(g))
  BY <1>3
<1>5. QED BY <1>1, <1>2, <1>4

LEMMA BytesFacts ==
  ASSUME NEW f, IsFiniteSet(DOMAIN f), \A x \in DOMAIN f : f[x] \in Nat
  PROVE  /\ Bytes(f) \in Nat
         /\ DOMAIN f = {} => Bytes(f) = 0
         /\ \A id \in DOMAIN f :
              Bytes(f) = f[id] + Bytes([i \in DOMAIN f \ {id} |-> f[i]])
<1>1. PICK g : Adds(g, f, DOMAIN f) /\ Bytes(f) = g[DOMAIN f]
  BY BytesAddUp
<1>2. Bytes(f) \in Nat
  BY <1>1, SumsAgree
<1>3. DOMAIN f = {} => Bytes(f) = 0
  BY <1>1 DEF Adds
<1>4. ASSUME NEW id \in DOMAIN f
      PROVE  Bytes(f) = f[id] + Bytes([i \in DOMAIN f \ {id} |-> f[i]])
  <2> DEFINE h == [i \in DOMAIN f \ {id} |-> f[i]]
  <2>1. /\ DOMAIN h = DOMAIN f \ {id} /\ IsFiniteSet(DOMAIN h)
        /\ DOMAIN h \in SUBSET DOMAIN f
        /\ \A x \in DOMAIN h : h[x] = f[x] /\ h[x] \in Nat
    BY FS_RemoveElement
  <2> HIDE DEF h
  <2>2. PICK k : Adds(k, h, DOMAIN h) /\ Bytes(h) = k[DOMAIN h]
    BY <2>1, BytesAddUp
  <2>3. k[DOMAIN h] = g[DOMAIN h]
    BY <1>1, <2>1, <2>2, SumsAgree
  <2>4. g[DOMAIN f] = f[id] + g[DOMAIN f \ {id}]
    BY <1>1, SumOneOut
  <2>5. QED BY <1>1, <2>1, <2>2, <2>3, <2>4 DEF h
<1>5. QED BY <1>2, <1>3, <1>4

(* One allocation more. *)
LEMMA BytesOneMore ==
  ASSUME NEW f, IsFiniteSet(DOMAIN f), \A x \in DOMAIN f : f[x] \in Nat,
         NEW id, id \notin DOMAIN f, NEW eff \in Nat
  PROVE  Bytes([i \in DOMAIN f \cup {id} |-> IF i = id THEN eff ELSE f[i]]) = Bytes(f) + eff
<1> DEFINE h == [i \in DOMAIN f \cup {id} |-> IF i = id THEN eff ELSE f[i]]
<1>1. /\ DOMAIN h = DOMAIN f \cup {id} /\ IsFiniteSet(DOMAIN h)
      /\ h[id] = eff /\ \A x \in DOMAIN h : h[x] \in Nat
  BY FS_AddElement
<1>2. DOMAIN h \ {id} = DOMAIN f /\ \A x \in DOMAIN f : h[x] = f[x]
  <2>1. DOMAIN h \ {id} = DOMAIN f
    BY <1>1
  <2>2. \A x \in DOMAIN f : h[x] = f[x]
    OBVIOUS
  <2>3. QED BY <2>1, <2>2
<1> HIDE DEF h
<1>3. Bytes(h) = h[id] + Bytes([i \in DOMAIN h \ {id} |-> h[i]])
  BY <1>1, BytesFacts
<1>4. Bytes([i \in DOMAIN f |-> h[i]]) = Bytes(f)
  <2> DEFINE k == [i \in DOMAIN f |-> h[i]]
  <2>1. DOMAIN k = DOMAIN f /\ \A x \in DOMAIN f : k[x] = f[x]
    BY <1>2
  <2> HIDE DEF k
  <2>2. PICK a : Adds(a, k, DOMAIN k) /\ Bytes(k) = a[DOMAIN k]
    BY <2>1, BytesAddUp
  <2>3. PICK b : Adds(b, f, DOMAIN f) /\ Bytes(f) = b[DOMAIN f]
    BY BytesAddUp
  <2>4. a[DOMAIN f] = b[DOMAIN f]
    BY <2>1, <2>2, <2>3, SumsAgree
  <2>5. Bytes(k) = Bytes(f)
    BY <2>1, <2>2, <2>3, <2>4
  <2>6. QED BY <2>5 DEF k
<1>5. Bytes(f) \in Nat
  BY BytesFacts
<1>6. QED BY <1>1, <1>2, <1>3, <1>4, <1>5 DEF h

-----------------------------------------------------------------------------
(* The running counter against the sum of what is live.  A fuzz run keeps   *)
(* nothing live between two inputs.                                        *)
AccountedInv == MemoryIsAccounted /\ (caller = "fuzz" => DOMAIN live = {})

LEMMA LiveBytesFacts ==
  ASSUME IInv
  PROVE  /\ IsFiniteSet(DOMAIN live) /\ \A id \in DOMAIN live : live[id] \in Nat
         /\ LiveBytes = Bytes(live) /\ LiveBytes \in Nat
         /\ DOMAIN live = {} => LiveBytes = 0
<1>1. IsFiniteSet(DOMAIN live) /\ \A id \in DOMAIN live : live[id] \in Nat
  BY U64Assumption DEF IInv, Balance, TypeOK
<1>2. LiveBytes = Bytes(live)
  BY DEF LiveBytes, Bytes
<1>3. QED BY <1>1, <1>2, BytesFacts

LEMMA PrimedLiveBytes == LiveBytes' = Bytes(live')
BY DEF LiveBytes, Bytes, MapThenSumSet, MapThenFoldSet

LEMMA LiveBytesStable == UNCHANGED live => LiveBytes' = LiveBytes
<1>1. LiveBytes = Bytes(live)
  BY DEF LiveBytes, Bytes
<1>2. QED BY <1>1, PrimedLiveBytes

(* A counter that did not reach the ceiling was not cut off by it. *)
LEMMA NotSaturated ==
  ASSUME NEW a \in 0..MaxU64, NEW b \in 0..MaxU64, NEW peak \in 0..MaxU64,
         Larger(peak, SatAdd(a, b)) < MaxU64
  PROVE  SatAdd(a, b) = a + b /\ peak < MaxU64
BY U64Assumption DEF SatAdd, Larger

LEMMA InitAccounted == Init => AccountedInv
<1> SUFFICES ASSUME Init PROVE AccountedInv
  OBVIOUS
<1>1. DOMAIN live = {} /\ in_use_bytes = 0 /\ phase = "running"
  BY DEF Init
<1>2. LiveBytes = 0
  BY <1>1, InitIInv, LiveBytesFacts
<1>3. QED BY <1>1, <1>2 DEF AccountedInv, MemoryIsAccounted, InUseIsLiveSum, PassIsWithinPolicy

LEMMA AllocAccounted ==
  ASSUME IInv, AccountedInv, NEW b \in Sizes, NEW cs \in Callsites, NEW pct \in FragPcts,
         StepAlloc(b, cs, pct), AllocOk(b, cs, pct), UNCHANGED verdict
  PROVE  AccountedInv'
<1> DEFINE eff == EffectiveAllocBytes(b, alloc_ops + 1, pct)
           id == next_alloc_id
<1>1. eff \in 0..MaxU64 /\ eff \in Nat
  BY EffectiveType, U64Assumption DEF IInv, TypeOK
<1>2. /\ in_use_bytes' = SatAdd(in_use_bytes, eff)
      /\ peak_bytes' = Larger(peak_bytes, SatAdd(in_use_bytes, eff))
      /\ live' = [i \in DOMAIN live \cup {id} |-> IF i = id THEN eff ELSE live[i]]
  BY DEF AllocOk
<1>3. id \notin DOMAIN live
  BY DEF IInv, TypeOK
<1> HIDE DEF eff, id
<1>4. LiveBytes' = LiveBytes + eff
  <2>1. Bytes([i \in DOMAIN live \cup {id} |-> IF i = id THEN eff ELSE live[i]])
          = Bytes(live) + eff
    BY <1>1, <1>3, LiveBytesFacts, BytesOneMore, ZenonT(60)
  <2>2. QED BY <1>2, <2>1, LiveBytesFacts, PrimedLiveBytes
<1>5. in_use_bytes \in 0..MaxU64 /\ peak_bytes \in 0..MaxU64
  BY DEF IInv, TypeOK
<1>6. ASSUME peak_bytes' < MaxU64 PROVE in_use_bytes' = LiveBytes'
  <2>1. in_use_bytes' = in_use_bytes + eff /\ peak_bytes < MaxU64
    BY <1>1, <1>2, <1>5, <1>6, NotSaturated
  <2>2. in_use_bytes = LiveBytes
    BY <2>1 DEF AccountedInv, MemoryIsAccounted, InUseIsLiveSum
  <2>3. QED BY <1>4, <2>1, <2>2
<1>7. caller' = "scenario" /\ phase' = "running"
  BY DEF StepAlloc, Busy, policy, verdict
<1>8. QED
  BY <1>6, <1>7 DEF AccountedInv, MemoryIsAccounted, InUseIsLiveSum, PassIsWithinPolicy

LEMMA FreeAccounted ==
  ASSUME IInv, AccountedInv, NEW id, StepFree(id)
  PROVE  AccountedInv'
<1>1. /\ id \in DOMAIN live /\ live' = [i \in DOMAIN live \ {id} |-> live[i]]
      /\ in_use_bytes' = SatSub(in_use_bytes, live[id])
      /\ peak_bytes' = peak_bytes /\ caller' = "scenario" /\ phase' = "running"
  BY DEF StepFree, Busy, FreedBytes, policy, verdict
<1>2. LiveBytes = live[id] + LiveBytes' /\ LiveBytes' \in Nat /\ live[id] \in Nat
  <2>1. Bytes(live) = live[id] + Bytes(live') /\ live[id] \in Nat
    BY <1>1, LiveBytesFacts, BytesFacts
  <2>2. IsFiniteSet(DOMAIN live') /\ \A i \in DOMAIN live' : live'[i] \in Nat
    BY <1>1, LiveBytesFacts, FS_RemoveElement
  <2>3. Bytes(live') \in Nat
    BY <2>2, BytesFacts
  <2>4. QED BY <2>1, <2>3, LiveBytesFacts, PrimedLiveBytes
<1>3. ASSUME peak_bytes' < MaxU64 PROVE in_use_bytes' = LiveBytes'
  <2>1. in_use_bytes = LiveBytes
    BY <1>1, <1>3 DEF AccountedInv, MemoryIsAccounted, InUseIsLiveSum
  <2>2. QED BY <1>1, <1>2, <2>1 DEF SatSub
<1>4. QED
  BY <1>1, <1>3 DEF AccountedInv, MemoryIsAccounted, InUseIsLiveSum, PassIsWithinPolicy

(* The bytes of a fuzz input are added and taken off in one step. *)
LEMMA FuzzAccounted ==
  ASSUME IInv, AccountedInv, NEW b \in Sizes, NEW cs \in Callsites, NEW pct \in FragPcts,
         FuzzExec(b, cs, pct)
  PROVE  AccountedInv'
<1> DEFINE eff == EffectiveAllocBytes(b, alloc_ops + 1, pct)
<1>1. /\ eff \in 0..MaxU64 /\ MaxU64 \in Nat
      /\ in_use_bytes \in 0..MaxU64 /\ peak_bytes \in 0..MaxU64
  BY EffectiveType, U64Assumption DEF IInv, TypeOK
<1>2. phase' = "running" /\ UNCHANGED <<live, caller>>
  BY DEF FuzzExec, AllocFail, Busy, policy, usage, verdict
<1>3. LiveBytes' = LiveBytes
  BY <1>2, LiveBytesStable
<1>4. \/ UNCHANGED <<in_use_bytes, peak_bytes>>
      \/ /\ in_use_bytes' = SatSub(SatAdd(in_use_bytes, eff), eff)
         /\ peak_bytes' = Larger(peak_bytes, SatAdd(in_use_bytes, eff))
  BY DEF FuzzExec, AllocFail, usage
<1> HIDE DEF eff
<1>5. ASSUME peak_bytes' < MaxU64 PROVE in_use_bytes' = in_use_bytes /\ peak_bytes < MaxU64
  <2>1. CASE UNCHANGED <<in_use_bytes, peak_bytes>>
    BY <1>5, <2>1
  <2>2. CASE /\ in_use_bytes' = SatSub(SatAdd(in_use_bytes, eff), eff)
             /\ peak_bytes' = Larger(peak_bytes, SatAdd(in_use_bytes, eff))
    <3>1. SatAdd(in_use_bytes, eff) = in_use_bytes + eff /\ peak_bytes < MaxU64
      BY <1>1, <1>5, <2>2, NotSaturated
    <3>2. SatSub(in_use_bytes + eff, eff) = in_use_bytes
      BY <1>1 DEF SatSub
    <3>3. QED BY <2>2, <3>1, <3>2
  <2>3. QED BY <1>4, <2>1, <2>2
<1>6. QED
  BY <1>2, <1>3, <1>5 DEF AccountedInv, MemoryIsAccounted, InUseIsLiveSum, PassIsWithinPolicy

(* A scenario that passes has its leaks, as finalize sums them, within the *)
(* policy; a fuzz run has none.                                            *)
LEMMA FinishAccounted ==
  ASSUME IInv, AccountedInv, FinishScenario \/ FinishFuzz \/ FinishPanic
  PROVE  AccountedInv'
<1>1. UNCHANGED <<in_use_bytes, peak_bytes, live, caller, fail_on_leak, leak_budget>>
      /\ phase' = "done"
  BY DEF FinishScenario, FinishFuzz, FinishPanic, usage, policy
<1>2. LiveBytes' = LiveBytes /\ LiveBytes \in Nat
  BY <1>1, LiveBytesFacts, LiveBytesStable
<1>3. InUseIsLiveSum' /\ (caller' = "fuzz" => DOMAIN live' = {})
  BY <1>1, <1>2 DEF AccountedInv, MemoryIsAccounted, InUseIsLiveSum
<1>4. ASSUME status' = "pass", peak_bytes < MaxU64
      PROVE  \/ in_use_bytes = 0
             \/ ~fail_on_leak /\ leak_budget # None /\ in_use_bytes <= leak_budget
  <2>1. in_use_bytes = LiveBytes /\ in_use_bytes \in 0..MaxU64 /\ MaxU64 \in Nat
    BY <1>4, U64Assumption DEF AccountedInv, MemoryIsAccounted, InUseIsLiveSum, IInv, TypeOK
  <2>2. CASE FinishScenario
    <3>1. LeakAllowedByPolicy
      BY <1>4, <2>2 DEF FinishScenario
    <3>2. LeakedBytes = in_use_bytes
      BY <2>1 DEF LeakedBytes
    <3>3. QED BY <3>1, <3>2 DEF LeakAllowedByPolicy
  <2>3. CASE FinishFuzz
    <3>1. LiveBytes = 0
      BY <2>3, LiveBytesFacts DEF FinishFuzz, AccountedInv
    <3>2. QED BY <2>1, <3>1
  <2>4. CASE FinishPanic
    BY <1>4, <2>4 DEF FinishPanic
  <2>5. QED BY <2>2, <2>3, <2>4
<1>5. PassIsWithinPolicy'
  BY <1>1, <1>4 DEF PassIsWithinPolicy
<1>6. QED BY <1>3, <1>5 DEF AccountedInv, MemoryIsAccounted

LEMMA NextAccounted == IInv /\ AccountedInv /\ [Next]_vars => AccountedInv'
<1> SUFFICES ASSUME IInv, AccountedInv, [Next]_vars PROVE AccountedInv'
  OBVIOUS
<1>1. ASSUME UNCHANGED <<in_use_bytes, live, caller, fail_on_leak, leak_budget>>,
             peak_bytes' = peak_bytes \/ \E p \in HostPeaks : peak_bytes' = Larger(peak_bytes, p),
             phase' # "done" \/ UNCHANGED <<peak_bytes, phase, status>>
      PROVE  AccountedInv'
  <2>1. LiveBytes' = LiveBytes
    BY <1>1, LiveBytesStable
  <2>2. peak_bytes' < MaxU64 => peak_bytes < MaxU64
    BY <1>1, BytesAssumption, U64Assumption DEF Larger, IInv, TypeOK
  <2>3. QED
    BY <1>1, <2>1, <2>2 DEF AccountedInv, MemoryIsAccounted, InUseIsLiveSum, PassIsWithinPolicy
<1>2. ASSUME NEW b \in Sizes, NEW cs \in Callsites, NEW pct \in FragPcts,
             StepAlloc(b, cs, pct)
      PROVE  AccountedInv'
  <2>1. CASE AllocOk(b, cs, pct) /\ UNCHANGED verdict
    BY <1>2, <2>1, AllocAccounted
  <2>2. CASE AllocFail(b, pct) /\ phase' = "stopped"
    BY <1>1, <1>2, <2>2 DEF AllocFail, StepAlloc, policy, usage
  <2>3. QED BY <1>2, <2>1, <2>2 DEF StepAlloc
<1>3. ASSUME \/ \E id \in 1..(MaxOps + 1) : StepFreeMissing(id)
             \/ StepCheckpoint \/ (\E p \in HostPeaks : StepHostProcPeak(p))
             \/ StepSetOption \/ EndSteps \/ UNCHANGED vars
      PROVE  AccountedInv'
  <2>1. UNCHANGED <<in_use_bytes, live, caller, fail_on_leak, leak_budget>>
    BY <1>3 DEF StepFreeMissing, StepCheckpoint, StepHostProcPeak, StepSetOption, EndSteps,
                vars, usage, policy
  <2>2. peak_bytes' = peak_bytes \/ \E p \in HostPeaks : peak_bytes' = Larger(peak_bytes, p)
    BY <1>3 DEF StepFreeMissing, StepCheckpoint, StepHostProcPeak, StepSetOption, EndSteps,
                vars, usage
  <2>3. phase' # "done" \/ UNCHANGED <<peak_bytes, phase, status>>
    BY <1>3 DEF StepFreeMissing, StepCheckpoint, StepHostProcPeak, StepSetOption, EndSteps,
                Busy, vars, usage, verdict
  <2>4. QED BY <1>1, <2>1, <2>2, <2>3
<1>4. QED BY <1>2, <1>3, FreeAccounted, FuzzAccounted, FinishAccounted DEF Next

(* The counter memorycap.rs keeps is the sum of the live allocations as    *)
(* long as no sum saturated, and ExecCtx::finish passes a run only within  *)
(* the leak policy, whatever limits, waves, seeds and sizes are in use.    *)
THEOREM MemoryAccounted == Spec => []MemoryIsAccounted
<1>1. Init => IInv /\ AccountedInv
  BY InitIInv, InitAccounted
<1>2. (IInv /\ AccountedInv) /\ [Next]_vars => (IInv /\ AccountedInv)'
  BY NextIInv, NextAccounted
<1>3. AccountedInv => MemoryIsAccounted
  BY DEF AccountedInv
<1>4. QED BY <1>1, <1>2, <1>3, PTL DEF Spec

-----------------------------------------------------------------------------
(* Sums: the sum of a function is the only thing that adds up as it does.  *)

(* Sums of parts.  What has the value of a sum on every subset is the sum.  *)
LEMMA BytesUnique ==
  ASSUME NEW f, IsFiniteSet(DOMAIN f), \A x \in DOMAIN f : f[x] \in Nat,
         NEW G, G = [s \in SUBSET (DOMAIN f) |-> G[s]], G[{}] = 0,
         \A s \in SUBSET (DOMAIN f) : \A x \in s : G[s] = f[x] + G[s \ {x}]
  PROVE  G[DOMAIN f] = Bytes(f)
<1> DEFINE D == DOMAIN f
<1>1. ASSUME NEW s \in SUBSET D
      PROVE  G[s] = IF s = {} THEN 0 ELSE f[Pick(s)] + G[s \ {Pick(s)}]
  <2>1. CASE s = {}
    BY <2>1
  <2>2. CASE s # {}
    <3>1. Pick(s) \in s
      BY <2>2, PickFacts
    <3> QED BY <2>2, <3>1
  <2> QED BY <2>1, <2>2
<1>2. Adds(G, f, D)
  <2> DEFINE H == [s \in SUBSET D |-> IF s = {} THEN 0 ELSE f[Pick(s)] + G[s \ {Pick(s)}]]
  <2>1. H = [s \in SUBSET D |-> G[s]]
    BY <1>1
  <2>2. G = H
    BY <2>1
  <2> QED BY <2>2 DEF Adds
<1>3. PICK g : Adds(g, f, D) /\ Bytes(f) = g[D]
  BY BytesAddUp
<1> QED BY <1>2, <1>3, SumsAgree

(* BytesOf, which sums a field of what is indexed, is such a sum.          *)
LEMMA BytesOfIs ==
  ASSUME NEW a, NEW S, IsFiniteSet(S), \A i \in S : a[i].bytes \in Nat
  PROVE  BytesOf(a, S) = Bytes([i \in S |-> a[i].bytes])
<1> DEFINE f == [i \in S |-> a[i].bytes]
           Sum(g) == g = [s \in SUBSET S |->
                            IF s = {} THEN 0
                            ELSE a[CHOOSE x \in s : TRUE].bytes + g[s \ {CHOOSE x \in s : TRUE}]]
<1>1. DOMAIN f = S /\ \A i \in S : f[i] = a[i].bytes
  OBVIOUS
<1>2. ASSUME NEW g PROVE Adds(g, f, S) <=> Sum(g)
  <2>1. \A s \in SUBSET S : s # {} => f[Pick(s)] = a[Pick(s)].bytes
    BY <1>1, PickFacts
  <2> HIDE DEF f
  <2> QED BY <2>1 DEF Adds, Pick
<1>3. BytesOf(a, S) = (CHOOSE w : Sum(w))[S]
  BY DEF BytesOf, MapThenSumSet, MapThenFoldSet
<1>4. DOMAIN f = S /\ \A i \in S : f[i] \in Nat
  BY <1>1
<1> HIDE DEF f
<1>5. PICK g : Adds(g, f, S) /\ Bytes(f) = g[S]
  BY <1>4, BytesAddUp
<1> HIDE DEF Sum
<1>6. Sum(CHOOSE w : Sum(w))
  BY <1>2, <1>5
<1> DEFINE k == CHOOSE w : Sum(w)
<1>7. Adds(k, f, S) /\ BytesOf(a, S) = k[S]
  BY <1>2, <1>3, <1>6
<1> HIDE DEF k
<1>8. S \in SUBSET S /\ k[S] = g[S]
  BY <1>4, <1>5, <1>7, SumsAgree
<1> QED BY <1>5, <1>7, <1>8 DEF f

LEMMA ZerosAddUp ==
  ASSUME NEW S, IsFiniteSet(S)
  PROVE  Bytes([i \in S |-> 0]) = 0
<1> DEFINE f == [i \in S |-> 0]
           G == [s \in SUBSET S |-> 0]
<1>1. DOMAIN f = S /\ \A i \in S : f[i] = 0
  OBVIOUS
<1>2. G = [s \in SUBSET S |-> G[s]] /\ G[{}] = 0 /\ G[S] = 0
  OBVIOUS
<1>3. \A s \in SUBSET S : \A x \in s : G[s] = f[x] + G[s \ {x}]
  OBVIOUS
<1> HIDE DEF f, G
<1> QED BY <1>1, <1>2, <1>3, BytesUnique DEF f

(* Ones add up to how many there are.                                      *)
LEMMA OnesAddUp ==
  ASSUME NEW S, IsFiniteSet(S)
  PROVE  Bytes([i \in S |-> 1]) = Cardinality(S)
<1> DEFINE f == [i \in S |-> 1]
           G == [s \in SUBSET S |-> Cardinality(s)]
<1>1. DOMAIN f = S /\ \A i \in S : f[i] = 1
  OBVIOUS
<1>2. G = [s \in SUBSET S |-> G[s]] /\ G[{}] = 0 /\ G[S] = Cardinality(S)
  BY FS_EmptySet
<1>3. ASSUME NEW s \in SUBSET S, NEW x \in s PROVE G[s] = f[x] + G[s \ {x}]
  <2>1. IsFiniteSet(s) /\ Cardinality(s) \in Nat /\ s \ {x} \in SUBSET S
    BY FS_Subset, FS_CardinalityType
  <2>2. Cardinality(s \ {x}) = Cardinality(s) - 1
    BY <2>1, FS_RemoveElement
  <2> QED BY <1>1, <2>1, <2>2
<1> HIDE DEF f, G
<1> QED BY <1>1, <1>2, <1>3, BytesUnique DEF f

(* The sum over a part. *)
Over(f, s) == Bytes([i \in s |-> f[i]])

LEMMA OverFacts ==
  ASSUME NEW f, NEW S, IsFiniteSet(S), \A x \in S : f[x] \in Nat, NEW s \in SUBSET S
  PROVE  /\ Over(f, s) \in Nat /\ IsFiniteSet(s)
         /\ s = {} => Over(f, s) = 0
         /\ \A x \in s : Over(f, s) = f[x] + Over(f, s \ {x})
<1> DEFINE h == [i \in s |-> f[i]]
<1>1. IsFiniteSet(s) /\ DOMAIN h = s /\ \A x \in s : h[x] = f[x] /\ h[x] \in Nat
  BY FS_Subset
<1>2. \A x \in s : [i \in s \ {x} |-> h[i]] = [i \in s \ {x} |-> f[i]]
  OBVIOUS
<1> HIDE DEF h
<1>3. /\ Bytes(h) \in Nat /\ (s = {} => Bytes(h) = 0)
      /\ \A x \in s : Bytes(h) = h[x] + Bytes([i \in s \ {x} |-> h[i]])
  BY <1>1, BytesFacts
<1>4. Over(f, s) = Bytes(h)
  BY DEF Over, h
<1> QED BY <1>1, <1>2, <1>3, <1>4 DEF Over

(* The sum of two terms each is the sum of the two sums.                   *)
LEMMA SumOfSums ==
  ASSUME NEW S, IsFiniteSet(S), NEW f, NEW g, \A x \in S : f[x] \in Nat /\ g[x] \in Nat
  PROVE  Bytes([i \in S |-> f[i] + g[i]]) = Over(f, S) + Over(g, S)
<1> DEFINE h == [i \in S |-> f[i] + g[i]]
           G == [s \in SUBSET S |-> Over(f, s) + Over(g, s)]
<1>1. DOMAIN h = S /\ \A i \in S : h[i] = f[i] + g[i] /\ h[i] \in Nat
  OBVIOUS
<1>2. G[{}] = 0
  <2>1. {} \in SUBSET S /\ Over(f, {}) = 0 /\ Over(g, {}) = 0
    BY OverFacts
  <2> QED BY <2>1
<1>3. G = [s \in SUBSET S |-> G[s]] /\ G[S] = Over(f, S) + Over(g, S)
  OBVIOUS
<1>4. ASSUME NEW s \in SUBSET S, NEW x \in s PROVE G[s] = h[x] + G[s \ {x}]
  <2>1. s \ {x} \in SUBSET S
    OBVIOUS
  <2>2. Over(f, s) = f[x] + Over(f, s \ {x}) /\ Over(g, s) = g[x] + Over(g, s \ {x})
    BY OverFacts
  <2>3. Over(f, s \ {x}) \in Nat /\ Over(g, s \ {x}) \in Nat /\ f[x] \in Nat /\ g[x] \in Nat
    BY <2>1, OverFacts
  <2>4. G[s] = Over(f, s) + Over(g, s) /\ G[s \ {x}] = Over(f, s \ {x}) + Over(g, s \ {x})
    BY <2>1
  <2> QED BY <1>1, <2>2, <2>3, <2>4
<1> HIDE DEF h, G
<1> QED BY <1>1, <1>2, <1>3, <1>4, BytesUnique DEF h

(* One term changed. *)
LEMMA OneMoreIn ==
  ASSUME NEW C, IsFiniteSet(C), NEW p, NEW q, \A x \in C : p[x] \in Nat /\ q[x] \in Nat,
         NEW d \in Nat, NEW a \in C, p[a] = d + q[a], \A x \in C \ {a} : p[x] = q[x]
  PROVE  Over(p, C) = d + Over(q, C)
<1>1. Over(p, C) = p[a] + Over(p, C \ {a}) /\ Over(q, C) = q[a] + Over(q, C \ {a})
  BY OverFacts
<1>2. Over(p, C \ {a}) = Over(q, C \ {a})
  <2>1. [i \in C \ {a} |-> p[i]] = [i \in C \ {a} |-> q[i]]
    OBVIOUS
  <2> QED BY <2>1 DEF Over
<1>3. Over(q, C \ {a}) \in Nat
  <2>1. C \ {a} \in SUBSET C
    OBVIOUS
  <2> QED BY <2>1, OverFacts
<1> QED BY <1>1, <1>2, <1>3

(* A sum is the sum of the sums over the parts of a partition. *)
LEMMA PartsAddUp ==
  ASSUME NEW S, IsFiniteSet(S), NEW C, IsFiniteSet(C), NEW f, \A x \in S : f[x] \in Nat,
         NEW part, \A x \in S : part[x] \in C
  PROVE  Bytes([c \in C |-> Over(f, {x \in S : part[x] = c})]) = Over(f, S)
<1> DEFINE In(s, c) == {x \in s : part[x] = c}
           P(s) == [c \in C |-> Over(f, In(s, c))]
           G == [s \in SUBSET S |-> Over(P(s), C)]
           h == [i \in S |-> f[i]]
<1>1. \A s \in SUBSET S : \A c \in C : P(s)[c] = Over(f, In(s, c)) /\ In(s, c) \in SUBSET S
                                       /\ P(s)[c] \in Nat
  <2> SUFFICES ASSUME NEW s \in SUBSET S, NEW c \in C
               PROVE  In(s, c) \in SUBSET S /\ Over(f, In(s, c)) \in Nat
    OBVIOUS
  <2>1. In(s, c) \in SUBSET S
    OBVIOUS
  <2> HIDE DEF In
  <2> QED BY <2>1, OverFacts
<1>2. G[{}] = 0
  <2>1. \A c \in C : P({})[c] = 0
    <3> SUFFICES ASSUME NEW c \in C PROVE Over(f, In({}, c)) = 0
      OBVIOUS
    <3>1. In({}, c) = {} /\ {} \in SUBSET S
      OBVIOUS
    <3> HIDE DEF In
    <3> QED BY <3>1, OverFacts
  <2>2. [c \in C |-> P({})[c]] = [c \in C |-> 0]
    BY <2>1
  <2>3. Over(P({}), C) = 0
    BY <2>2, ZerosAddUp DEF Over
  <2> QED BY <2>3
<1>3. ASSUME NEW s \in SUBSET S, NEW x \in s PROVE G[s] = h[x] + G[s \ {x}]
  <2> DEFINE t == s \ {x}
             a == part[x]
  <2>1. t \in SUBSET S /\ x \in S /\ a \in C /\ f[x] \in Nat
    OBVIOUS
  <2>2. P(s)[a] = f[x] + P(t)[a]
    <3>1. In(s, a) \in SUBSET S /\ x \in In(s, a) /\ In(s, a) \ {x} = In(t, a)
      OBVIOUS
    <3>2. Over(f, In(s, a)) = f[x] + Over(f, In(s, a) \ {x})
      <4> HIDE DEF In, a
      <4> QED BY <3>1, OverFacts
    <3> QED BY <1>1, <2>1, <3>1, <3>2
  <2>3. \A c \in C \ {a} : P(s)[c] = P(t)[c]
    <3> SUFFICES ASSUME NEW c \in C \ {a} PROVE P(s)[c] = P(t)[c]
      OBVIOUS
    <3>1. In(s, c) = In(t, c)
      OBVIOUS
    <3> QED BY <1>1, <2>1, <3>1
  <2>4. \A c \in C : P(s)[c] \in Nat /\ P(t)[c] \in Nat
    BY <1>1, <2>1
  <2> HIDE DEF P, t, a
  <2>5. Over(P(s), C) = f[x] + Over(P(t), C)
    BY <2>1, <2>2, <2>3, <2>4, OneMoreIn
  <2>6. G[s] = Over(P(s), C) /\ G[t] = Over(P(t), C) /\ h[x] = f[x]
    BY <2>1
  <2> QED BY <2>5, <2>6 DEF t
<1>4. G = [s \in SUBSET S |-> G[s]] /\ G[S] = Over(P(S), C)
  OBVIOUS
<1>5. DOMAIN h = S /\ \A x \in S : h[x] \in Nat
  OBVIOUS
<1>6. Over(P(S), C) = Bytes([c \in C |-> Over(f, {x \in S : part[x] = c})])
  <2>1. [c \in C |-> P(S)[c]] = [c \in C |-> Over(f, {x \in S : part[x] = c})]
    BY <1>1
  <2> QED BY <2>1 DEF Over
<1>7. Over(f, S) = Bytes(h)
  BY DEF Over
<1> HIDE DEF G, h, P
<1>8. G[S] = Bytes(h)
  BY <1>2, <1>3, <1>4, <1>5, BytesUnique
<1> QED BY <1>4, <1>6, <1>7, <1>8

-----------------------------------------------------------------------------
(* A book is kept by reading a timeline from its first event to its last.  *)

(* A set of numbers that has a bound has a greatest.                       *)
LEMMA GreatestIn ==
  ASSUME NEW n \in Nat, NEW s \in SUBSET (1..n), s # {}
  PROVE  Max(s) \in s /\ \A x \in s : Max(s) >= x
<1> DEFINE T == {n - x : x \in s}
<1>1. T \subseteq Nat /\ T # {}
  <2>1. \A x \in s : n - x \in Nat
    OBVIOUS
  <2> QED BY <2>1
<1>2. PICK m \in T : \A k \in T : m <= k
  BY <1>1, LeastNumber
<1>3. PICK y \in s : m = n - y
  BY <1>2
<1>4. \A x \in s : y >= x
  <2> SUFFICES ASSUME NEW x \in s PROVE y >= x
    OBVIOUS
  <2>1. n - y <= n - x /\ x \in Nat /\ y \in Nat
    BY <1>2, <1>3
  <2> QED BY <2>1
<1> QED BY <1>3, <1>4 DEF Max

Nothing == [live |-> <<>>, done |-> <<>>]
(* b is the book after each set of events, the greatest read last.         *)
Reads(b, tl, n) ==
  b = [s \in SUBSET (1..n) |->
         IF s = {} THEN Nothing ELSE BookAfter(b[s \ {Max(s)}], tl[Max(s)])]

(* There is a reading: of sets of at most n events, for every n.           *)
LEMMA ReadingsExist ==
  ASSUME NEW N \in Nat, NEW tl
  PROVE  \E b : Reads(b, tl, N)
<1> DEFINE S == 1..N
           Small(n) == {s \in SUBSET S : Cardinality(s) <= n}
           Less(s) == s \ {Max(s)}
           Upto(b, n) == b = [s \in Small(n) |->
                                IF s = {} THEN Nothing ELSE BookAfter(b[Less(s)], tl[Max(s)])]
           bad == {n \in Nat : ~\E b : Upto(b, n)}
<1>0. /\ IsFiniteSet(S)
      /\ \A s \in SUBSET S : IsFiniteSet(s) /\ Cardinality(s) \in Nat
  <2>1. IsFiniteSet(S)
    BY FS_Interval
  <2> QED BY <2>1, FS_Subset, FS_CardinalityType
<1>1. \A s \in SUBSET S : s # {} => /\ Less(s) \in SUBSET S
                                    /\ Cardinality(Less(s)) = Cardinality(s) - 1
  <2> SUFFICES ASSUME NEW s \in SUBSET S, s # {}
               PROVE  Less(s) \in SUBSET S /\ Cardinality(Less(s)) = Cardinality(s) - 1
    OBVIOUS
  <2>1. Max(s) \in s
    BY GreatestIn
  <2> QED BY <1>0, <2>1, FS_RemoveElement
<1> HIDE DEF Less, S
<1>2. ASSUME NEW n \in bad, \A m \in bad : n <= m PROVE FALSE
  <2>1. n \in Nat /\ ~\E b : Upto(b, n)
    OBVIOUS
  <2>2. CASE n = 0
    <3>1. ASSUME NEW s \in Small(0) PROVE s = {}
      BY <1>0, FS_EmptySet
    <3> DEFINE b == [s \in Small(0) |-> Nothing]
    <3>2. Upto(b, 0)
      BY <3>1
    <3> QED BY <2>1, <2>2, <3>2
  <2>3. CASE n # 0
    <3>1. n - 1 \in Nat /\ ~(n <= n - 1)
      BY <2>1, <2>3
    <3>2. n - 1 \notin bad
      <4> HIDE DEF bad
      <4> QED BY <1>2, <3>1
    <3>3. PICK b : Upto(b, n - 1)
      BY <3>1, <3>2
    <3> DEFINE h == [s \in Small(n) |-> IF s = {} THEN Nothing ELSE BookAfter(b[Less(s)], tl[Max(s)])]
    <3>4. ASSUME NEW s \in Small(n), s # {} PROVE h[Less(s)] = b[Less(s)]
      <4> DEFINE t == Less(s)
      <4>1. t \in Small(n - 1) /\ t \in Small(n)
        BY <1>0, <1>1, <2>1, <3>4
      <4> HIDE DEF t, Small
      <4>2. h[t] = IF t = {} THEN Nothing ELSE BookAfter(b[Less(t)], tl[Max(t)])
        BY <4>1
      <4>3. b[t] = IF t = {} THEN Nothing ELSE BookAfter(b[Less(t)], tl[Max(t)])
        BY <3>3, <4>1
      <4> QED BY <4>2, <4>3 DEF t
    <3>5. Upto(h, n)
      BY <3>4
    <3> QED BY <2>1, <3>5
  <2> QED BY <2>2, <2>3
<1>3. bad = {}
  <2> SUFFICES ASSUME bad # {} PROVE FALSE
    OBVIOUS
  <2>1. bad \subseteq Nat
    OBVIOUS
  <2> HIDE DEF bad
  <2> QED BY <1>2, <2>1, LeastNumber
<1>4. PICK b : Upto(b, N)
  BY <1>3
<1>5. Small(N) = SUBSET S
  <2>1. Cardinality(S) = N
    BY FS_Interval DEF S
  <2> QED BY <1>0, <2>1, FS_Subset
<1>6. Reads(b, tl, N)
  BY <1>4, <1>5 DEF Reads, Less, S
<1> QED BY <1>6

LEMMA BookReads ==
  ASSUME NEW N \in Nat, NEW tl, DOMAIN tl = 1..N
  PROVE  \E b : Reads(b, tl, N) /\ Book(tl) = b[1..N]
<1> DEFINE R(b) == b = [s \in SUBSET (1..N) |->
                          IF s = {} THEN [live |-> <<>>, done |-> <<>>]
                          ELSE BookAfter(b[s \ {Max(s)}], tl[Max(s)])]
<1>1. \A b : Reads(b, tl, N) <=> R(b)
  BY DEF Reads, Nothing
<1>2. Book(tl) = (CHOOSE b : R(b))[1..N]
  BY DEF Book, FoldLeft, MapThenFoldSet
<1>3. \E b : R(b)
  BY <1>1, ReadingsExist
<1> HIDE DEF R
<1>4. R(CHOOSE b : R(b))
  BY <1>3
<1> QED BY <1>1, <1>2, <1>4

(* The books b after 0, 1, ..., N events are those of a history.           *)
LEMMA BookIs ==
  ASSUME NEW N \in Nat, NEW tl, DOMAIN tl = 1..N, NEW b, b[0] = Nothing,
         \A k \in 1..N : b[k] = BookAfter(b[k - 1], tl[k])
  PROVE  Book(tl) = b[N]
<1>1. PICK r : Reads(r, tl, N) /\ Book(tl) = r[1..N]
  BY BookReads
<1> DEFINE bad == {k \in 0..N : r[1..k] # b[k]}
<1>2. ASSUME NEW k \in bad, \A m \in bad : k <= m PROVE FALSE
  <2>1. k \in 0..N /\ r[1..k] # b[k] /\ 1..k \in SUBSET (1..N)
    OBVIOUS
  <2>2. r[1..k] = IF 1..k = {} THEN Nothing ELSE BookAfter(r[(1..k) \ {Max(1..k)}], tl[Max(1..k)])
    BY <1>1, <2>1 DEF Reads
  <2>3. k # 0
    <3> SUFFICES ASSUME k = 0 PROVE FALSE
      OBVIOUS
    <3>1. 1..k = {}
      OBVIOUS
    <3> QED BY <2>1, <2>2, <3>1
  <2>4. Max(1..k) = k
    <3>1. Max(1..k) \in 1..k /\ \A x \in 1..k : Max(1..k) >= x
      <4>1. k \in Nat /\ k \in 1..k
        BY <2>1, <2>3
      <4>2. 1..k # {} /\ 1..k \in SUBSET (1..k)
        BY <4>1
      <4> QED BY <4>1, <4>2, GreatestIn
    <3>2. k \in 1..k
      BY <2>1, <2>3
    <3> QED BY <2>1, <3>1, <3>2
  <2>5. (1..k) \ {k} = 1..(k - 1) /\ 1..k # {} /\ k - 1 \in 0..N /\ k \in 1..N /\ ~(k <= k - 1)
    BY <2>1, <2>3
  <2>6. k - 1 \notin bad
    <3> HIDE DEF bad
    <3> QED BY <1>2, <2>5
  <2>7. r[1..(k - 1)] = b[k - 1]
    BY <2>5, <2>6
  <2> QED BY <2>1, <2>2, <2>4, <2>5, <2>7
<1>3. bad = {}
  <2> SUFFICES ASSUME bad # {} PROVE FALSE
    OBVIOUS
  <2>1. bad \subseteq Nat
    OBVIOUS
  <2> HIDE DEF bad
  <2> QED BY <1>2, <2>1, LeastNumber
<1>4. N \notin bad
  BY <1>3
<1> QED BY <1>1, <1>4

-----------------------------------------------------------------------------
(* What the book says of an event does not depend on the rest of a trace.  *)
Told(e) ==
  [t |-> e.time, kind |-> MapEventKind(e.name), id |-> e.id, bytes |-> e.bytes,
   callsite |-> e.callsite]
Noted(book, e) == BookAfter(book, Told(e))

LEMMA TimelineTells ==
  ASSUME NEW trace, NEW i \in DOMAIN trace, NEW book
  PROVE  BookAfter(book, Timeline(trace)[i]) = Noted(book, trace[i])
<1> DEFINE x == Timeline(trace)[i]
           y == Told(trace[i])
<1>1. PICK open : x = Entry(trace, i, open)
  BY DEF Timeline
<1>2. x.t = y.t /\ x.kind = y.kind /\ x.id = y.id /\ x.bytes = y.bytes /\ x.callsite = y.callsite
  BY <1>1 DEF Entry, Told
<1> HIDE DEF x, y
<1>3. Allocated(book, x) = Allocated(book, y) /\ Freed(book, x) = Freed(book, y)
  BY <1>2 DEF Allocated, Freed
<1>4. BookAfter(book, x) = BookAfter(book, y)
  BY <1>2, <1>3 DEF BookAfter
<1> QED BY <1>4 DEF x, y, Noted

(* There is a history of books that ends with this one.                    *)
Kept(trace, book) ==
  \E b : /\ b[0] = Nothing /\ b[Len(trace)] = book
         /\ \A k \in 1..Len(trace) : b[k] = Noted(b[k - 1], trace[k])

(* A book with a history is the book of the trace.                         *)
LEMMA KeptIsBook ==
  ASSUME NEW R, NEW trace \in Seq(R), NEW book, Kept(trace, book)
  PROVE  Book(Timeline(trace)) = book
<1> DEFINE n == Len(trace)
           tl == Timeline(trace)
<1>1. n \in Nat /\ DOMAIN trace = 1..n
  BY LenProperties
<1>2. DOMAIN tl = 1..n
  BY <1>1 DEF Timeline
<1>3. PICK b : /\ b[0] = Nothing /\ b[n] = book
               /\ \A k \in 1..n : b[k] = Noted(b[k - 1], trace[k])
  BY DEF Kept
<1>4. \A k \in 1..n : b[k] = BookAfter(b[k - 1], tl[k])
  BY <1>1, <1>3, TimelineTells
<1> HIDE DEF n, tl
<1>5. Book(tl) = b[n]
  BY <1>1, <1>2, <1>3, <1>4, BookIs
<1> QED BY <1>3, <1>5 DEF tl

LEMMA KeptNothing == Kept(<<>>, Nothing)
<1> DEFINE b == [k \in {0} |-> Nothing]
<1>1. b[0] = Nothing /\ Len(<<>>) = 0
  OBVIOUS
<1>2. \A k \in 1..Len(<<>>) : b[k] = Noted(b[k - 1], <<>>[k])
  BY <1>1
<1> HIDE DEF b
<1> QED BY <1>1, <1>2 DEF Kept

(* A history goes on.                                                     *)
LEMMA KeptOneMore ==
  ASSUME NEW R, NEW trace \in Seq(R), NEW e \in R, NEW book, Kept(trace, book)
  PROVE  Append(trace, e) \in Seq(R) /\ Kept(Append(trace, e), Noted(book, e))
<1> DEFINE n == Len(trace)
           more == Append(trace, e)
<1>1. n \in Nat
  BY LenProperties
<1>2. /\ more \in Seq(R) /\ Len(more) = n + 1 /\ more[n + 1] = e
      /\ \A k \in 1..n : more[k] = trace[k]
  BY AppendProperties
<1>3. PICK b : /\ b[0] = Nothing /\ b[n] = book
               /\ \A k \in 1..n : b[k] = Noted(b[k - 1], trace[k])
  BY DEF Kept
<1> HIDE DEF n, more
<1> DEFINE c == [k \in 0..(n + 1) |-> IF k = n + 1 THEN Noted(book, e) ELSE b[k]]
<1>4. c[0] = Nothing /\ c[n + 1] = Noted(book, e) /\ \A k \in 0..n : c[k] = b[k]
  BY <1>1, <1>3
<1> HIDE DEF c
<1>5. \A k \in 1..(n + 1) : c[k] = Noted(c[k - 1], more[k])
  <2> SUFFICES ASSUME NEW k \in 1..(n + 1) PROVE c[k] = Noted(c[k - 1], more[k])
    OBVIOUS
  <2>1. CASE k = n + 1
    <3>1. k - 1 = n /\ n \in 0..n
      BY <1>1, <2>1
    <3> QED BY <1>2, <1>3, <1>4, <2>1, <3>1
  <2>2. CASE k # n + 1
    <3>1. k \in 1..n /\ k \in 0..n /\ k - 1 \in 0..n
      BY <1>1, <2>2
    <3> QED BY <1>2, <1>3, <1>4, <3>1
  <2> QED BY <2>1, <2>2
<1>6. Kept(more, Noted(book, e))
  BY <1>2, <1>4, <1>5 DEF Kept
<1> QED BY <1>2, <1>6 DEF more

(* An event that is neither of an allocation nor of a free changes nothing. *)
LEMMA QuietNoted ==
  ASSUME NEW book, NEW e, MapEventKind(e.name) \notin {"alloc", "free"}
  PROVE  Noted(book, e) = book
BY DEF Noted, Told, BookAfter

(* The book of a trace has a history, as every book has.                   *)
LEMMA EveryTraceKept ==
  ASSUME NEW R, NEW trace \in Seq(R)
  PROVE  Kept(trace, Book(Timeline(trace)))
<1> DEFINE n == Len(trace)
           tl == Timeline(trace)
<1>1. n \in Nat /\ DOMAIN trace = 1..n
  BY LenProperties
<1>2. DOMAIN tl = 1..n
  BY <1>1 DEF Timeline
<1>3. \A k \in 1..n : \A book : BookAfter(book, tl[k]) = Noted(book, trace[k])
  BY <1>1, TimelineTells
<1> HIDE DEF tl
<1>4. PICK r : Reads(r, tl, n) /\ Book(tl) = r[1..n]
  BY <1>1, <1>2, BookReads
<1> HIDE DEF n
<1> DEFINE b == [k \in 0..n |-> r[1..k]]
<1>5. b[0] = Nothing /\ b[n] = Book(tl)
  <2>1. 1..0 = {} /\ {} \in SUBSET (1..n) /\ 0 \in 0..n /\ n \in 0..n
    BY <1>1
  <2> QED BY <1>4, <2>1 DEF Reads
<1>6. ASSUME NEW k \in 1..n PROVE b[k] = Noted(b[k - 1], trace[k])
  <2>1. Max(1..k) \in 1..k /\ \A x \in 1..k : Max(1..k) >= x
    <3>1. k \in Nat /\ k \in 1..k
      BY <1>1
    <3>2. 1..k # {} /\ 1..k \in SUBSET (1..k)
      BY <3>1
    <3> QED BY <3>1, <3>2, GreatestIn
  <2>2. k \in Nat /\ k \in 1..k
    BY <1>1
  <2>3. Max(1..k) = k
    BY <1>1, <2>1, <2>2
  <2>7. n \in Nat /\ k \in Nat /\ k >= 1 /\ k <= n
    BY <1>1, <2>2
  <2>8. (1..k) \ {k} = 1..(k - 1)
    BY <2>7
  <2>4. k - 1 \in 0..n /\ k \in 0..n
    BY <2>7
  <2>9. 1..k # {}
    BY <2>2
  <2>6. 1..k \in SUBSET (1..n)
    BY <1>1, <2>2
  <2>5. r[1..k] = BookAfter(r[1..(k - 1)], tl[k])
    BY <1>4, <2>3, <2>4, <2>6, <2>8, <2>9 DEF Reads
  <2> QED BY <1>3, <2>4, <2>5
<1> HIDE DEF b
<1> QED BY <1>5, <1>6 DEF Kept, n, tl

(* The book of a trace is written an event at a time. *)
BookOf(trace) == Book(Timeline(trace))

LEMMA BookOneMore ==
  ASSUME NEW R, NEW trace \in Seq(R), NEW e \in R
  PROVE  Append(trace, e) \in Seq(R) /\ BookOf(Append(trace, e)) = Noted(BookOf(trace), e)
<1> DEFINE book == BookOf(trace)
           more == Append(trace, e)
<1>1. Kept(trace, book)
  BY EveryTraceKept DEF BookOf
<1> HIDE DEF book
<1>2. more \in Seq(R) /\ Kept(more, Noted(book, e))
  BY <1>1, KeptOneMore
<1> HIDE DEF more
<1>3. Book(Timeline(more)) = Noted(book, e)
  BY <1>2, KeptIsBook
<1> QED BY <1>2, <1>3 DEF BookOf, book, more

LEMMA BookOfNothing == BookOf(<<>>) = Nothing
<1>1. <<>> \in Seq({})
  OBVIOUS
<1> QED BY <1>1, KeptNothing, KeptIsBook DEF BookOf

(* What a step records: the pick, the start of the span, one event of its  *)
(* own or none, and the end of the span.                                   *)
Names == {"sched_pick", "span_start", "span_end", "memory_alloc", "memory_free", "http_request",
          "net_send"}
Records ==
  [time : Nat, name : Names, span : {None} \cup ({"step"} \X Nat), id : Nat \cup {None},
   bytes : Nat, callsite : Sites \cup {None}]

LEMMA QuietOneMore ==
  ASSUME NEW trace \in Seq(Records), NEW e \in Records, e.name \notin {"memory_alloc", "memory_free"}
  PROVE  Append(trace, e) \in Seq(Records) /\ BookOf(Append(trace, e)) = BookOf(trace)
<1> DEFINE name == e.name
<1>1. name \in Names \ {"memory_alloc", "memory_free"}
  BY DEF Records
<1> HIDE DEF name
<1>2. MapEventKind(name) \notin {"alloc", "free"}
  BY <1>1 DEF Names, MapEventKind
<1> QED BY <1>2, BookOneMore, QuietNoted DEF name

LEMMA EventIsRecord ==
  ASSUME NEW t \in Nat, NEW name \in Names
  PROVE  Event(t, name) \in Records /\ Event(t, name).name = name
BY DEF Event, Records

LEMMA SpanIsRecord ==
  ASSUME NEW t \in Nat, NEW name \in Names, steps \in Nat
  PROVE  SpanEvent(t, name) \in Records /\ SpanEvent(t, name).name = name
<1>1. <<"step", steps>> \in {"step"} \X Nat
  OBVIOUS
<1> QED BY <1>1 DEF SpanEvent, Event, Records

(* The events of a step, one by one.                                       *)
LEMMA ThreeMore ==
  ASSUME NEW R, NEW trace \in Seq(R), NEW a \in R, NEW b \in R, NEW d \in R
  PROVE  trace \o <<a, b>> \o <<>> \o <<d>> = Append(Append(Append(trace, a), b), d)
OBVIOUS

LEMMA FourMore ==
  ASSUME NEW R, NEW trace \in Seq(R), NEW a \in R, NEW b \in R, NEW c \in R, NEW d \in R
  PROVE  trace \o <<a, b>> \o <<c>> \o <<d>> = Append(Append(Append(Append(trace, a), b), c), d)
OBVIOUS

(* A step notes its own event in the book, and nothing else.               *)
LEMMA StepNotes ==
  ASSUME NEW e \in Records, NEW wait \in Nat, Step(<<e>>, wait),
         events \in Seq(Records), now \in Nat, steps \in Nat
  PROVE  /\ events' \in Seq(Records) /\ now' \in Nat /\ steps' \in Nat
         /\ BookOf(events') = Noted(BookOf(events), e)
<1> DEFINE a == Event(now, "sched_pick")
           b == SpanEvent(now, "span_start")
           d == SpanEvent(now + wait, "span_end")
           one == Append(events, a)
           two == Append(one, b)
           three == Append(two, e)
<1>1. events' = events \o <<a, b>> \o <<e>> \o <<d>> /\ now' = now + wait /\ steps' = steps + 1
  BY DEF Step
<1>2. a \in Records /\ a.name = "sched_pick"
  BY EventIsRecord DEF Names
<1>3. /\ b \in Records /\ b.name = "span_start"
      /\ d \in Records /\ d.name = "span_end"
  <2>1. now + wait \in Nat
    OBVIOUS
  <2> QED BY <2>1, SpanIsRecord DEF Names
<1> HIDE DEF a, b, d
<1>4. one \in Seq(Records) /\ BookOf(one) = BookOf(events)
  BY <1>2, QuietOneMore
<1> HIDE DEF one
<1>5. two \in Seq(Records) /\ BookOf(two) = BookOf(one)
  BY <1>3, <1>4, QuietOneMore
<1> HIDE DEF two
<1>6. three \in Seq(Records) /\ BookOf(three) = Noted(BookOf(two), e)
  BY <1>5, BookOneMore
<1> HIDE DEF three
<1>7. Append(three, d) \in Seq(Records) /\ BookOf(Append(three, d)) = BookOf(three)
  BY <1>3, <1>6, QuietOneMore
<1>8. events' = Append(three, d)
  BY <1>1, <1>2, <1>3, FourMore DEF one, two, three
<1>9. now' \in Nat /\ steps' \in Nat
  BY <1>1
<1> QED BY <1>4, <1>5, <1>6, <1>7, <1>8, <1>9

LEMMA StepNotesNothing ==
  ASSUME NEW wait \in Nat, Step(<<>>, wait),
         events \in Seq(Records), now \in Nat, steps \in Nat
  PROVE  /\ events' \in Seq(Records) /\ now' \in Nat /\ steps' \in Nat
         /\ BookOf(events') = BookOf(events)
<1> DEFINE a == Event(now, "sched_pick")
           b == SpanEvent(now, "span_start")
           d == SpanEvent(now + wait, "span_end")
           one == Append(events, a)
           two == Append(one, b)
<1>1. events' = events \o <<a, b>> \o <<>> \o <<d>> /\ now' = now + wait /\ steps' = steps + 1
  BY DEF Step
<1>2. a \in Records /\ a.name = "sched_pick"
  BY EventIsRecord DEF Names
<1>3. /\ b \in Records /\ b.name = "span_start"
      /\ d \in Records /\ d.name = "span_end"
  <2>1. now + wait \in Nat
    OBVIOUS
  <2> QED BY <2>1, SpanIsRecord DEF Names
<1> HIDE DEF a, b, d
<1>4. one \in Seq(Records) /\ BookOf(one) = BookOf(events)
  BY <1>2, QuietOneMore
<1> HIDE DEF one
<1>5. two \in Seq(Records) /\ BookOf(two) = BookOf(one)
  BY <1>3, <1>4, QuietOneMore
<1> HIDE DEF two
<1>6. Append(two, d) \in Seq(Records) /\ BookOf(Append(two, d)) = BookOf(two)
  BY <1>3, <1>5, QuietOneMore
<1>7. events' = Append(two, d)
  BY <1>1, <1>2, <1>3, ThreeMore DEF one, two
<1>9. now' \in Nat /\ steps' \in Nat
  BY <1>1
<1> QED BY <1>4, <1>5, <1>6, <1>7, <1>9

-----------------------------------------------------------------------------
(* The book against the recorder: what is live in it is what the recorder  *)
(* has live, byte for byte, and what it ever held is what was granted.     *)
Held  == [bytes : Nat, callsite : Sites, start : Nat]
Given == [alloc : Held, end : Nat]
Tally(book, rec) ==
  /\ book = [live |-> book.live, done |-> book.done]
  /\ rec = [next |-> rec.next, live |-> rec.live, granted |-> rec.granted]
  /\ rec.next \in Nat \ {0} /\ rec.granted \in Nat
  /\ DOMAIN book.live \subseteq 1..(rec.next - 1)
  /\ book.live \in [DOMAIN book.live -> Held]
  /\ rec.live = [i \in DOMAIN book.live |-> book.live[i].bytes]
  /\ book.done \in Seq(Given)
  /\ rec.granted = Bytes(rec.live) + Bytes([k \in DOMAIN book.done |-> book.done[k].alloc.bytes])
  /\ rec.next = Cardinality(DOMAIN book.live) + Len(book.done) + 1

HeapInv ==
  /\ events \in Seq(Records) /\ now \in Nat /\ steps \in Nat
  /\ Tally(BookOf(events), recorder)

LEMMA TallyFacts ==
  ASSUME NEW book, NEW rec, Tally(book, rec)
  PROVE  /\ IsFiniteSet(DOMAIN book.live) /\ DOMAIN rec.live = DOMAIN book.live
         /\ \A i \in DOMAIN rec.live : rec.live[i] \in Nat /\ i \in Nat
         /\ Cardinality(DOMAIN book.live) \in Nat /\ Len(book.done) \in Nat
         /\ DOMAIN book.done = 1..Len(book.done) /\ IsFiniteSet(DOMAIN book.done)
         /\ \A k \in DOMAIN book.done : book.done[k].alloc.bytes \in Nat
<1> DEFINE D == book.done
<1>1. rec.next - 1 \in Int /\ DOMAIN book.live \subseteq 1..(rec.next - 1)
  BY DEF Tally
<1>2. IsFiniteSet(DOMAIN book.live)
  <2>1. IsFiniteSet(1..(rec.next - 1))
    BY <1>1, FS_Interval
  <2> QED BY <1>1, <2>1, FS_Subset
<1>3. D \in Seq(Given)
  BY DEF Tally
<1>4. Len(D) \in Nat /\ DOMAIN D = 1..Len(D) /\ \A k \in DOMAIN D : D[k] \in Given
  BY <1>3, LenProperties, ElementOfSeq
<1>5. IsFiniteSet(DOMAIN D)
  BY <1>4, FS_Interval
<1>6. \A k \in DOMAIN D : D[k].alloc.bytes \in Nat
  BY <1>4 DEF Given, Held
<1>7. DOMAIN rec.live = DOMAIN book.live /\ \A i \in DOMAIN rec.live : rec.live[i] \in Nat /\ i \in Nat
  <2>1. \A i \in DOMAIN book.live : book.live[i] \in Held /\ i \in Nat
    BY <1>1 DEF Tally
  <2>2. rec.live = [i \in DOMAIN book.live |-> book.live[i].bytes]
    BY DEF Tally
  <2> QED BY <2>1, <2>2 DEF Held
<1>8. Cardinality(DOMAIN book.live) \in Nat
  BY <1>2, FS_CardinalityType
<1> QED BY <1>2, <1>4, <1>5, <1>6, <1>7, <1>8

LEMMA TallyIs ==
  ASSUME NEW L, NEW D, NEW l, NEW next \in Nat \ {0}, NEW granted \in Nat,
         DOMAIN L \subseteq 1..(next - 1), L \in [DOMAIN L -> Held],
         l = [i \in DOMAIN L |-> L[i].bytes], D \in Seq(Given),
         granted = Bytes(l) + Bytes([k \in DOMAIN D |-> D[k].alloc.bytes]),
         next = Cardinality(DOMAIN L) + Len(D) + 1
  PROVE  Tally([live |-> L, done |-> D], [next |-> next, live |-> l, granted |-> granted])
<1> DEFINE book == [live |-> L, done |-> D]
           rec == [next |-> next, live |-> l, granted |-> granted]
<1>1. book.live = L /\ book.done = D /\ book = [live |-> book.live, done |-> book.done]
  OBVIOUS
<1>2. /\ rec.next = next /\ rec.live = l /\ rec.granted = granted
      /\ rec = [next |-> rec.next, live |-> rec.live, granted |-> rec.granted]
  OBVIOUS
<1> HIDE DEF book, rec
<1>3. Tally(book, rec)
  BY <1>1, <1>2 DEF Tally
<1> QED BY <1>3 DEF book, rec

(* An allocation, on both sides.                                           *)
LEMMA TallyAlloc ==
  ASSUME NEW book, NEW rec, Tally(book, rec), NEW e, NEW new,
         e.id = rec.next, e.bytes \in Nat, e.callsite \in Sites, e.t \in Nat,
         new = [next |-> rec.next + 1, granted |-> rec.granted + e.bytes,
                live |-> [i \in DOMAIN rec.live \cup {rec.next} |->
                            IF i = rec.next THEN e.bytes ELSE rec.live[i]]]
  PROVE  Tally(Allocated(book, e), new)
<1> DEFINE L == book.live
           D == book.done
           id == rec.next
           h == [bytes |-> e.bytes, callsite |-> e.callsite, start |-> e.t]
           M == [i \in DOMAIN L \cup {id} |-> IF i = id THEN h ELSE L[i]]
           l == rec.live
           m == [i \in DOMAIN l \cup {id} |-> IF i = id THEN e.bytes ELSE l[i]]
           gone == Bytes([k \in DOMAIN D |-> D[k].alloc.bytes])
<1>1. book = [live |-> L, done |-> D] /\ Allocated(book, e) = [live |-> M, done |-> D]
  <2>1. book = [live |-> L, done |-> D]
    BY DEF Tally
  <2>2. Allocated(book, e) = [book EXCEPT !.live = M]
    BY DEF Allocated
  <2> QED BY <2>1, <2>2
<1>2. new = [next |-> id + 1, live |-> m, granted |-> rec.granted + e.bytes]
  OBVIOUS
<1>3. /\ id \in Nat \ {0} /\ rec.granted \in Nat /\ DOMAIN L \subseteq 1..(id - 1)
      /\ L \in [DOMAIN L -> Held] /\ l = [i \in DOMAIN L |-> L[i].bytes] /\ D \in Seq(Given)
      /\ rec.granted = Bytes(l) + gone
      /\ id = Cardinality(DOMAIN L) + Len(D) + 1
  BY DEF Tally
<1>4. /\ IsFiniteSet(DOMAIN L) /\ DOMAIN l = DOMAIN L /\ \A i \in DOMAIN l : l[i] \in Nat
      /\ Cardinality(DOMAIN L) \in Nat /\ Len(D) \in Nat
      /\ IsFiniteSet(DOMAIN D) /\ \A k \in DOMAIN D : D[k].alloc.bytes \in Nat
  BY TallyFacts
<1>5. h \in Held /\ h.bytes = e.bytes
  BY DEF Held
<1> HIDE DEF L, D, id, l, h
<1>6. DOMAIN M = DOMAIN L \cup {id} /\ M \in [DOMAIN M -> Held]
  BY <1>3, <1>5
<1>7. m = [i \in DOMAIN M |-> M[i].bytes]
  BY <1>3, <1>4, <1>5
<1>8. id \notin DOMAIN L
  BY <1>3
<1>9. DOMAIN M \subseteq 1..id /\ id + 1 \in Nat \ {0} /\ rec.granted + e.bytes \in Nat
  BY <1>3, <1>6
<1> DEFINE eff == e.bytes
<1>10. Bytes(m) = Bytes(l) + eff
  <2>1. eff \in Nat /\ id \notin DOMAIN l /\ IsFiniteSet(DOMAIN l) /\ \A i \in DOMAIN l : l[i] \in Nat
    BY <1>4, <1>8
  <2>2. m = [i \in DOMAIN l \cup {id} |-> IF i = id THEN eff ELSE l[i]]
    OBVIOUS
  <2> HIDE DEF m, M, eff
  <2>3. Bytes([i \in DOMAIN l \cup {id} |-> IF i = id THEN eff ELSE l[i]]) = Bytes(l) + eff
    BY <2>1, BytesOneMore
  <2> QED BY <2>2, <2>3
<1>11. Cardinality(DOMAIN M) = Cardinality(DOMAIN L) + 1
  BY <1>4, <1>6, <1>8, FS_AddElement
<1>12. gone \in Nat /\ Bytes(l) \in Nat
  <2> DEFINE g == [k \in DOMAIN D |-> D[k].alloc.bytes]
  <2>1. IsFiniteSet(DOMAIN g) /\ \A k \in DOMAIN g : g[k] \in Nat
    BY <1>4
  <2> HIDE DEF g
  <2>2. Bytes(g) \in Nat
    BY <2>1, BytesFacts
  <2>3. Bytes(l) \in Nat
    BY <1>4, BytesFacts
  <2> QED BY <2>2, <2>3 DEF g
<1> HIDE DEF M, m
<1>13. rec.granted + e.bytes = Bytes(m) + gone /\ id + 1 = Cardinality(DOMAIN M) + Len(D) + 1
  <2> HIDE DEF gone, eff
  <2>1. eff \in Nat
    BY DEF eff
  <2>2. rec.granted + eff = Bytes(m) + gone
    BY <1>3, <1>10, <1>12, <2>1
  <2>3. id + 1 = Cardinality(DOMAIN M) + Len(D) + 1
    BY <1>3, <1>4, <1>11
  <2> QED BY <2>2, <2>3 DEF eff
<1>14. D \in Seq(Given) /\ gone = Bytes([k \in DOMAIN D |-> D[k].alloc.bytes])
  BY <1>3
<1> HIDE DEF gone
<1> DEFINE next == id + 1
           granted == rec.granted + e.bytes
<1>15. /\ next \in Nat \ {0} /\ granted \in Nat /\ DOMAIN M \subseteq 1..(next - 1)
       /\ granted = Bytes(m) + Bytes([k \in DOMAIN D |-> D[k].alloc.bytes])
       /\ next = Cardinality(DOMAIN M) + Len(D) + 1
  <2>1. next \in Nat \ {0} /\ granted \in Nat
    BY <1>9
  <2>2. DOMAIN M \subseteq 1..(next - 1)
    <3>1. next - 1 = id
      BY <1>3
    <3> HIDE DEF next
    <3> QED BY <1>9, <3>1
  <2>3. granted = Bytes(m) + gone
    BY <1>13
  <2>4. next = Cardinality(DOMAIN M) + Len(D) + 1
    BY <1>13
  <2> HIDE DEF next, granted
  <2> QED BY <1>14, <2>1, <2>2, <2>3, <2>4
<1>16. new = [next |-> next, live |-> m, granted |-> granted]
  BY <1>2
<1> HIDE DEF next, granted
<1>17. Tally([live |-> M, done |-> D], [next |-> next, live |-> m, granted |-> granted])
  BY <1>6, <1>7, <1>14, <1>15, TallyIs
<1> QED BY <1>1, <1>16, <1>17

(* A free, on both sides.                                                  *)
LEMMA TallyFree ==
  ASSUME NEW book, NEW rec, Tally(book, rec), NEW e, NEW new,
         e.id \in DOMAIN rec.live, e.t \in Nat,
         new = [rec EXCEPT !.live = [i \in DOMAIN rec.live \ {e.id} |-> rec.live[i]]]
  PROVE  Tally(Freed(book, e), new)
<1> DEFINE L == book.live
           D == book.done
           id == e.id
           M == [i \in DOMAIN L \ {id} |-> L[i]]
           f == [alloc |-> L[id], end |-> e.t]
           E == Append(D, f)
           l == rec.live
           m == [i \in DOMAIN l \ {id} |-> l[i]]
           g == [k \in DOMAIN D |-> D[k].alloc.bytes]
           n == Len(D)
<1>1. Freed(book, e) = [live |-> M, done |-> E]
  BY DEF Freed
<1>2. new = [next |-> rec.next, live |-> m, granted |-> rec.granted]
  BY DEF Tally
<1>3. /\ rec.next \in Nat \ {0} /\ rec.granted \in Nat /\ DOMAIN L \subseteq 1..(rec.next - 1)
      /\ L \in [DOMAIN L -> Held] /\ l = [i \in DOMAIN L |-> L[i].bytes] /\ D \in Seq(Given)
      /\ rec.granted = Bytes(l) + Bytes(g)
      /\ rec.next = Cardinality(DOMAIN L) + n + 1
  BY DEF Tally
<1>4. /\ IsFiniteSet(DOMAIN L) /\ DOMAIN l = DOMAIN L /\ \A i \in DOMAIN l : l[i] \in Nat
      /\ Cardinality(DOMAIN L) \in Nat /\ n \in Nat /\ DOMAIN D = 1..n
      /\ IsFiniteSet(DOMAIN D) /\ \A k \in DOMAIN D : D[k].alloc.bytes \in Nat
  BY TallyFacts
<1>5. id \in DOMAIN L /\ f \in Given /\ l[id] = f.alloc.bytes /\ l[id] \in Nat
  <2>1. id \in DOMAIN L /\ L[id] \in Held
    BY <1>3, <1>4
  <2> QED BY <1>3, <1>4, <2>1 DEF Given
<1> HIDE DEF L, D, id, l, f, n
<1>6. DOMAIN M = DOMAIN L \ {id} /\ M \in [DOMAIN M -> Held] /\ DOMAIN M \subseteq 1..(rec.next - 1)
  BY <1>3
<1>7. m = [i \in DOMAIN M |-> M[i].bytes]
  BY <1>3, <1>4
<1>8. E \in Seq(Given) /\ Len(E) = n + 1 /\ E[n + 1] = f /\ \A k \in 1..n : E[k] = D[k]
  <2>1. D \in Seq(Given)
    BY <1>3
  <2> QED BY <1>5, <2>1, AppendProperties DEF n
<1>9. Bytes(l) = l[id] + Bytes(m) /\ Bytes(m) \in Nat
  <2>1. Bytes(l) = l[id] + Bytes(m)
    BY <1>4, <1>5, BytesFacts
  <2>2. IsFiniteSet(DOMAIN m) /\ \A i \in DOMAIN m : m[i] \in Nat
    BY <1>4, FS_Subset
  <2> HIDE DEF m
  <2>3. Bytes(m) \in Nat
    BY <2>2, BytesFacts
  <2> QED BY <2>1, <2>3
<1>10. Cardinality(DOMAIN M) = Cardinality(DOMAIN L) - 1
  BY <1>4, <1>5, <1>6, FS_RemoveElement
<1> DEFINE more == [k \in DOMAIN E |-> E[k].alloc.bytes]
<1>11. Bytes(more) = Bytes(g) + l[id] /\ Bytes(g) \in Nat
  <2>1. DOMAIN E = 1..(n + 1)
    <3>1. E \in Seq(Given)
      BY <1>8
    <3> QED BY <1>8, <3>1, LenProperties
  <2>2. DOMAIN g = 1..n /\ (\A k \in DOMAIN g : g[k] \in Nat) /\ IsFiniteSet(DOMAIN g)
    BY <1>4
  <2> DEFINE h == [k \in DOMAIN g \cup {n + 1} |-> IF k = n + 1 THEN l[id] ELSE g[k]]
  <2>3. 1..(n + 1) = (1..n) \cup {n + 1} /\ n + 1 \notin 1..n
    BY <1>4
  <2>4. more = h
    <3>1. DOMAIN more = DOMAIN h
      BY <2>1, <2>2, <2>3
    <3>2. \A k \in 1..(n + 1) : more[k] = h[k]
      <4> SUFFICES ASSUME NEW k \in 1..(n + 1) PROVE E[k].alloc.bytes = IF k = n + 1 THEN l[id] ELSE g[k]
        BY <2>1, <2>2, <2>3
      <4>1. CASE k = n + 1
        BY <1>5, <1>8, <4>1
      <4>2. CASE k # n + 1
        BY <1>4, <1>8, <2>3, <4>2
      <4> QED BY <4>1, <4>2
    <3> QED BY <2>1, <3>1, <3>2
  <2> HIDE DEF g
  <2> DEFINE eff == l[id]
             at == n + 1
  <2>5. Bytes(h) = Bytes(g) + eff
    <3>1. eff \in Nat /\ at \notin DOMAIN g
      BY <1>5, <2>2, <2>3
    <3> HIDE DEF eff, at
    <3>2. Bytes([k \in DOMAIN g \cup {at} |-> IF k = at THEN eff ELSE g[k]]) = Bytes(g) + eff
      BY <2>2, <3>1, BytesOneMore
    <3> QED BY <3>2 DEF at, eff
  <2>6. Bytes(g) \in Nat
    BY <2>2, BytesFacts
  <2> QED BY <2>4, <2>5, <2>6
<1> HIDE DEF M, m, E, g, more
<1>12. rec.granted = Bytes(m) + Bytes(more)
  BY <1>3, <1>5, <1>9, <1>11
<1>13. rec.next = Cardinality(DOMAIN M) + Len(E) + 1
  BY <1>3, <1>4, <1>8, <1>10
<1>14. more = [k \in DOMAIN E |-> E[k].alloc.bytes]
  BY DEF more
<1> DEFINE next == rec.next
           granted == rec.granted
<1>15. /\ next \in Nat \ {0} /\ granted \in Nat /\ DOMAIN M \subseteq 1..(next - 1)
       /\ granted = Bytes(m) + Bytes([k \in DOMAIN E |-> E[k].alloc.bytes])
       /\ next = Cardinality(DOMAIN M) + Len(E) + 1
  BY <1>3, <1>6, <1>12, <1>13, <1>14
<1>16. new = [next |-> next, live |-> m, granted |-> granted]
  BY <1>2
<1> HIDE DEF next, granted
<1>17. Tally([live |-> M, done |-> E], [next |-> next, live |-> m, granted |-> granted])
  BY <1>6, <1>7, <1>8, <1>15, TallyIs
<1> QED BY <1>1, <1>16, <1>17

(* Every action keeps the tally.                                           *)
LEMMA TallyFresh == Tally(Nothing, Fresh)
<1> DEFINE empty == <<>>
<1>1. DOMAIN empty = {} /\ empty \in [DOMAIN empty -> Held] /\ empty \in Seq(Given) /\ Len(empty) = 0
      /\ empty = [i \in DOMAIN empty |-> empty[i].bytes]
      /\ empty = [k \in DOMAIN empty |-> empty[k].alloc.bytes]
  OBVIOUS
<1> HIDE DEF empty
<1>2. Bytes(empty) = 0 /\ Cardinality(DOMAIN empty) = 0
  BY <1>1, BytesFacts, FS_EmptySet
<1>3. Tally([live |-> empty, done |-> empty], [next |-> 1, live |-> empty, granted |-> 0])
  <2>1. /\ 1 \in Nat \ {0} /\ 0 \in Nat /\ DOMAIN empty \subseteq 1..(1 - 1)
        /\ 0 = Bytes(empty) + Bytes([k \in DOMAIN empty |-> empty[k].alloc.bytes])
        /\ 1 = Cardinality(DOMAIN empty) + Len(empty) + 1
    BY <1>1, <1>2
  <2> QED BY <1>1, <2>1, TallyIs
<1> QED BY <1>3 DEF Nothing, Fresh, empty

LEMMA InitHeapInv == ProfilesInit => HeapInv
<1> SUFFICES ASSUME ProfilesInit PROVE HeapInv
  OBVIOUS
<1>1. events = <<>> /\ now = 0 /\ steps = 0 /\ recorder = Fresh
  BY DEF ProfilesInit
<1>2. <<>> \in Seq(Records)
  OBVIOUS
<1>3. BookOf(events) = Nothing
  BY <1>1, BookOfNothing
<1> QED BY <1>1, <1>2, <1>3, TallyFresh DEF HeapInv

LEMMA AllocHeapInv ==
  ASSUME HeapInv, NEW bytes \in Blocks, NEW site \in Sites, MemoryAlloc(bytes, site)
  PROVE  HeapInv'
<1> DEFINE id == recorder.next
           e == [Event(now, "memory_alloc") EXCEPT !.id = id, !.bytes = bytes, !.callsite = site]
<1>1. bytes \in Nat /\ id \in Nat \ {0} /\ id # None /\ Tally(BookOf(events), recorder)
  BY BoundsAssumption, NoneAssumption DEF HeapInv, Tally
<1>2. events \in Seq(Records) /\ now \in Nat /\ steps \in Nat
  BY DEF HeapInv
<1>3. /\ e \in Records /\ e.name = "memory_alloc" /\ e.id = id /\ e.bytes = bytes
      /\ e.callsite = site /\ e.time = now
  BY <1>1, <1>2 DEF Event, Records, Names
<1>4. /\ Step(<<e>>, 0)
      /\ recorder' = [next |-> id + 1, granted |-> recorder.granted + bytes,
                      live |-> [i \in DOMAIN recorder.live \cup {id} |->
                                  IF i = id THEN bytes ELSE recorder.live[i]]]
  BY DEF MemoryAlloc
<1> HIDE DEF e
<1>5. /\ events' \in Seq(Records) /\ now' \in Nat /\ steps' \in Nat
      /\ BookOf(events') = Noted(BookOf(events), e)
  BY <1>2, <1>3, <1>4, StepNotes
<1> DEFINE t == Told(e)
<1>6. t.kind = "alloc" /\ t.id = id /\ t.bytes = bytes /\ t.callsite = site /\ t.t = now
  BY <1>3 DEF Told, MapEventKind
<1> HIDE DEF t, id
<1>7. Noted(BookOf(events), e) = Allocated(BookOf(events), t)
  BY <1>1, <1>6 DEF Noted, BookAfter, t
<1>8. Tally(Allocated(BookOf(events), t), recorder')
  <2>1. /\ t.id = recorder.next /\ t.bytes \in Nat /\ t.callsite \in Sites /\ t.t \in Nat
        /\ recorder' = [next |-> recorder.next + 1, granted |-> recorder.granted + t.bytes,
                        live |-> [i \in DOMAIN recorder.live \cup {recorder.next} |->
                                    IF i = recorder.next THEN t.bytes ELSE recorder.live[i]]]
    BY <1>1, <1>2, <1>4, <1>6 DEF id
  <2> QED BY <1>1, <2>1, TallyAlloc
<1> QED BY <1>5, <1>7, <1>8 DEF HeapInv

(* A refused allocation, which has no id, is passed over. *)
LEMMA RefuseHeapInv ==
  ASSUME HeapInv, NEW bytes \in Blocks, NEW site \in Sites, MemoryRefuse(bytes, site)
  PROVE  HeapInv'
<1> DEFINE e == [Event(now, "memory_alloc") EXCEPT !.bytes = bytes, !.callsite = site]
<1>1. bytes \in Nat /\ Tally(BookOf(events), recorder)
  BY BoundsAssumption DEF HeapInv
<1>2. events \in Seq(Records) /\ now \in Nat /\ steps \in Nat
  BY DEF HeapInv
<1>3. e \in Records /\ e.name = "memory_alloc" /\ e.id = None
  BY <1>1, <1>2 DEF Event, Records, Names
<1>4. Step(<<e>>, 0) /\ recorder' = recorder
  BY DEF MemoryRefuse
<1> HIDE DEF e
<1>5. /\ events' \in Seq(Records) /\ now' \in Nat /\ steps' \in Nat
      /\ BookOf(events') = Noted(BookOf(events), e)
  BY <1>2, <1>3, <1>4, StepNotes
<1>6. Noted(BookOf(events), e) = BookOf(events)
  <2> DEFINE t == Told(e)
  <2>1. t.kind = "alloc" /\ t.id = None
    BY <1>3 DEF Told, MapEventKind
  <2> HIDE DEF t
  <2> QED BY <2>1 DEF Noted, BookAfter, t
<1> QED BY <1>1, <1>4, <1>5, <1>6 DEF HeapInv

LEMMA FreeHeapInv ==
  ASSUME HeapInv, NEW id \in 1..recorder.next, MemoryFree(id)
  PROVE  HeapInv'
<1> DEFINE e == [Event(now, "memory_free") EXCEPT !.id = id]
           book == BookOf(events)
           l == recorder.live
<1>1. id \in Nat /\ Tally(book, recorder)
  <2>1. recorder.next \in Nat /\ Tally(book, recorder)
    BY DEF HeapInv, Tally
  <2> QED BY <2>1
<1>2. events \in Seq(Records) /\ now \in Nat /\ steps \in Nat
  BY DEF HeapInv
<1>3. e \in Records /\ e.name = "memory_free" /\ e.id = id /\ e.time = now
  BY <1>1, <1>2 DEF Event, Records, Names
<1>4. Step(<<e>>, 0) /\ recorder' = [recorder EXCEPT !.live = [i \in DOMAIN l \ {id} |-> l[i]]]
  BY DEF MemoryFree
<1> HIDE DEF e
<1>5. /\ events' \in Seq(Records) /\ now' \in Nat /\ steps' \in Nat
      /\ BookOf(events') = Noted(book, e)
  BY <1>2, <1>3, <1>4, StepNotes
<1> DEFINE t == Told(e)
<1>6. t.kind = "free" /\ t.id = id /\ t.t = now
  BY <1>3 DEF Told, MapEventKind
<1> HIDE DEF t, book
<1>7. DOMAIN l = DOMAIN book.live
  BY <1>1, TallyFacts
<1>8. CASE id \in DOMAIN l
  <2>1. Noted(book, e) = Freed(book, t)
    BY <1>6, <1>7, <1>8 DEF Noted, BookAfter, t
  <2>2. Tally(Freed(book, t), recorder')
    <3>1. /\ t.id \in DOMAIN recorder.live /\ t.t \in Nat
          /\ recorder' = [recorder EXCEPT !.live = [i \in DOMAIN recorder.live \ {t.id} |-> recorder.live[i]]]
      BY <1>2, <1>4, <1>6, <1>8
    <3> QED BY <1>1, <3>1, TallyFree
  <2> QED BY <1>5, <2>1, <2>2 DEF HeapInv
<1>9. CASE id \notin DOMAIN l
  <2>1. Noted(book, e) = book
    BY <1>6, <1>7, <1>9 DEF Noted, BookAfter, t
  <2>2. recorder' = recorder
    <3>1. recorder = [next |-> recorder.next, live |-> l, granted |-> recorder.granted]
      BY <1>1 DEF Tally
    <3>2. [i \in DOMAIN l \ {id} |-> l[i]] = l
      <4>1. l = [i \in DOMAIN book.live |-> book.live[i].bytes]
        BY <1>1 DEF Tally
      <4> QED BY <1>7, <1>9, <4>1
    <3> QED BY <1>4, <3>1, <3>2
  <2> QED BY <1>1, <1>5, <2>1, <2>2 DEF HeapInv
<1> QED BY <1>8, <1>9

LEMMA SleepHeapInv ==
  ASSUME HeapInv, NEW wait \in Waits, Sleep(wait)
  PROVE  HeapInv'
<1>1. wait \in Nat /\ Tally(BookOf(events), recorder)
  BY BoundsAssumption DEF HeapInv
<1>2. events \in Seq(Records) /\ now \in Nat /\ steps \in Nat /\ Step(<<>>, wait) /\ recorder' = recorder
  BY DEF HeapInv, Sleep
<1> QED BY <1>1, <1>2, StepNotesNothing DEF HeapInv

LEMMA EffectHeapInv ==
  ASSUME HeapInv, NEW name \in {"http_request", "net_send"}, Effect(name)
  PROVE  HeapInv'
<1> DEFINE e == Event(now, name)
<1>1. /\ events \in Seq(Records) /\ now \in Nat /\ steps \in Nat /\ Step(<<e>>, 0)
      /\ recorder' = recorder /\ Tally(BookOf(events), recorder)
  BY DEF HeapInv, Effect
<1>2. e \in Records /\ e.name = name
  BY <1>1, EventIsRecord DEF Names
<1> HIDE DEF e
<1>3. /\ events' \in Seq(Records) /\ now' \in Nat /\ steps' \in Nat
      /\ BookOf(events') = Noted(BookOf(events), e)
  BY <1>1, <1>2, StepNotes
<1>4. Noted(BookOf(events), e) = BookOf(events)
  <2>1. MapEventKind(e.name) \notin {"alloc", "free"}
    BY <1>2 DEF MapEventKind
  <2> QED BY <2>1, QuietNoted
<1> QED BY <1>1, <1>3, <1>4 DEF HeapInv

LEMMA NextHeapInv == HeapInv /\ [ProfilesNext]_profile_vars => HeapInv'
<1> SUFFICES ASSUME HeapInv, [ProfilesNext]_profile_vars PROVE HeapInv'
  OBVIOUS
<1>1. ASSUME NEW bytes \in Blocks, NEW site \in Sites,
             MemoryAlloc(bytes, site) \/ MemoryRefuse(bytes, site)
      PROVE  HeapInv'
  BY <1>1, AllocHeapInv, RefuseHeapInv
<1>2. ASSUME NEW id \in 1..recorder.next, MemoryFree(id) PROVE HeapInv'
  BY <1>2, FreeHeapInv
<1>3. ASSUME NEW wait \in Waits, Sleep(wait) PROVE HeapInv'
  BY <1>3, SleepHeapInv
<1>4. ASSUME NEW name \in {"http_request", "net_send"}, Effect(name) PROVE HeapInv'
  BY <1>4, EffectHeapInv
<1>5. CASE NextRun
  <2>1. events' = <<>> /\ now' = 0 /\ recorder' = Fresh /\ steps' = steps /\ steps \in Nat
    BY <1>5 DEF NextRun, HeapInv
  <2>2. <<>> \in Seq(Records) /\ BookOf(events') = Nothing
    BY <2>1, BookOfNothing
  <2> QED BY <2>1, <2>2, TallyFresh DEF HeapInv
<1>6. CASE UNCHANGED profile_vars
  BY <1>6 DEF profile_vars, HeapInv
<1> QED BY <1>1, <1>2, <1>3, <1>4, <1>5, <1>6 DEF ProfilesNext

-----------------------------------------------------------------------------
(* A sum over the sites of a profile.                                      *)
LEMMA SiteSumIs ==
  ASSUME NEW h, NEW field, IsFiniteSet(DOMAIN h), \A s \in DOMAIN h : h[s][field] \in Nat
  PROVE  SiteSum(h, field) = Bytes([s \in DOMAIN h |-> h[s][field]])
<1> DEFINE S == DOMAIN h
           f == [s \in S |-> h[s][field]]
           Sum(g) == g = [t \in SUBSET S |->
                            IF t = {} THEN 0
                            ELSE h[CHOOSE x \in t : TRUE][field] + g[t \ {CHOOSE x \in t : TRUE}]]
<1>1. DOMAIN f = S /\ \A s \in S : f[s] = h[s][field]
  OBVIOUS
<1>2. ASSUME NEW g PROVE Adds(g, f, S) <=> Sum(g)
  <2>1. \A t \in SUBSET S : t # {} => f[Pick(t)] = h[Pick(t)][field]
    BY <1>1, PickFacts
  <2> HIDE DEF f, S
  <2> QED BY <2>1 DEF Adds, Pick
<1>3. SiteSum(h, field) = (CHOOSE w : Sum(w))[S]
  BY DEF SiteSum, MapThenSumSet, MapThenFoldSet
<1>4. DOMAIN f = S /\ \A s \in S : f[s] \in Nat
  BY <1>1
<1> HIDE DEF f
<1>5. PICK g : Adds(g, f, S) /\ Bytes(f) = g[S]
  BY <1>4, BytesAddUp
<1> HIDE DEF Sum
<1>6. Sum(CHOOSE w : Sum(w))
  BY <1>2, <1>5
<1> DEFINE k == CHOOSE w : Sum(w)
<1>7. Adds(k, f, S) /\ SiteSum(h, field) = k[S]
  BY <1>2, <1>3, <1>6
<1> HIDE DEF k
<1>8. S \in SUBSET S /\ k[S] = g[S]
  BY <1>4, <1>5, <1>7, SumsAgree
<1> QED BY <1>5, <1>7, <1>8 DEF f

(* What is summed site by site is what is summed at once.                  *)
LEMMA SitesAddUp ==
  ASSUME NEW a, IsFiniteSet(DOMAIN a), NEW S, IsFiniteSet(S),
         \A i \in DOMAIN a : a[i].bytes \in Nat /\ a[i].callsite \in S
  PROVE  /\ \A s \in S : BytesOf(a, At(a, s)) \in Nat /\ Cardinality(At(a, s)) \in Nat
         /\ Bytes([s \in S |-> BytesOf(a, At(a, s))]) = BytesOf(a, DOMAIN a)
         /\ Bytes([s \in S |-> Cardinality(At(a, s))]) = Cardinality(DOMAIN a)
<1> DEFINE D == DOMAIN a
           f == [i \in D |-> a[i].bytes]
           part == [i \in D |-> a[i].callsite]
           ones == [i \in D |-> 1]
           In(s) == {i \in D : part[i] = s}
<1>1. \A i \in D : f[i] \in Nat /\ f[i] = a[i].bytes /\ ones[i] = 1 /\ part[i] \in S
  OBVIOUS
<1>2. ASSUME NEW s \in S
      PROVE  /\ BytesOf(a, At(a, s)) = Over(f, In(s)) /\ Over(f, In(s)) \in Nat
             /\ Cardinality(At(a, s)) = Over(ones, In(s)) /\ Cardinality(At(a, s)) \in Nat
  <2>1. At(a, s) = In(s) /\ In(s) \in SUBSET D
    BY DEF At
  <2> HIDE DEF In
  <2>2. IsFiniteSet(In(s)) /\ Over(f, In(s)) \in Nat
    <3> HIDE DEF f, D
    <3> QED BY <1>1, <2>1, OverFacts DEF D
  <2>3. BytesOf(a, In(s)) = Bytes([i \in In(s) |-> a[i].bytes])
    <3>1. \A i \in In(s) : a[i].bytes \in Nat
      BY <2>1
    <3> QED BY <2>2, <3>1, BytesOfIs
  <2>4. [i \in In(s) |-> a[i].bytes] = [i \in In(s) |-> f[i]]
    BY <2>1
  <2>5. [i \in In(s) |-> ones[i]] = [i \in In(s) |-> 1]
    BY <2>1
  <2>6. Over(ones, In(s)) = Cardinality(In(s)) /\ Cardinality(In(s)) \in Nat
    BY <2>2, <2>5, OnesAddUp, FS_CardinalityType DEF Over
  <2> QED BY <2>1, <2>2, <2>3, <2>4, <2>6 DEF Over
<1>3. Bytes([s \in S |-> Over(f, In(s))]) = Over(f, D) /\ Bytes([s \in S |-> Over(ones, In(s))]) = Over(ones, D)
  <2>1. \A i \in D : f[i] \in Nat /\ ones[i] \in Nat /\ part[i] \in S
    BY <1>1
  <2> HIDE DEF f, ones, part, D
  <2> QED BY <2>1, PartsAddUp DEF D
<1>4. Over(f, D) = BytesOf(a, D)
  <2>1. BytesOf(a, D) = Bytes([i \in D |-> a[i].bytes])
    BY BytesOfIs
  <2>2. [i \in D |-> f[i]] = [i \in D |-> a[i].bytes]
    OBVIOUS
  <2> QED BY <2>1, <2>2 DEF Over
<1>5. Over(ones, D) = Cardinality(D)
  <2>1. [i \in D |-> ones[i]] = [i \in D |-> 1]
    OBVIOUS
  <2> QED BY <2>1, OnesAddUp DEF Over
<1>6. [s \in S |-> BytesOf(a, At(a, s))] = [s \in S |-> Over(f, In(s))]
  BY <1>2
<1>7. [s \in S |-> Cardinality(At(a, s))] = [s \in S |-> Over(ones, In(s))]
  BY <1>2
<1> QED BY <1>2, <1>3, <1>4, <1>5, <1>6, <1>7

LEMMA ImageFinite ==
  ASSUME NEW f, IsFiniteSet(DOMAIN f)
  PROVE  IsFiniteSet({f[x] : x \in DOMAIN f})
<1> DEFINE T == {f[x] : x \in DOMAIN f}
           g == [x \in DOMAIN f |-> f[x]]
<1>1. g \in Surjection(DOMAIN f, T)
  BY DEF Surjection
<1> HIDE DEF g, T
<1>2. IsFiniteSet(T)
  BY <1>1, FS_Surjection
<1> QED BY <1>2 DEF T

(* What is left in the book is suspected of a leak, one for each block.    *)
LEMMA SuspectsCount ==
  ASSUME NEW blocks, IsFiniteSet(DOMAIN blocks), NEW end
  PROVE  Cardinality({[id |-> i, bytes |-> blocks[i].bytes, age |-> end - blocks[i].start] :
                        i \in DOMAIN blocks}) = Cardinality(DOMAIN blocks)
<1> DEFINE suspect(i) == [id |-> i, bytes |-> blocks[i].bytes, age |-> end - blocks[i].start]
           T == {suspect(i) : i \in DOMAIN blocks}
           f == [i \in DOMAIN blocks |-> suspect(i)]
<1>1. \A i, j \in DOMAIN blocks : suspect(i) = suspect(j) => i = j
  <2> SUFFICES ASSUME NEW i \in DOMAIN blocks, NEW j \in DOMAIN blocks, suspect(i) = suspect(j)
               PROVE  i = j
    OBVIOUS
  <2>1. suspect(i).id = i /\ suspect(j).id = j
    OBVIOUS
  <2> QED BY <2>1
<1> HIDE DEF suspect
<1>2. f \in Surjection(DOMAIN blocks, T) /\ f \in Injection(DOMAIN blocks, T)
  BY <1>1 DEF Surjection, Injection, IsInjective
<1> HIDE DEF f, T
<1>3. Cardinality(T) = Cardinality(DOMAIN blocks)
  BY <1>2, FS_Surjection
<1> QED BY <1>3 DEF T, suspect

LEMMA InUseIs == InUse = Bytes(recorder.live)
BY DEF InUse, Bytes

LEMMA LargerOfZero ==
  ASSUME NEW x \in Nat
  PROVE  Max({x, 0}) = x
<1>1. {x, 0} # {} /\ \A y \in {x, 0} : x >= y
  OBVIOUS
<1>2. \A m \in {x, 0} : (\A y \in {x, 0} : m >= y) => m = x
  OBVIOUS
<1> QED BY <1>1, <1>2 DEF Max

(* The heap profile read from a book that tallies.                         *)
Heap(book, end) ==
  HeapOf(book.live, [i \in DOMAIN book.done |-> book.done[i].alloc],
         [i \in DOMAIN book.done |-> book.done[i].end], end, 0)

(* The totals, what is left and the sites are those of the recorder.       *)
LEMMA HeapTotals ==
  ASSUME NEW book, Tally(book, recorder), NEW end
  PROVE  /\ Heap(book, end).total = recorder.granted
         /\ Heap(book, end).in_use = InUse
         /\ InUse \in Nat /\ recorder.granted \in Nat
<1> DEFINE L == book.live
           D == book.done
           A == [i \in DOMAIN D |-> D[i].alloc]
           l == recorder.live
           g == [k \in DOMAIN D |-> D[k].alloc.bytes]
<1>1. /\ L \in [DOMAIN L -> Held] /\ l = [i \in DOMAIN L |-> L[i].bytes]
      /\ recorder.granted = Bytes(l) + Bytes(g) /\ recorder.granted \in Nat
  BY DEF Tally
<1>2. /\ IsFiniteSet(DOMAIN L) /\ DOMAIN l = DOMAIN L /\ \A i \in DOMAIN l : l[i] \in Nat
      /\ IsFiniteSet(DOMAIN D) /\ \A k \in DOMAIN D : D[k].alloc.bytes \in Nat
  BY TallyFacts
<1>3. BytesOf(L, DOMAIN L) = Bytes(l)
  <2>1. \A i \in DOMAIN L : L[i].bytes \in Nat
    BY <1>1 DEF Held
  <2> HIDE DEF L
  <2> QED BY <1>1, <1>2, <2>1, BytesOfIs
<1>4. BytesOf(A, DOMAIN A) = Bytes(g)
  <2>1. DOMAIN A = DOMAIN D /\ (\A k \in DOMAIN D : A[k].bytes = D[k].alloc.bytes /\ A[k].bytes \in Nat)
    BY <1>2
  <2>2. [i \in DOMAIN D |-> A[i].bytes] = g
    BY <2>1
  <2> HIDE DEF A, D, g
  <2> QED BY <1>2, <2>1, <2>2, BytesOfIs
<1>5. Bytes(l) \in Nat
  BY <1>2, BytesFacts
<1>6. Heap(book, end).total = BytesOf(L, DOMAIN L) + BytesOf(A, DOMAIN A)
  BY DEF Heap, HeapOf
<1>7. Heap(book, end).in_use = Max({BytesOf(L, DOMAIN L), 0})
  BY DEF Heap, HeapOf
<1> HIDE DEF L, A, g, l
<1> QED BY <1>1, <1>3, <1>4, <1>5, <1>6, <1>7, LargerOfZero, InUseIs DEF l

LEMMA HeapLeaves ==
  ASSUME NEW book, Tally(book, recorder), NEW end
  PROVE  Cardinality(Heap(book, end).suspects) + Len(Heap(book, end).lifetimes) = recorder.next - 1
<1> DEFINE L == book.live
           D == book.done
           A == [i \in DOMAIN D |-> D[i].alloc]
           n == Len(D)
           l == Heap(book, end).lifetimes
           s == Heap(book, end).suspects
<1>1. /\ IsFiniteSet(DOMAIN L) /\ Cardinality(DOMAIN L) \in Nat /\ n \in Nat /\ DOMAIN D = 1..n
      /\ recorder.next = Cardinality(DOMAIN L) + n + 1
  BY TallyFacts DEF Tally
<1>2. Cardinality(s) = Cardinality(DOMAIN L)
  <2>1. s = {[id |-> i, bytes |-> L[i].bytes, age |-> end - L[i].start] : i \in DOMAIN L}
    BY DEF Heap, HeapOf
  <2> HIDE DEF s, L
  <2> QED BY <1>1, <2>1, SuspectsCount
<1>3. Len(l) = n
  <2>1. DOMAIN l = 1..n
    BY <1>1 DEF Heap, HeapOf
  <2>2. l = [i \in 1..n |-> l[i]]
    BY <1>1 DEF Heap, HeapOf
  <2> HIDE DEF l, n
  <2>3. Len([i \in 1..n |-> l[i]]) = n
    BY <1>1
  <2> QED BY <2>2, <2>3
<1> HIDE DEF s, l, n, L
<1>4. Cardinality(s) + Len(l) = recorder.next - 1
  BY <1>1, <1>2, <1>3
<1> QED BY <1>4 DEF s, l

LEMMA HeapSites ==
  ASSUME NEW book, Tally(book, recorder), NEW end, NEW spots, spots = Heap(book, end).hotspots
  PROVE  /\ SiteSum(spots, "alloc") = recorder.granted
         /\ SiteSum(spots, "in_use") = InUse
         /\ SiteSum(spots, "count") = recorder.next - 1
<1> DEFINE L == book.live
           D == book.done
           A == [i \in DOMAIN D |-> D[i].alloc]
           S == {L[i].callsite : i \in DOMAIN L} \cup {A[i].callsite : i \in DOMAIN A}
           ofL == [s \in S |-> BytesOf(L, At(L, s))]
           ofA == [s \in S |-> BytesOf(A, At(A, s))]
           inL == [s \in S |-> Cardinality(At(L, s))]
           inA == [s \in S |-> Cardinality(At(A, s))]
<1>1. /\ IsFiniteSet(DOMAIN L) /\ IsFiniteSet(DOMAIN D) /\ DOMAIN A = DOMAIN D
      /\ Cardinality(DOMAIN D) = Len(D) /\ Cardinality(DOMAIN L) \in Nat /\ Len(D) \in Nat
      /\ recorder.next = Cardinality(DOMAIN L) + Len(D) + 1
  <2> DEFINE n == Len(D)
  <2>1. DOMAIN D = 1..n /\ n \in Nat
    BY TallyFacts
  <2> HIDE DEF n
  <2>2. Cardinality(1..n) = n
    BY <2>1, FS_Interval
  <2> QED BY <2>1, <2>2, TallyFacts DEF n, Tally
<1>2. /\ \A i \in DOMAIN L : L[i].bytes \in Nat /\ L[i].callsite \in S
      /\ \A i \in DOMAIN A : A[i].bytes \in Nat /\ A[i].callsite \in S
  <2>1. \A i \in DOMAIN L : L[i] \in Held
    BY DEF Tally
  <2>2. \A i \in DOMAIN D : D[i].alloc.bytes \in Nat
    BY TallyFacts
  <2> QED BY <2>1, <2>2 DEF Held
<1>3. IsFiniteSet(S)
  <2> DEFINE c == [i \in DOMAIN L |-> L[i].callsite]
             d == [i \in DOMAIN A |-> A[i].callsite]
  <2>1. IsFiniteSet(DOMAIN c) /\ IsFiniteSet(DOMAIN d)
    BY <1>1
  <2>2. S = {c[i] : i \in DOMAIN c} \cup {d[i] : i \in DOMAIN d}
    OBVIOUS
  <2> HIDE DEF c, d, S
  <2>3. IsFiniteSet({c[i] : i \in DOMAIN c}) /\ IsFiniteSet({d[i] : i \in DOMAIN d})
    BY <2>1, ImageFinite
  <2> QED BY <2>2, <2>3, FS_Union
<1>4. /\ DOMAIN spots = S
      /\ \A s \in S : /\ spots[s]["alloc"] = ofL[s] + ofA[s]
                      /\ spots[s]["in_use"] = ofL[s]
                      /\ spots[s]["count"] = inL[s] + inA[s]
  BY DEF Heap, HeapOf, Hotspot
<1> HIDE DEF S, A, D, L
<1>5. /\ \A s \in S : ofL[s] \in Nat /\ inL[s] \in Nat
      /\ Bytes(ofL) = BytesOf(L, DOMAIN L) /\ Bytes(inL) = Cardinality(DOMAIN L)
  BY <1>1, <1>2, <1>3, SitesAddUp
<1>6. /\ \A s \in S : ofA[s] \in Nat /\ inA[s] \in Nat
      /\ Bytes(ofA) = BytesOf(A, DOMAIN A) /\ Bytes(inA) = Cardinality(DOMAIN A)
  BY <1>1, <1>2, <1>3, SitesAddUp
<1>7. /\ Over(ofL, S) = Bytes(ofL) /\ Over(ofA, S) = Bytes(ofA)
      /\ Over(inL, S) = Bytes(inL) /\ Over(inA, S) = Bytes(inA)
  BY DEF Over
<1> HIDE DEF ofL, ofA, inL, inA
<1>8. Heap(book, end).total = BytesOf(L, DOMAIN L) + BytesOf(A, DOMAIN A)
      /\ Heap(book, end).in_use = Max({BytesOf(L, DOMAIN L), 0})
  BY DEF Heap, HeapOf, L, A, D
<1>9. BytesOf(L, DOMAIN L) = InUse /\ BytesOf(L, DOMAIN L) + BytesOf(A, DOMAIN A) = recorder.granted
  <2>1. Heap(book, end).total = recorder.granted /\ Heap(book, end).in_use = InUse
    BY HeapTotals
  <2>2. BytesOf(L, DOMAIN L) \in Nat
    <3>1. Bytes([s \in S |-> ofL[s]]) \in Nat
      <4> DEFINE f == [s \in S |-> ofL[s]]
      <4>1. DOMAIN f = S /\ \A s \in S : f[s] \in Nat
        BY <1>5
      <4> HIDE DEF f
      <4> QED BY <1>3, <4>1, BytesFacts DEF f
    <3> QED BY <1>5, <1>7, <3>1 DEF Over
  <2> QED BY <1>8, <2>1, <2>2, LargerOfZero
<1>10. SiteSum(spots, "alloc") = recorder.granted
  <2>1. \A s \in S : spots[s]["alloc"] \in Nat
    BY <1>4, <1>5, <1>6
  <2>2. SiteSum(spots, "alloc") = Bytes([s \in S |-> spots[s]["alloc"]])
    BY <1>3, <1>4, <2>1, SiteSumIs
  <2>3. [s \in S |-> spots[s]["alloc"]] = [s \in S |-> ofL[s] + ofA[s]]
    BY <1>4
  <2>4. Bytes([s \in S |-> ofL[s] + ofA[s]]) = Over(ofL, S) + Over(ofA, S)
    BY <1>3, <1>5, <1>6, SumOfSums
  <2> QED BY <1>4, <1>5, <1>6, <1>7, <1>9, <2>2, <2>3, <2>4
<1>11. SiteSum(spots, "in_use") = InUse
  <2>1. \A s \in S : spots[s]["in_use"] \in Nat
    BY <1>4, <1>5
  <2>2. SiteSum(spots, "in_use") = Bytes([s \in S |-> spots[s]["in_use"]])
    BY <1>3, <1>4, <2>1, SiteSumIs
  <2>3. [s \in S |-> spots[s]["in_use"]] = [s \in S |-> ofL[s]]
    BY <1>4
  <2> QED BY <1>4, <1>5, <1>7, <1>9, <2>2, <2>3 DEF Over
<1>12. SiteSum(spots, "count") = recorder.next - 1
  <2>1. \A s \in S : spots[s]["count"] \in Nat
    BY <1>4, <1>5, <1>6
  <2>2. SiteSum(spots, "count") = Bytes([s \in S |-> spots[s]["count"]])
    BY <1>3, <1>4, <2>1, SiteSumIs
  <2>3. [s \in S |-> spots[s]["count"]] = [s \in S |-> inL[s] + inA[s]]
    BY <1>4
  <2>4. Bytes([s \in S |-> inL[s] + inA[s]]) = Over(inL, S) + Over(inA, S)
    BY <1>3, <1>5, <1>6, SumOfSums
  <2>5. Over(inL, S) + Over(inA, S) = recorder.next - 1
    BY <1>1, <1>5, <1>6, <1>7
  <2> QED BY <1>4, <2>2, <2>3, <2>4, <2>5
<1> QED BY <1>10, <1>11, <1>12

LEMMA HeapInvAgrees == HeapInv => HeapAgreesWithRecorder
<1> SUFFICES ASSUME HeapInv PROVE HeapAgreesWithRecorder
  OBVIOUS
<1> DEFINE book == BookOf(events)
           end == EndTime(Timeline(events))
           heap == Heap(book, end)
<1>1. Tally(book, recorder)
  BY DEF HeapInv
<1>2. BuildHeapProfile(Timeline(events), 0) = heap
  BY DEF BuildHeapProfile, Heap, BookOf
<1> HIDE DEF book, end
<1>3. /\ heap.total = recorder.granted /\ heap.in_use = InUse
      /\ InUse \in Nat /\ recorder.granted \in Nat
  BY <1>1, HeapTotals
<1>4. /\ SiteSum(heap.hotspots, "alloc") = recorder.granted
      /\ SiteSum(heap.hotspots, "in_use") = InUse
      /\ SiteSum(heap.hotspots, "count") = recorder.next - 1
  BY <1>1, HeapSites
<1>5. Cardinality(heap.suspects) + Len(heap.lifetimes) = recorder.next - 1
  BY <1>1, HeapLeaves
<1> HIDE DEF heap
<1>6. ASSUME NEW b \in 0..2
      PROVE  HeapBudgetFindings(heap, [alloc |-> b, in_use |-> b])
               = (IF recorder.granted > b THEN {"heap_alloc_budget"} ELSE {})
                 \cup (IF InUse > b THEN {"heap_in_use_budget"} ELSE {})
  <2>1. b # None
    BY NoneAssumption
  <2> QED BY <1>3, <2>1 DEF HeapBudgetFindings
<1>7. Agrees(heap)
  BY <1>3, <1>4, <1>5, <1>6 DEF Agrees
<1> QED BY <1>2, <1>7 DEF HeapAgreesWithRecorder

(* The heap profile of a run agrees with the recorder of memory at every   *)
(* moment of every recording, for any blocks, sites, waits and number of   *)
(* steps: in total, in use, site by site, by its lifetimes and suspects    *)
(* and by what its budgets judge (build.rs, engine/exec/memory.rs).        *)
THEOREM HeapIsTheRecorders == ProfilesSpec => []HeapAgreesWithRecorder
<1>1. ProfilesInit => HeapInv
  BY InitHeapInv
<1>2. HeapInv /\ [ProfilesNext]_profile_vars => HeapInv'
  BY NextHeapInv
<1>3. HeapInv => HeapAgreesWithRecorder
  BY HeapInvAgrees
<1> QED BY <1>1, <1>2, <1>3, PTL DEF ProfilesSpec

(* The summary a diff is given and the one the workflows derive from its   *)
(* rows are the same, whatever the rows: every disagreement they could     *)
(* find would be in the rows (analysis.rs, the checks of the workflows).   *)
THEOREM SummaryIsDerived ==
  ASSUME NEW rows
  PROVE  Summary(rows) = DerivedSummary(rows)
<1> DEFINE worse == {i \in DOMAIN rows : rows[i].class = "regression"}
           better == {i \in DOMAIN rows : rows[i].class = "improvement"}
           much == {i \in worse : rows[i].significant}
           judged == CASE much # {} -> "regression_detected"
                       [] much = {} /\ worse # {} -> "minor_regression"
                       [] worse = {} -> IF better # {} THEN "improvement" ELSE "stable"
           derived == IF much # {} THEN "regression_detected"
                      ELSE IF worse # {} THEN "minor_regression"
                      ELSE IF better # {} THEN "improvement" ELSE "stable"
           top == IF worse = {} THEN None ELSE rows[Min(worse)].metric
<1>1. much \subseteq worse
  OBVIOUS
<1>2. Summary(rows) = [regressions |-> Cardinality(worse), significant |-> Cardinality(much),
                       improvements |-> Cardinality(better), top |-> top, verdict |-> judged]
  BY DEF Summary
<1>3. DerivedSummary(rows) = [regressions |-> Cardinality(worse), significant |-> Cardinality(much),
                              improvements |-> Cardinality(better), top |-> top, verdict |-> derived]
  BY DEF DerivedSummary
<1> HIDE DEF worse, much, better, top
<1>4. judged = derived
  BY <1>1
<1> QED BY <1>2, <1>3, <1>4

(* Every row of a diff passes the workflows' check of it: a change of a    *)
(* known domain is a regression, an improvement or stable, and a stable    *)
(* one is never significant, whatever the counts and their unit            *)
(* (analysis.rs, the checks of the workflows).                             *)
THEOREM RowsPassTheCheck ==
  ASSUME NEW metric, NEW domain \in KnownProfileDomain, NEW virtual \in BOOLEAN,
         NEW c, c.l \in Nat, c.r \in Nat, c.den \in Nat \ {0}
  PROVE  RowOk(ClassifyRegression(metric, domain, c, virtual))
<1> DEFINE class == Class(c)
           significant == Significant(c, virtual)
           row == ClassifyRegression(metric, domain, c, virtual)
<1>1. row.domain = domain /\ row.class = class /\ row.significant = significant
  BY DEF ClassifyRegression, Row
<1>2. class \in {"regression", "improvement", "stable"}
  BY DEF Class
<1>3. class = "stable" => ~significant
  <2> DEFINE l == c.l
             r == c.r
             den == c.den
  <2>1. l \in Nat /\ r \in Nat /\ den \in Nat \ {0}
    OBVIOUS
  <2>2. class = (IF r > l THEN "regression" ELSE IF r < l THEN "improvement" ELSE "stable")
    BY DEF Class
  <2>3. significant => Abs(r - l) >= den
    BY DEF Significant
  <2> HIDE DEF l, r, den, class, significant
  <2>4. SUFFICES ASSUME class = "stable" PROVE ~significant
    OBVIOUS
  <2>5. r = l
    <3>1. ~(r > l) /\ ~(r < l)
      BY <2>2, <2>4
    <3> QED BY <2>1, <3>1
  <2>6. Abs(r - l) = 0
    BY <2>1, <2>5 DEF Abs
  <2> QED BY <2>1, <2>3, <2>6
<1> HIDE DEF class, significant, row
<1>4. RowOk(row)
  BY <1>1, <1>2, <1>3 DEF RowOk
<1> QED BY <1>4 DEF row
=============================================================================
