--------------------------- MODULE FinalizeProofs ---------------------------
(***************************************************************************)
(* What a process that ends a run leaves in files that others write too:   *)
(* the run alias index (AliasIndex) and the recorded trace (TraceRecord),  *)
(* for any number of processes.                                            *)
(*                                                                         *)
(* Index: a process writes the artifacts of its run before it names it,    *)
(* and every list it holds in memory is sound, so that whatever overlaps,  *)
(* an index that parses is sound.  Processes one after the other moreover  *)
(* hold every completed run while they rewrite the index.                  *)
(*                                                                         *)
(* Trace: types; mutual exclusion while no lock outlives its time to live  *)
(* (when one does, two recorders that judge the same lock stale can both   *)
(* go on to write); and that a recording no other overlaps is one atomic   *)
(* change of the directory.                                                *)
(***************************************************************************)
EXTENDS AliasIndex, TraceRecord, FiniteSetTheorems, WellFoundedInduction, TLAPS

(***************************************************************************)
(* Sorting.  An order is a set of pairs.                                   *)
(***************************************************************************)
IsOrder(S, R) ==
  /\ \A a, b \in S : a # b => <<a, b>> \in R \/ <<b, a>> \in R
  /\ \A a, b, c \in S : <<a, b>> \in R /\ <<b, c>> \in R => <<a, c>> \in R

InOrder(e, S, R) ==
  /\ e \in SetToSeqs(S)
  /\ \A i, j \in DOMAIN e : i < j => <<e[i], e[j]>> \in R

(* A counterexample among the subsets of a finite set has one that is      *)
(* smallest.                                                               *)
LEMMA Smallest ==
  ASSUME NEW S, IsFiniteSet(S), NEW Bad \in SUBSET SUBSET S, Bad # {}
  PROVE  \E T \in Bad : \A U \in Bad : U \subseteq T => U = T
<1>1. \A T \in SUBSET S : IsFiniteSet(T)
  BY FS_Subset
<1>2. Bad \subseteq FiniteSubsetsOf(S)
  BY <1>1 DEF FiniteSubsetsOf
<1>3. PICK T \in Bad : \A U \in Bad : ~ (<<U, T>> \in StrictSubsetOrdering(S))
  BY <1>2, FS_StrictSubsetOrderingWellFounded, WFMin
<1>4. QED BY <1>3 DEF StrictSubsetOrdering

LEMMA Greatest ==
  ASSUME NEW S, IsFiniteSet(S), S # {}, NEW R, IsOrder(S, R)
  PROVE  \E z \in S : \A a \in S \ {z} : <<a, z>> \in R
<1> DEFINE Top(T) == \E z \in T : \A a \in T \ {z} : <<a, z>> \in R
           Bad == {T \in SUBSET S : T # {} /\ ~ Top(T)}
<1> SUFFICES ASSUME Bad # {} PROVE FALSE
  OBVIOUS
<1>1. Bad \in SUBSET SUBSET S
  OBVIOUS
<1> HIDE DEF Bad
<1>2. PICK T \in Bad : \A U \in Bad : U \subseteq T => U = T
  BY <1>1, Smallest
<1> USE DEF Bad
<1>3. PICK x : x \in T
  BY <1>2
<1>4. CASE T = {x}
  BY <1>2, <1>4
<1>5. CASE T # {x}
  <2>1. T \ {x} \notin Bad /\ T \ {x} # {} /\ T \ {x} \in SUBSET S
    BY <1>2, <1>3, <1>5
  <2>2. PICK z \in T \ {x} : \A a \in (T \ {x}) \ {z} : <<a, z>> \in R
    BY <2>1
  <2>3. x \in S /\ z \in S /\ x # z
    BY <1>1, <1>2, <1>3, <2>2
  <2>4. CASE <<x, z>> \in R
    <3>1. \A a \in T \ {z} : <<a, z>> \in R
      BY <2>2, <2>4
    <3>2. QED BY <1>2, <2>2, <3>1
  <2>5. CASE <<z, x>> \in R
    <3>1. \A a \in T \ {x} : <<a, x>> \in R
      BY <1>2, <2>2, <2>3, <2>5 DEF IsOrder
    <3>2. QED BY <1>2, <1>3, <3>1
  <2>6. QED BY <2>3, <2>4, <2>5 DEF IsOrder
<1>6. QED BY <1>4, <1>5

LEMMA SortedExists ==
  ASSUME NEW S, IsFiniteSet(S), NEW R, IsOrder(S, R)
  PROVE  InOrder(Sorted(S, R), S, R)
<1> DEFINE Bad == {T \in SUBSET S : \A e : ~ InOrder(e, T, R)}
<1>1. Bad = {}
  <2> SUFFICES ASSUME Bad # {} PROVE FALSE
    OBVIOUS
  <2>1. Bad \in SUBSET SUBSET S
    OBVIOUS
  <2> HIDE DEF Bad
  <2>2. PICK T \in Bad : \A U \in Bad : U \subseteq T => U = T
    BY <2>1, Smallest
  <2> USE DEF Bad
  <2>3. T \subseteq S /\ IsFiniteSet(T) /\ Cardinality(T) \in Nat
    BY <2>2, FS_Subset, FS_CardinalityType
  <2>4. CASE T = {}
    <3> DEFINE none == [i \in 1..0 |-> 0]
    <3>1. Cardinality(T) = 0
      BY <2>4, FS_EmptySet
    <3>2. none \in [1..0 -> T]
      OBVIOUS
    <3>3. InOrder(none, T, R)
      BY <3>1, <3>2 DEF InOrder, SetToSeqs
    <3>4. QED BY <2>2, <3>3
  <2>5. CASE T # {}
    <3>1. IsOrder(T, R)
      BY <2>3 DEF IsOrder
    <3>2. PICK z \in T : \A a \in T \ {z} : <<a, z>> \in R
      BY <2>3, <2>5, <3>1, Greatest
    <3>3. PICK e : InOrder(e, T \ {z}, R)
      <4>1. T \ {z} \notin Bad /\ T \ {z} \in SUBSET S
        BY <2>2, <2>3, <3>2
      <4>2. QED BY <4>1
    <3> DEFINE n == Cardinality(T)
    <3>4. n \in Nat \ {0} /\ Cardinality(T \ {z}) = n - 1
      <4>1. Cardinality(T) # 0
        BY <2>3, <2>5, FS_EmptySet
      <4>2. Cardinality(T \ {z}) = Cardinality(T) - 1
        BY <2>3, FS_RemoveElement
      <4>3. QED BY <2>3, <4>1, <4>2
    <3> HIDE DEF n
    <3> DEFINE D == 1..n
               f == [i \in D |-> IF i = n THEN z ELSE e[i]]
    <3>5. e \in [1..(n - 1) -> T \ {z}] /\ \A i, j \in 1..(n - 1) : i # j => e[i] # e[j]
      BY <3>3, <3>4 DEF InOrder, SetToSeqs
    <3>6. \A i \in 1..(n - 1) : i \in D /\ i # n /\ f[i] = e[i] /\ e[i] \in T \ {z}
      BY <3>4, <3>5
    <3>7. \A i \in D : i = n \/ i \in 1..(n - 1)
      BY <3>4
    <3>8. n \in D /\ f[n] = z
      BY <3>4
    <3>9. f \in [D -> T]
      BY <3>2, <3>6, <3>7
    <3>10. \A i, j \in D : i # j => f[i] # f[j]
      BY <3>5, <3>6, <3>7, <3>8, Zenon
    <3>11. \A i, j \in 1..(n - 1) : i < j => <<e[i], e[j]>> \in R
      BY <3>3, <3>5 DEF InOrder
    <3>12. ASSUME NEW i \in D, NEW j \in D, i < j PROVE <<f[i], f[j]>> \in R
      <4>1. i \in 1..(n - 1)
        BY <3>4, <3>12
      <4>2. CASE j = n
        BY <3>2, <3>6, <3>8, <4>1, <4>2
      <4>3. CASE j \in 1..(n - 1)
        BY <3>6, <3>11, <3>12, <4>1, <4>3
      <4>4. QED BY <3>7, <4>2, <4>3
    <3>13. InOrder(f, T, R)
      <4>1. D = 1..Cardinality(T) /\ DOMAIN f = D
        BY DEF n
      <4> HIDE DEF D, f
      <4>2. f \in SetToSeqs(T)
        BY <3>9, <3>10, <4>1 DEF SetToSeqs
      <4>3. QED BY <3>12, <4>1, <4>2 DEF InOrder
    <3>14. QED BY <2>2, <3>13
  <2>6. QED BY <2>4, <2>5
<1>2. \E e : InOrder(e, S, R)
  BY <1>1
<1>3. \E e \in SetToSeqs(S) : \A i, j \in DOMAIN e : i < j => <<e[i], e[j]>> \in R
  BY <1>2 DEF InOrder
<1>4. QED BY <1>3, Zenon DEF Sorted, InOrder

(* What is sorted is all there, once.                                      *)
LEMMA SortedFacts ==
  ASSUME NEW S, IsFiniteSet(S), NEW e \in SetToSeqs(S)
  PROVE  /\ e \in Seq(S) /\ Len(e) = Cardinality(S) /\ DOMAIN e = 1..Len(e)
         /\ ToSet(e) = S
         /\ \A i, j \in DOMAIN e : i # j => e[i] # e[j]
<1> DEFINE n == Cardinality(S)
<1>1. n \in Nat
  BY FS_CardinalityType
<1>2. e \in [1..n -> S] /\ \A i, j \in 1..n : i # j => e[i] # e[j]
  BY DEF SetToSeqs
<1>3. IsFiniteSet(1..n) /\ Cardinality(1..n) = n
  BY <1>1, FS_Interval
<1>4. e \in Injection(1..n, S)
  BY <1>2 DEF Injection, IsInjective
<1>5. e \in Surjection(1..n, S)
  BY <1>3, <1>4, FS_Injection
<1>6. ToSet(e) = S
  BY <1>2, <1>5 DEF ToSet, Surjection
<1>7. e \in Seq(S) /\ Len(e) = n /\ DOMAIN e = 1..n
  BY <1>1, <1>2
<1>8. QED BY <1>2, <1>6, <1>7
-----------------------------------------------------------------------------
Lists(e, S) ==   \* e lists the members of S, each once
  /\ e \in Seq(S) /\ ToSet(e) = S
  /\ \A i, j \in DOMAIN e : i # j => e[i] # e[j]

Strict(e) == \A i, j \in DOMAIN e : i < j => Newer(e[i], e[j])

LEMMA OrderedFacts ==
  ASSUME finished \in [Runs -> Times], NEW S \in SUBSET Runs
  PROVE  Lists(Ordered(S), S) /\ Strict(Ordered(S))
<1> DEFINE R == {p \in S \X S : Newer(p[1], p[2])}
<1>1. \A a, b \in S : <<a, b>> \in R <=> Newer(a, b)
  OBVIOUS
<1>2. \A a \in S : a \in Nat /\ finished[a] \in Nat
  BY RunsAssumption
<1>3. IsOrder(S, R)
  <2>1. \A a, b \in S : a # b => Newer(a, b) \/ Newer(b, a)
    BY <1>2 DEF Newer
  <2>2. \A a, b, c \in S : Newer(a, b) /\ Newer(b, c) => Newer(a, c)
    BY <1>2 DEF Newer
  <2> HIDE DEF R
  <2>3. QED BY <1>1, <2>1, <2>2, Zenon DEF IsOrder
<1>4. IsFiniteSet(S)
  BY RunsAssumption, FS_Subset
<1>5. InOrder(Ordered(S), S, R)
  BY <1>3, <1>4, SortedExists DEF Ordered
<1> HIDE DEF R
<1>6. Ordered(S) \in SetToSeqs(S)
  BY <1>5 DEF InOrder
<1>7. Lists(Ordered(S), S)
  BY <1>4, <1>6, SortedFacts DEF Lists
<1>8. \A i \in DOMAIN Ordered(S) : Ordered(S)[i] \in S
  BY <1>7 DEF Lists
<1>9. QED BY <1>1, <1>5, <1>7, <1>8 DEF InOrder, Strict

(* What is retained are entries at growing places.                         *)
LEMMA RetainedFacts ==
  ASSUME NEW S, NEW e \in Seq(S)
  PROVE  /\ Retained(e) \in Seq(S)
         /\ ToSet(Retained(e)) = {x \in ToSet(e) : Coherent(x)}
         /\ \E k \in [DOMAIN Retained(e) -> DOMAIN e] :
              /\ \A i \in DOMAIN Retained(e) : Retained(e)[i] = e[k[i]]
              /\ \A i, j \in DOMAIN Retained(e) : i < j => k[i] < k[j]
              /\ \A i, j \in DOMAIN Retained(e) : i # j => k[i] # k[j]
<1> DEFINE places == {i \in DOMAIN e : Coherent(e[i])}
           R == {p \in places \X places : p[1] < p[2]}
           k == Sorted(places, R)
<1>1. DOMAIN e = 1..Len(e) /\ Len(e) \in Nat /\ places \subseteq DOMAIN e
  OBVIOUS
<1>2. IsFiniteSet(places)
  <2>1. IsFiniteSet(1..Len(e))
    BY <1>1, FS_Interval
  <2>2. QED BY <1>1, <2>1, FS_Subset
<1>3. \A a, b \in places : <<a, b>> \in R <=> a < b
  OBVIOUS
<1>4. IsOrder(places, R)
  <2>1. \A a, b \in places : a # b => a < b \/ b < a
    BY <1>1
  <2>2. \A a, b, c \in places : a < b /\ b < c => a < c
    BY <1>1
  <2> HIDE DEF R, places
  <2>3. QED BY <1>3, <2>1, <2>2, Zenon DEF IsOrder
<1>5. Retained(e) = [i \in DOMAIN k |-> e[k[i]]]
  BY DEF Retained
<1>6. InOrder(k, places, R)
  BY <1>2, <1>4, SortedExists
<1> HIDE DEF k
<1>7. /\ k \in Seq(places) /\ DOMAIN k = 1..Len(k) /\ ToSet(k) = places
      /\ \A i, j \in DOMAIN k : i # j => k[i] # k[j]
  <2>1. k \in SetToSeqs(places)
    BY <1>6 DEF InOrder
  <2> HIDE DEF places
  <2>2. QED BY <1>2, <2>1, SortedFacts
<1>8. \A i \in DOMAIN k : k[i] \in places
  BY <1>7
<1>9. \A i, j \in DOMAIN k : i < j => k[i] < k[j]
  BY <1>3, <1>6, <1>8 DEF InOrder
<1>10. DOMAIN Retained(e) = DOMAIN k /\ \A i \in DOMAIN k : Retained(e)[i] = e[k[i]]
  BY <1>5
<1>11. Retained(e) \in Seq(S)
  <2>1. \A i \in DOMAIN k : e[k[i]] \in S
    BY <1>1, <1>8
  <2>2. Len(k) \in Nat
    BY <1>7
  <2>3. QED BY <1>5, <1>7, <2>1, <2>2
<1>12. ToSet(Retained(e)) = {x \in ToSet(e) : Coherent(x)}
  <2>1. ToSet(Retained(e)) = {e[k[i]] : i \in DOMAIN k}
    BY <1>10 DEF ToSet
  <2>2. {k[i] : i \in DOMAIN k} = places
    BY <1>7 DEF ToSet
  <2>3. {e[k[i]] : i \in DOMAIN k} = {e[i] : i \in places}
    BY <2>2
  <2>4. {e[i] : i \in places} = {x \in {e[i] : i \in DOMAIN e} : Coherent(x)}
    OBVIOUS
  <2>5. QED BY <2>1, <2>3, <2>4 DEF ToSet
<1>13. k \in [DOMAIN Retained(e) -> DOMAIN e]
  BY <1>1, <1>7, <1>8, <1>10
<1>14. QED BY <1>7, <1>9, <1>10, <1>11, <1>12, <1>13

-----------------------------------------------------------------------------
(***************************************************************************)
(* An index that parses is sound.                                          *)
(***************************************************************************)
WriterStates == {"report", "reporting", "manifest", "manifesting", "index", "truncate",
                 "indexing", "done", "crashed"}
ReaderStates == {"idle", "scan", "truncate", "indexing", "pick", "answered"}
States == {"absent", "torn", "whole"}

ITyped ==
  /\ orderly \in BOOLEAN /\ finished \in [Runs -> Times]
  /\ writer \in [Runs -> WriterStates] /\ reader \in [Readers -> ReaderStates]
  /\ report \in [Runs -> States] /\ manifest \in [Runs -> States]
  /\ deleted \in SUBSET Runs
  /\ file = [state |-> file.state, entries |-> file.entries] /\ file.entries \in Seq(Runs)
  /\ held \in [Runs \cup Readers -> Seq(Runs)]
  /\ answer \in [Readers -> Runs \cup {None}]

(* A process writes the artifacts before it touches the index.             *)
ArtifactsInv ==
  \A r \in Runs :
    /\ writer[r] = "report" => report[r] = "absent"
    /\ writer[r] \in {"report", "reporting", "manifest"} => manifest[r] = "absent"
    /\ writer[r] \in {"manifest", "manifesting"} => report[r] = "whole"
    /\ writer[r] \in {"index", "truncate", "indexing", "done"} =>
         report[r] = "whole" /\ manifest[r] = "whole"
    /\ r \in deleted => writer[r] \in {"done", "crashed"}

Sound(e) ==
  /\ \A i \in DOMAIN e : report[e[i]] = "whole" /\ manifest[e[i]] = "whole"
  /\ \A i, j \in DOMAIN e : i # j => e[i] # e[j]
  /\ NewestFirst(e)

SoundInv == /\ \A p \in Runs \cup Readers : Sound(held[p])
            /\ file.state = "whole" => Sound(file.entries)

XInv == ITyped /\ ArtifactsInv /\ SoundInv /\ AnswerIsCoherent

(* What is written stays written.                                          *)
Grows == /\ \A r \in Runs : /\ report[r] = "whole" => report'[r] = "whole"
                            /\ manifest[r] = "whole" => manifest'[r] = "whole"
         /\ UNCHANGED <<given, alias>>

SoundNext(e) ==   \* e is sound after the step
  /\ \A i \in DOMAIN e : report'[e[i]] = "whole" /\ manifest'[e[i]] = "whole"
  /\ \A i, j \in DOMAIN e : i # j => e[i] # e[j]
  /\ NewestFirst(e)

LEMMA SoundStays == Grows => \A e \in Seq(Runs) : Sound(e) => SoundNext(e)
<1> SUFFICES ASSUME Grows, NEW e \in Seq(Runs), Sound(e) PROVE SoundNext(e)
  OBVIOUS
<1>1. \A i \in DOMAIN e : e[i] \in Runs
  OBVIOUS
<1>2. QED BY <1>1 DEF Grows, Sound, SoundNext

LEMMA SoundNextIs ==
  ASSUME UNCHANGED finished, \A p \in Runs \cup Readers : SoundNext(held'[p]),
         file'.state = "whole" => SoundNext(file'.entries)
  PROVE  SoundInv'
<1>1. \A p \in Runs \cup Readers : Sound(held[p])'
  BY DEF SoundNext, Sound, NewestFirst
<1>2. (file.state = "whole" => Sound(file.entries))'
  BY DEF SoundNext, Sound, NewestFirst
<1>3. QED BY <1>1, <1>2 DEF SoundInv

LEMMA InitXInv == IndexInit => XInv
<1> SUFFICES ASSUME IndexInit PROVE XInv
  OBVIOUS
<1>1. <<>> \in Seq(Runs) /\ DOMAIN <<>> = {}
  OBVIOUS
<1>2. ITyped
  BY <1>1 DEF IndexInit, ITyped, WriterStates, ReaderStates, States
<1>3. ArtifactsInv
  BY DEF IndexInit, ArtifactsInv
<1>4. Sound(<<>>)
  BY <1>1 DEF Sound, NewestFirst
<1>5. SoundInv
  BY <1>4 DEF IndexInit, SoundInv
<1>6. AnswerIsCoherent
  BY DEF IndexInit, AnswerIsCoherent
<1>7. QED BY <1>2, <1>3, <1>5, <1>6 DEF XInv

(* Answers of before are as good as they were.                             *)
LEMMA AnswerStays ==
  ASSUME XInv, Grows, NEW q \in Readers, answer'[q] = answer[q], answer[q] # None
  PROVE  /\ report'[answer'[q]] = "whole" /\ manifest'[answer'[q]] = "whole"
         /\ Accepts(q, answer[q])'
<1>1. answer[q] \in Runs
  BY DEF XInv, ITyped
<1>2. report[answer[q]] = "whole" /\ manifest[answer[q]] = "whole" /\ Accepts(q, answer[q])
  BY DEF XInv, AnswerIsCoherent
<1>3. Accepts(q, answer[q])'
  BY <1>2 DEF Grows, given, Accepts
<1>4. QED BY <1>1, <1>2, <1>3 DEF Grows

(* A step that writes a sound sequence into the index file or the memory   *)
(* of a process.                                                           *)
LEMMA WritingStep ==
  ASSUME XInv, Grows, ITyped', ArtifactsInv', UNCHANGED answer,
         \A p \in Runs \cup Readers : held'[p] = held[p] \/ SoundNext(held'[p]),
         file'.state = "whole" => \/ file' = file
                                 \/ SoundNext(file'.entries)
  PROVE  XInv'
<1>1. \A p \in Runs \cup Readers : SoundNext(held'[p])
  <2>1. \A p \in Runs \cup Readers : held[p] \in Seq(Runs) /\ Sound(held[p])
    BY DEF XInv, ITyped, SoundInv
  <2>2. QED BY <2>1, SoundStays
<1>2. file'.state = "whole" => SoundNext(file'.entries)
  <2>1. file.state = "whole" => file.entries \in Seq(Runs) /\ Sound(file.entries)
    BY DEF XInv, ITyped, SoundInv
  <2>2. QED BY <2>1, SoundStays
<1>3. SoundInv'
  BY <1>1, <1>2, SoundNextIs DEF Grows, given
<1>4. AnswerIsCoherent'
  BY AnswerStays DEF AnswerIsCoherent
<1>5. QED BY <1>3, <1>4 DEF XInv
(* In the order of Newer no run is before one that finished later.         *)
LEMMA OrderedIsSound ==
  ASSUME ITyped, NEW S \in SUBSET Runs,
         \A r \in S : report[r] = "whole" /\ manifest[r] = "whole"
  PROVE  Sound(Ordered(S)) /\ Ordered(S) \in Seq(Runs)
<1> DEFINE e == Ordered(S)
<1>1. Lists(e, S) /\ Strict(e)
  BY OrderedFacts DEF ITyped
<1> HIDE DEF e
<1>2. \A i \in DOMAIN e : e[i] \in S /\ e[i] \in Runs
  BY <1>1 DEF Lists
<1>3. \A r \in Runs : finished[r] \in Nat
  BY RunsAssumption DEF ITyped
<1>4. NewestFirst(e)
  <2>1. ASSUME NEW i \in DOMAIN e, NEW j \in DOMAIN e, i < j
        PROVE  finished[e[i]] >= finished[e[j]]
    BY <1>1, <1>2, <1>3, <2>1 DEF Strict, Newer
  <2>2. QED BY <2>1 DEF NewestFirst
<1>5. e \in Seq(Runs)
  <2>1. e \in Seq(S) /\ S \subseteq Runs
    BY <1>1 DEF Lists
  <2>2. QED BY <2>1
<1>6. QED BY <1>1, <1>2, <1>4, <1>5 DEF Sound, Lists, e

LEMMA RetainedIsSound ==
  ASSUME NEW e \in Seq(Runs), Sound(e)
  PROVE  Sound(Retained(e)) /\ Retained(e) \in Seq(Runs)
<1>1. PICK k \in [DOMAIN Retained(e) -> DOMAIN e] :
        /\ \A i \in DOMAIN Retained(e) : Retained(e)[i] = e[k[i]]
        /\ \A i, j \in DOMAIN Retained(e) : i < j => k[i] < k[j]
        /\ \A i, j \in DOMAIN Retained(e) : i # j => k[i] # k[j]
  BY RetainedFacts
<1>2. NewestFirst(Retained(e))
  BY <1>1 DEF Sound, NewestFirst
<1>3. \A i \in DOMAIN Retained(e) : k[i] \in DOMAIN e
  BY <1>1
<1>4. QED BY <1>1, <1>2, <1>3, RetainedFacts DEF Sound

(* load_run_index lists the coherent runs, newest first.                   *)
LEMMA ScannedIsSound ==
  ASSUME ITyped, NEW e \in Scanned({r \in Runs : Coherent(r)})
  PROVE  Sound(e) /\ e \in Seq(Runs) /\ ToSet(e) = {r \in Runs : Coherent(r)}
<1> DEFINE S == {r \in Runs : Coherent(r)}
<1>1. e \in SetToSeqs(S) /\ NewestFirst(e)
  BY DEF Scanned
<1>2. IsFiniteSet(S) /\ S \subseteq Runs
  BY RunsAssumption, FS_Subset
<1> HIDE DEF S
<1>3. e \in Seq(S) /\ ToSet(e) = S /\ \A i, j \in DOMAIN e : i # j => e[i] # e[j]
  BY <1>1, <1>2, SortedFacts
<1>4. \A i \in DOMAIN e : e[i] \in S
  BY <1>3
<1>5. e \in Seq(Runs)
  BY <1>2, <1>3
<1>6. Sound(e)
  BY <1>1, <1>3, <1>4 DEF Sound, S, Coherent
<1>7. QED BY <1>3, <1>5, <1>6 DEF S

(* What a process writes is whole, or not a file that parses.              *)
LEMMA AfterWriteFacts ==
  ASSUME NEW e, NEW f \in AfterWrite(e)
  PROVE  \/ f = Whole(e)
         \/ f = Clobbered
BY DEF AfterWrite

LEMMA FileShapes ==
  ASSUME NEW f, NEW e, f = Truncated \/ f = Whole(e) \/ f = Clobbered
  PROVE  /\ f = [state |-> f.state, entries |-> f.entries]
         /\ f.entries = <<>> \/ f.entries = e \/ f.entries = file.entries
<1>1. CASE f = Truncated
  BY <1>1 DEF Truncated
<1>2. CASE f = Whole(e)
  BY <1>2 DEF Whole
<1>3. CASE f = Clobbered
  BY <1>3 DEF Clobbered
<1>4. QED BY <1>1, <1>2, <1>3

(* What a step of a writer leaves behind is typed and in order.            *)
LEMMA WriteReportHolds == ASSUME XInv, NEW r \in Runs, WriteReport(r) PROVE XInv' /\ Grows
<1> USE DEF XInv
<1>1. Grows
  BY DEF WriteReport, ArtifactsInv, ITyped, Grows, lookups, given
<1>2. ITyped'
  BY DEF WriteReport, ITyped, lookups, given, WriterStates, States
<1>3. ArtifactsInv'
  BY DEF WriteReport, ArtifactsInv, ITyped
<1>4. UNCHANGED <<held, answer, file>>
  BY DEF WriteReport, lookups
<1>5. QED BY <1>1, <1>2, <1>3, <1>4, WritingStep

LEMMA WriteManifestHolds == ASSUME XInv, NEW r \in Runs, WriteManifest(r) PROVE XInv' /\ Grows
<1> USE DEF XInv
<1>1. Grows
  BY DEF WriteManifest, ArtifactsInv, ITyped, Grows, lookups, given
<1>2. ITyped'
  BY DEF WriteManifest, ITyped, lookups, given, WriterStates, States
<1>3. ArtifactsInv'
  BY DEF WriteManifest, ArtifactsInv, ITyped
<1>4. UNCHANGED <<held, answer, file>>
  BY DEF WriteManifest, lookups
<1>5. QED BY <1>1, <1>2, <1>3, <1>4, WritingStep

LEMMA UpdateIndexHolds == ASSUME XInv, NEW r \in Runs, UpdateIndex(r) PROVE XInv' /\ Grows
<1> USE DEF XInv
<1> DEFINE S == EntriesWith(r) \ deleted
<1>1. Grows
  BY DEF UpdateIndex, Grows, lookups, given, artifacts
<1>2. S \in SUBSET Runs /\ \A s \in S : report[s] = "whole" /\ manifest[s] = "whole"
  <2>1. \A i \in DOMAIN file.entries : file.entries[i] \in Runs
    BY DEF ITyped
  <2>2. file.state = "whole" =>
          \A s \in ToSet(file.entries) : report[s] = "whole" /\ manifest[s] = "whole" /\ s \in Runs
    BY <2>1 DEF SoundInv, Sound, ToSet
  <2>3. report[r] = "whole" /\ manifest[r] = "whole"
    BY DEF UpdateIndex, ArtifactsInv
  <2>4. QED BY <2>2, <2>3 DEF EntriesWith, Entries
<1> HIDE DEF S
<1>3. Sound(Ordered(S)) /\ Ordered(S) \in Seq(Runs)
  BY <1>2, OrderedIsSound
<1>4. held' = [held EXCEPT ![r] = Ordered(S)]
  BY DEF UpdateIndex, S
<1>5. ITyped'
  BY <1>3, <1>4 DEF UpdateIndex, ITyped, lookups, given, artifacts, WriterStates
<1>6. ArtifactsInv'
  BY DEF UpdateIndex, ArtifactsInv, ITyped, artifacts
<1>7. \A p \in Runs \cup Readers : held'[p] = held[p] \/ SoundNext(held'[p])
  <2>1. SoundNext(Ordered(S))
    BY <1>1, <1>3, SoundStays
  <2>2. QED BY <1>4, <2>1 DEF ITyped
<1>8. UNCHANGED <<answer, file>>
  BY DEF UpdateIndex, lookups
<1>9. QED BY <1>1, <1>5, <1>6, <1>7, <1>8, WritingStep

LEMMA WriteIndexHolds == ASSUME XInv, NEW r \in Runs, WriteIndex(r) PROVE XInv' /\ Grows
<1> USE DEF XInv
<1>1. Grows
  BY DEF WriteIndex, Grows, lookups, given, artifacts
<1>2. \/ file' = Truncated
      \/ file' = Whole(held[r]) \/ file' = Clobbered
  BY AfterWriteFacts DEF WriteIndex
<1>3. held[r] \in Seq(Runs) /\ file.entries \in Seq(Runs) /\ <<>> \in Seq(Runs)
  BY DEF ITyped
<1>4. file' = [state |-> file'.state, entries |-> file'.entries] /\ file'.entries \in Seq(Runs)
  BY <1>2, <1>3, FileShapes
<1>5. ITyped'
  BY <1>4 DEF WriteIndex, ITyped, lookups, given, artifacts, WriterStates
<1>6. ArtifactsInv'
  BY DEF WriteIndex, ArtifactsInv, ITyped, artifacts
<1>7. file'.state = "whole" => SoundNext(file'.entries)
  <2>1. SoundNext(held[r])
    BY <1>1, <1>3, SoundStays DEF SoundInv
  <2>2. QED BY <1>2, <2>1 DEF Truncated, Whole, Clobbered
<1>8. UNCHANGED <<answer, held>>
  BY DEF WriteIndex, lookups
<1>9. QED BY <1>1, <1>5, <1>6, <1>7, <1>8, WritingStep

LEMMA CrashHolds == ASSUME XInv, NEW r \in Runs, Crash(r) \/ DeleteRun(r) PROVE XInv' /\ Grows
<1> USE DEF XInv
<1>1. Grows
  BY DEF Crash, DeleteRun, Grows, lookups, given, artifacts
<1>2. ITyped'
  BY DEF Crash, DeleteRun, ITyped, lookups, given, artifacts, WriterStates
<1>3. ArtifactsInv'
  BY DEF Crash, DeleteRun, ArtifactsInv, ITyped, artifacts, Resting
<1>4. UNCHANGED <<held, answer, file>>
  BY DEF Crash, DeleteRun, lookups
<1>5. QED BY <1>1, <1>2, <1>3, <1>4, WritingStep

LEMMA ReadIndexHolds == ASSUME XInv, NEW q \in Readers, ReadIndex(q) PROVE XInv' /\ Grows
<1> USE DEF XInv
<1>1. Grows
  BY DEF ReadIndex, Grows, lookups, given, artifacts
<1>2. \/ held' = held
      \/ file.state = "whole" /\ held' = [held EXCEPT ![q] = Retained(file.entries)]
  BY DEF ReadIndex
<1>3. file.state = "whole" => Sound(Retained(file.entries)) /\ Retained(file.entries) \in Seq(Runs)
  BY RetainedIsSound DEF ITyped, SoundInv
<1>4. held' \in [Runs \cup Readers -> Seq(Runs)]
  BY <1>2, <1>3 DEF ITyped
<1>5. ITyped'
  BY <1>4 DEF ReadIndex, ITyped, given, artifacts, ReaderStates
<1>6. ArtifactsInv'
  BY DEF ReadIndex, ArtifactsInv, artifacts
<1>7. \A p \in Runs \cup Readers : held'[p] = held[p] \/ SoundNext(held'[p])
  <2>1. file.state = "whole" => SoundNext(Retained(file.entries))
    BY <1>1, <1>3, SoundStays
  <2>2. QED BY <1>2, <2>1 DEF ITyped
<1>8. UNCHANGED <<answer, file>>
  BY DEF ReadIndex
<1>9. QED BY <1>1, <1>5, <1>6, <1>7, <1>8, WritingStep

LEMMA ScanRunsHolds == ASSUME XInv, NEW q \in Readers, ScanRuns(q) PROVE XInv' /\ Grows
<1> USE DEF XInv
<1>1. Grows
  BY DEF ScanRuns, Grows, lookups, given, artifacts
<1>2. PICK e \in Scanned({r \in Runs : Coherent(r)}) : held' = [held EXCEPT ![q] = e]
  BY DEF ScanRuns
<1>3. Sound(e) /\ e \in Seq(Runs)
  BY ScannedIsSound
<1>4. ITyped'
  BY <1>2, <1>3 DEF ScanRuns, ITyped, given, artifacts, ReaderStates
<1>5. ArtifactsInv'
  BY DEF ScanRuns, ArtifactsInv, artifacts
<1>6. \A p \in Runs \cup Readers : held'[p] = held[p] \/ SoundNext(held'[p])
  <2>1. SoundNext(e)
    BY <1>1, <1>3, SoundStays
  <2>2. QED BY <1>2, <2>1 DEF ITyped
<1>7. UNCHANGED <<answer, file>>
  BY DEF ScanRuns
<1>8. QED BY <1>1, <1>4, <1>5, <1>6, <1>7, WritingStep

LEMMA RewriteIndexHolds == ASSUME XInv, NEW q \in Readers, RewriteIndex(q) PROVE XInv' /\ Grows
<1> USE DEF XInv
<1>1. Grows
  BY DEF RewriteIndex, Grows, lookups, given, artifacts
<1>2. \/ file' = Truncated
      \/ file' = Whole(held[q]) \/ file' = Clobbered
  BY AfterWriteFacts DEF RewriteIndex
<1>3. held[q] \in Seq(Runs) /\ file.entries \in Seq(Runs) /\ <<>> \in Seq(Runs)
  BY DEF ITyped
<1>4. file' = [state |-> file'.state, entries |-> file'.entries] /\ file'.entries \in Seq(Runs)
  BY <1>2, <1>3, FileShapes
<1>5. ITyped'
  BY <1>4 DEF RewriteIndex, ITyped, given, artifacts, ReaderStates
<1>6. ArtifactsInv'
  BY DEF RewriteIndex, ArtifactsInv, artifacts
<1>7. file'.state = "whole" => SoundNext(file'.entries)
  <2>1. SoundNext(held[q])
    BY <1>1, <1>3, SoundStays DEF SoundInv
  <2>2. QED BY <1>2, <2>1 DEF Truncated, Whole, Clobbered
<1>8. UNCHANGED <<answer, held>>
  BY DEF RewriteIndex
<1>9. QED BY <1>1, <1>5, <1>6, <1>7, <1>8, WritingStep
(* The first entry the alias accepts.                                      *)
LEMMA FirstFacts ==
  ASSUME NEW A \in SUBSET Nat, A # {}
  PROVE  FirstOf(A) \in A /\ \A i \in A : FirstOf(A) <= i
<1> DEFINE R == {ss \in Nat \X Nat : ss[1] < ss[2]}
<1>1. IsWellFoundedOn(R, Nat)
  BY NatLessThanWellFounded DEF OpToRel
<1> HIDE DEF R
<1>2. PICK x \in A : \A y \in A : ~ (<<y, x>> \in R)
  BY <1>1, WFMin
<1>3. ASSUME NEW y \in A PROVE x <= y
  <2>1. x \in Nat /\ y \in Nat
    OBVIOUS
  <2>2. <<y, x>> \in Nat \X Nat /\ ~ (<<y, x>> \in R)
    BY <1>2, <2>1
  <2>3. ~ (y < x)
    BY <2>2 DEF R
  <2>4. QED BY <2>1, <2>3
<1>4. \E x2 \in A : \A y \in A : x2 =< y
  BY <1>3
<1>5. QED BY <1>4, Zenon DEF FirstOf, Min

LEMMA PickHolds == ASSUME XInv, NEW q \in Readers, Pick(q) PROVE XInv' /\ Grows
<1> USE DEF XInv
<1> DEFINE A == {i \in DOMAIN held[q] : Accepts(q, held[q][i])}
           a == IF A = {} THEN None ELSE held[q][FirstOf(A)]
<1>1. Grows
  BY DEF Pick, Grows, lookups, given, artifacts
<1>2. answer' = [answer EXCEPT ![q] = a] /\ UNCHANGED <<given, alias>>
  BY DEF Pick
<1>3. held[q] \in Seq(Runs) /\ DOMAIN held[q] \subseteq Nat /\ Sound(held[q])
  BY DEF ITyped, SoundInv
<1>4. A # {} => FirstOf(A) \in A
  BY <1>3, FirstFacts
<1>5. a # None =>
        a \in Runs /\ report[a] = "whole" /\ manifest[a] = "whole" /\ Accepts(q, a)
  <2> SUFFICES ASSUME a # None
               PROVE  a \in Runs /\ report[a] = "whole" /\ manifest[a] = "whole" /\ Accepts(q, a)
    OBVIOUS
  <2>1. A # {} /\ FirstOf(A) \in A /\ a = held[q][FirstOf(A)]
    BY <1>4
  <2>2. FirstOf(A) \in DOMAIN held[q] /\ Accepts(q, a)
    BY <2>1
  <2> HIDE DEF a, A
  <2>3. a \in Runs /\ report[a] = "whole" /\ manifest[a] = "whole"
    BY <1>3, <2>1, <2>2 DEF Sound
  <2>4. QED BY <2>2, <2>3
<1> HIDE DEF a, A
<1>6. answer' \in [Readers -> Runs \cup {None}]
  BY <1>2, <1>5 DEF ITyped
<1>7. ITyped'
  BY <1>6 DEF Pick, ITyped, given, artifacts, ReaderStates
<1>8. ArtifactsInv'
  BY DEF Pick, ArtifactsInv, artifacts
<1>9. SoundInv'
  BY DEF Pick, SoundInv, Sound, NewestFirst, given, artifacts
<1>10. \A p \in Readers : p # q => answer'[p] = answer[p]
  BY <1>2 DEF ITyped
<1>11. answer'[q] = a
  BY <1>2 DEF ITyped
<1>12. ASSUME NEW p \in Readers, (answer[p] # None)'
       PROVE  (/\ report[answer[p]] = "whole" /\ manifest[answer[p]] = "whole"
               /\ Accepts(p, answer[p]))'
  <2>1. CASE p # q
    BY <1>1, <1>10, <1>12, <2>1, AnswerStays
  <2>2. CASE p = q
    <3>1. a # None /\ answer'[p] = a
      BY <1>11, <1>12, <2>2
    <3>2. Accepts(q, a) /\ UNCHANGED <<alias, passed, report, manifest>>
      BY <1>2, <1>5, <3>1 DEF given, artifacts, Pick
    <3>3. Accepts(p, answer[p])'
      BY <2>2, <3>1, <3>2 DEF Accepts
    <3>4. QED BY <1>5, <3>1, <3>2, <3>3
  <2>3. QED BY <2>1, <2>2
<1>13. AnswerIsCoherent'
  BY <1>12 DEF AnswerIsCoherent
<1>14. QED BY <1>1, <1>7, <1>8, <1>9, <1>13

LEMMA NextXInv == XInv /\ [IndexNext]_index_vars => XInv'
<1> SUFFICES ASSUME XInv, [IndexNext]_index_vars PROVE XInv'
  OBVIOUS
<1>1. CASE IndexNext
  BY <1>1, WriteReportHolds, WriteManifestHolds, UpdateIndexHolds, WriteIndexHolds, CrashHolds,
     ReadIndexHolds, ScanRunsHolds, RewriteIndexHolds, PickHolds DEF IndexNext
<1>2. CASE UNCHANGED index_vars
  <2>1. UNCHANGED <<held, file, reader, answer, alias, writer, report, manifest, deleted, given>>
    BY <1>2 DEF index_vars, artifacts, lookups
  <2>2. ITyped' /\ ArtifactsInv' /\ SoundInv'
    BY <2>1 DEF XInv, ITyped, ArtifactsInv, SoundInv, Sound, NewestFirst, given
  <2>3. AnswerIsCoherent'
    BY <2>1 DEF XInv, AnswerIsCoherent, Accepts, given
  <2>4. QED BY <2>2, <2>3 DEF XInv
<1>3. QED BY <1>1, <1>2

(* Whatever the processes do to each other and whoever is killed, for any  *)
(* runs, stamps and readers: an index that parses names complete runs,     *)
(* each once, the newest first (update_run_alias_index and load_run_index  *)
(* of artifact_resolver.rs).                                               *)
THEOREM IndexSound == IndexSpec => []IndexIsSound
<1>1. XInv => IndexIsSound
  <2>1. XInv /\ file.state = "whole" =>
          /\ Sound(file.entries)
          /\ IsInjective(file.entries)
    BY DEF XInv, SoundInv, Sound, IsInjective
  <2>2. QED BY <2>1 DEF IndexIsSound, Sound
<1>2. QED BY InitXInv, NextXInv, <1>1, PTL DEF IndexSpec

(* And an alias resolves to a complete run of the status it asks for, or   *)
(* to none (resolve_filtered_run_alias).                                   *)
THEOREM AnswersCoherent == IndexSpec => []AnswerIsCoherent
<1>1. XInv => AnswerIsCoherent
  BY DEF XInv
<1>2. QED BY InitXInv, NextXInv, <1>1, PTL DEF IndexSpec

-----------------------------------------------------------------------------
(***************************************************************************)
(* Processes one after the other.  The index, and what the process at work *)
(* has read of it, names every completed run.                              *)
(***************************************************************************)
Busy(r) == writer[r] \notin Resting
Reads(q) == reader[q] \notin Resting

OneAtATime ==
  /\ \A r, s \in Runs : Busy(r) /\ Busy(s) => r = s
  /\ \A q, p \in Readers : Reads(q) /\ Reads(p) => q = p
  /\ \A r \in Runs, q \in Readers : ~ (Busy(r) /\ Reads(q))
  /\ \A r \in Runs : writer[r] # "crashed"

Indexing == \/ \E r \in Runs : writer[r] = "indexing"
            \/ \E q \in Readers : reader[q] = "indexing"

FileInv ==
  /\ file.state \in States
  /\ file.state = "absent" => Completed = {}
  /\ file.state = "whole" => Completed \subseteq ToSet(file.entries) /\ Strict(file.entries)
  /\ file.state = "torn" \/ Indexing => file = Truncated /\ Indexing

WritersInv ==
  \A r \in Runs : writer[r] \in {"truncate", "indexing"} =>
    Completed \cup {r} \subseteq ToSet(held[r]) /\ Strict(held[r])

ReadersInv ==
  \A q \in Readers :
    /\ reader[q] = "scan" => Completed = {}
    /\ reader[q] \in {"truncate", "indexing", "pick"} =>
         ToSet(held[q]) = Completed /\ Strict(held[q])

OInv == orderly => OneAtATime /\ FileInv /\ WritersInv /\ ReadersInv

LEMMA InitOInv == IndexInit => OInv
BY DEF IndexInit, OInv, OneAtATime, FileInv, Indexing, WritersInv, ReadersInv, Busy, Reads, Resting,
       States, Completed

LEMMA AtRest ==
  /\ \A r : ~ Busy(r) => writer[r] \notin {"index", "truncate", "indexing", "reporting",
                                           "manifest", "manifesting"}
  /\ \A q : ~ Reads(q) => reader[q] \notin {"scan", "truncate", "indexing", "pick"}
BY DEF Busy, Reads, Resting

(* Who starts finds everybody at rest, and nobody is at work beside one    *)
(* who is.                                                                 *)
LEMMA WriterTurn ==
  ASSUME XInv, OneAtATime, orderly, NEW r \in Runs, writer[r] # "report" \/ Alone,
         writer' = [writer EXCEPT ![r] = writer'[r]], reader' = reader, writer'[r] # "crashed",
         writer[r] # "report" => Busy(r)
  PROVE  /\ OneAtATime'
         /\ \A s \in Runs \ {r} : ~ Busy(s) /\ writer'[s] = writer[s]
         /\ \A q \in Readers : ~ Reads(q) /\ reader'[q] = reader[q]
<1>1. \A s \in Runs \ {r} : ~ Busy(s) /\ writer'[s] = writer[s]
  BY DEF XInv, ITyped, OneAtATime, Alone, Busy
<1>2. \A q \in Readers : ~ Reads(q) /\ reader'[q] = reader[q]
  BY DEF XInv, ITyped, OneAtATime, Alone, Reads
<1>3. OneAtATime'
  BY <1>1, <1>2 DEF OneAtATime, Busy, Reads
<1>4. QED BY <1>1, <1>2, <1>3

LEMMA ReaderTurn ==
  ASSUME XInv, OneAtATime, orderly, NEW q \in Readers, reader[q] # "idle" \/ Alone,
         reader' = [reader EXCEPT ![q] = reader'[q]], writer' = writer,
         reader[q] # "idle" => Reads(q)
  PROVE  /\ OneAtATime'
         /\ \A p \in Readers \ {q} : ~ Reads(p) /\ reader'[p] = reader[p]
         /\ \A r \in Runs : ~ Busy(r) /\ writer'[r] = writer[r]
<1>1. \A p \in Readers \ {q} : ~ Reads(p) /\ reader'[p] = reader[p]
  BY DEF XInv, ITyped, OneAtATime, Alone, Reads
<1>2. \A r \in Runs : ~ Busy(r) /\ writer'[r] = writer[r]
  BY DEF XInv, ITyped, OneAtATime, Alone, Busy
<1>3. OneAtATime'
  BY <1>1, <1>2 DEF OneAtATime, Busy, Reads
<1>4. QED BY <1>1, <1>2, <1>3

(* When no writer is at work, the coherent runs are the completed ones.    *)
LEMMA CoherentIsCompleted ==
  ASSUME XInv, OneAtATime, \A r \in Runs : ~ Busy(r)
  PROVE  \A r \in Runs : Coherent(r) <=> r \in Completed
<1>1. \A r \in Runs : writer[r] \in {"report", "done"}
  BY DEF OneAtATime, Busy, Resting, XInv, ITyped, WriterStates
<1>2. QED BY <1>1 DEF XInv, ArtifactsInv, Coherent, Completed

LEMMA ArtifactsKeepOrder ==
  ASSUME XInv, OInv, orderly, NEW r \in Runs, WriteReport(r) \/ WriteManifest(r)
  PROVE  OneAtATime' /\ FileInv' /\ WritersInv' /\ ReadersInv'
<1> USE DEF XInv, ITyped, OInv
<1>1. /\ writer' = [writer EXCEPT ![r] = writer'[r]] /\ reader' = reader
      /\ writer[r] # "report" \/ Alone
      /\ writer[r] \in {"report", "reporting", "manifest", "manifesting"}
      /\ writer'[r] \in {"reporting", "manifest", "manifesting", "index"}
      /\ UNCHANGED <<given, deleted, file, held>>
  BY DEF WriteReport, WriteManifest, lookups
<1>2. writer[r] # "report" => Busy(r)
  BY <1>1 DEF Busy, Resting
<1>3. /\ OneAtATime'
      /\ \A s \in Runs \ {r} : ~ Busy(s) /\ writer'[s] = writer[s]
      /\ \A q \in Readers : ~ Reads(q) /\ reader'[q] = reader[q]
  BY <1>1, <1>2, WriterTurn
<1>4. Completed' = Completed
  BY <1>1, <1>3 DEF Completed
<1>5. FileInv'
  <2>1. Indexing' <=> Indexing
    BY <1>1, <1>3 DEF Indexing
  <2>2. QED BY <1>1, <1>4, <2>1 DEF FileInv, Strict, Newer, given
<1>6. WritersInv' /\ ReadersInv'
  <2>1. \A s \in Runs : writer'[s] \notin {"truncate", "indexing"}
    BY <1>1, <1>3, AtRest, ZenonT(60)
  <2>2. \A q \in Readers : reader'[q] \notin {"scan", "truncate", "indexing", "pick"}
    BY <1>3, AtRest
  <2>3. QED BY <2>1, <2>2 DEF WritersInv, ReadersInv
<1>7. QED BY <1>3, <1>5, <1>6

LEMMA UpdateKeepsOrder ==
  ASSUME XInv, OInv, orderly, NEW r \in Runs, UpdateIndex(r)
  PROVE  OneAtATime' /\ FileInv' /\ WritersInv' /\ ReadersInv'
<1> USE DEF XInv, ITyped, OInv
<1> DEFINE S == EntriesWith(r) \ deleted
<1>1. /\ writer' = [writer EXCEPT ![r] = writer'[r]] /\ reader' = reader
      /\ writer[r] = "index" /\ writer'[r] = "truncate"
      /\ UNCHANGED <<given, deleted, file>>
  BY DEF UpdateIndex, lookups, artifacts
<1>2. Busy(r)
  BY <1>1 DEF Busy, Resting
<1>3. /\ OneAtATime'
      /\ \A s \in Runs \ {r} : ~ Busy(s) /\ writer'[s] = writer[s]
      /\ \A q \in Readers : ~ Reads(q) /\ reader'[q] = reader[q]
  BY <1>1, <1>2, WriterTurn
<1>4. Completed' = Completed
  BY <1>1, <1>3 DEF Completed
<1>5. file.state # "torn"
  <2>1. ~ Indexing
    BY <1>1, <1>3, AtRest, ZenonT(60) DEF Indexing
  <2>2. QED BY <2>1 DEF FileInv
<1>6. FileInv'
  <2>1. ~ Indexing'
    BY <1>1, <1>3, AtRest, ZenonT(60) DEF Indexing
  <2>2. QED BY <1>1, <1>4, <1>5, <2>1 DEF FileInv, Strict, Newer, given
<1>7. Completed \cup {r} \subseteq S /\ S \in SUBSET Runs
  <2>1. r \notin deleted
    BY <1>1 DEF ArtifactsInv
  <2>2. Completed \subseteq Entries
    BY <1>5 DEF FileInv, Entries, States
  <2>3. \A i \in DOMAIN file.entries : file.entries[i] \in Runs
    OBVIOUS
  <2>4. Entries \subseteq Runs
    BY <2>3 DEF Entries, ToSet
  <2>5. QED BY <2>1, <2>2, <2>4 DEF EntriesWith, Completed
<1>8. held'[r] = Ordered(S)
  BY DEF UpdateIndex
<1> HIDE DEF S
<1>9. Completed' \cup {r} \subseteq ToSet(held'[r]) /\ Strict(held'[r])
  <2>1. Lists(Ordered(S), S) /\ Strict(Ordered(S))
    BY <1>7, OrderedFacts
  <2>2. QED BY <1>4, <1>7, <1>8, <2>1 DEF Lists
<1>10. WritersInv' /\ ReadersInv'
  <2>1. Strict(held[r])'
    BY <1>1, <1>9 DEF Strict, Newer, given
  <2>2. \A s \in Runs \ {r} : writer'[s] \notin {"truncate", "indexing"}
    BY <1>3, AtRest
  <2>3. \A q \in Readers : reader'[q] \notin {"scan", "truncate", "indexing", "pick"}
    BY <1>3, AtRest
  <2>4. QED BY <1>9, <2>1, <2>2, <2>3 DEF WritersInv, ReadersInv
<1>11. QED BY <1>3, <1>6, <1>10

(* A file that nobody has rewritten since it was truncated takes what is   *)
(* written to it.                                                          *)
LEMMA WritesWhole ==
  ASSUME NEW e, NEW f \in AfterWrite(e), file = Truncated
  PROVE  f = Whole(e)
BY DEF AfterWrite

LEMMA WriteKeepsOrder ==
  ASSUME XInv, OInv, orderly, NEW r \in Runs, WriteIndex(r)
  PROVE  OneAtATime' /\ FileInv' /\ WritersInv' /\ ReadersInv'
<1> USE DEF XInv, ITyped, OInv
<1>1. /\ writer' = [writer EXCEPT ![r] = writer'[r]] /\ reader' = reader
      /\ writer[r] \in {"truncate", "indexing"} /\ writer'[r] \in {"indexing", "done"}
      /\ UNCHANGED <<given, deleted, held>>
  BY DEF WriteIndex, lookups, artifacts
<1>2. Busy(r)
  BY <1>1 DEF Busy, Resting
<1>3. /\ OneAtATime'
      /\ \A s \in Runs \ {r} : ~ Busy(s) /\ writer'[s] = writer[s]
      /\ \A q \in Readers : ~ Reads(q) /\ reader'[q] = reader[q]
  BY <1>1, <1>2, WriterTurn
<1>4. Completed \cup {r} \subseteq ToSet(held[r]) /\ Strict(held[r])
  BY <1>1 DEF WritersInv
<1>5. \A s \in Runs : s # r => writer[s] \notin {"truncate", "indexing"}
  BY <1>3, AtRest
<1>6. \A q \in Readers : reader'[q] \notin {"scan", "truncate", "indexing", "pick"}
  BY <1>3, AtRest
<1>7. ReadersInv'
  BY <1>6 DEF ReadersInv
<1>8. CASE writer[r] = "truncate"
  <2>1. writer'[r] = "indexing" /\ file' = Truncated
    BY <1>8 DEF WriteIndex
  <2>2. Completed' = Completed
    BY <1>1, <1>3, <1>8, <2>1 DEF Completed
  <2>3. FileInv'
    <3>1. Indexing'
      BY <2>1 DEF Indexing
    <3>2. QED BY <2>1, <3>1 DEF FileInv, Truncated, States
  <2>4. WritersInv'
    <3>1. Strict(held[r])'
      BY <1>1, <1>4 DEF Strict, Newer, given
    <3>2. \A s \in Runs \ {r} : writer'[s] \notin {"truncate", "indexing"}
      BY <1>3, <1>5
    <3>3. Completed' \cup {r} \subseteq ToSet(held'[r])
      BY <1>1, <1>4, <2>2
    <3>4. QED BY <3>1, <3>2, <3>3 DEF WritersInv
  <2>5. QED BY <1>3, <1>7, <2>3, <2>4
<1>9. CASE writer[r] = "indexing"
  <2>1. writer'[r] = "done" /\ file' \in AfterWrite(held[r])
    BY <1>9 DEF WriteIndex
  <2>2. Completed' \subseteq Completed \cup {r}
    BY <1>1, <1>3 DEF Completed
  <2>3. file'.state = "whole" => file'.entries = held[r]
    BY <2>1, AfterWriteFacts DEF Whole, Clobbered
  <2>4. file'.state = "whole"
    <3>1. file = Truncated
      BY <1>9 DEF FileInv, Indexing
    <3>2. QED BY <2>1, <3>1, WritesWhole DEF Whole
  <2>5. FileInv'
    <3>1. ~ Indexing'
      BY <1>3, <1>5, <1>6, <2>1 DEF Indexing
    <3>2. Strict(file.entries)'
      <4>1. finished' = finished /\ file'.entries = held[r]
        BY <1>1, <2>3, <2>4 DEF given
      <4>2. Strict(held[r])
        BY <1>4
      <4>3. QED BY <4>1, <4>2 DEF Strict, Newer
    <3>3. Completed' \subseteq ToSet(file'.entries)
      BY <1>4, <2>2, <2>3, <2>4
    <3>4. QED BY <2>4, <3>1, <3>2, <3>3 DEF FileInv, States
  <2>6. WritersInv'
    BY <1>3, <1>5, <2>1 DEF WritersInv
  <2>7. QED BY <1>3, <1>7, <2>5, <2>6
<1>10. QED BY <1>1, <1>8, <1>9

(* A file that is removed leaves less to be named.                         *)
LEMMA DeleteKeepsOrder ==
  ASSUME XInv, OInv, orderly, NEW r \in Runs, DeleteRun(r)
  PROVE  OneAtATime' /\ FileInv' /\ WritersInv' /\ ReadersInv'
<1> USE DEF XInv, ITyped, OInv
<1>1. UNCHANGED <<given, writer, reader, file, held>> /\ Completed' \subseteq Completed
  BY DEF DeleteRun, lookups, Completed
<1>2. (\A s \in Runs : writer[s] \in Resting) /\ (\A q \in Readers : reader[q] \in Resting)
  BY DEF DeleteRun, Alone
<1>3. OneAtATime'
  BY <1>1 DEF OneAtATime, Busy, Reads
<1>4. ~ Indexing /\ ~ Indexing'
  BY <1>1, <1>2 DEF Indexing, Resting
<1>5. FileInv'
  BY <1>1, <1>4 DEF FileInv, Strict, Newer, given
<1>6. WritersInv' /\ ReadersInv'
  BY <1>1, <1>2 DEF WritersInv, ReadersInv, Resting
<1>7. QED BY <1>3, <1>5, <1>6

LEMMA ReadKeepsOrder ==
  ASSUME XInv, OInv, orderly, NEW q \in Readers, ReadIndex(q)
  PROVE  OneAtATime' /\ FileInv' /\ WritersInv' /\ ReadersInv'
<1> USE DEF XInv, ITyped, OInv
<1>1. /\ reader' = [reader EXCEPT ![q] = reader'[q]] /\ writer' = writer
      /\ reader[q] = "idle" /\ reader'[q] \in {"pick", "scan"} /\ Alone
      /\ UNCHANGED <<given, deleted, file>>
  BY DEF ReadIndex, artifacts
<1>2. /\ OneAtATime'
      /\ \A p \in Readers \ {q} : ~ Reads(p) /\ reader'[p] = reader[p]
      /\ \A r \in Runs : ~ Busy(r) /\ writer'[r] = writer[r]
  BY <1>1, ReaderTurn
<1>3. Completed' = Completed
  BY <1>1 DEF Completed
<1>4. ~ Indexing /\ ~ Indexing'
  BY <1>1, <1>2, AtRest, ZenonT(60) DEF Indexing
<1>5. FileInv'
  BY <1>1, <1>3, <1>4 DEF FileInv, Strict, Newer, given
<1>6. WritersInv'
  BY <1>2, AtRest DEF WritersInv
<1>7. \A p \in Readers \ {q} : reader'[p] \notin {"scan", "truncate", "indexing", "pick"}
  BY <1>2, AtRest
<1>8. CASE file.state = "whole"
  <2>1. reader'[q] = "pick" /\ held'[q] = Retained(file.entries)
    BY <1>8 DEF ReadIndex
  <2>2. file.entries \in Seq(Runs) /\ Completed \subseteq ToSet(file.entries) /\ Strict(file.entries)
    BY <1>8 DEF FileInv
  <2>3. ToSet(Retained(file.entries)) = {x \in ToSet(file.entries) : Coherent(x)}
    BY <2>2, RetainedFacts
  <2>4. ToSet(file.entries) \subseteq Runs
    BY <2>2 DEF ToSet
  <2>5. ToSet(Retained(file.entries)) = Completed
    BY <1>2, <2>2, <2>3, <2>4, CoherentIsCompleted
  <2>6. Strict(Retained(file.entries))
    <3>1. PICK k \in [DOMAIN Retained(file.entries) -> DOMAIN file.entries] :
            /\ \A i \in DOMAIN Retained(file.entries) : Retained(file.entries)[i] = file.entries[k[i]]
            /\ \A i, j \in DOMAIN Retained(file.entries) : i < j => k[i] < k[j]
      BY <2>2, RetainedFacts
    <3>2. QED BY <2>2, <3>1 DEF Strict
  <2>7. finished' = finished
    BY <1>1 DEF given
  <2>8. Strict(held[q])'
    BY <2>1, <2>6, <2>7 DEF Strict, Newer
  <2>9. ReadersInv'
    BY <1>3, <1>7, <2>1, <2>5, <2>8 DEF ReadersInv
  <2>10. QED BY <1>2, <1>5, <1>6, <2>9
<1>9. CASE file.state # "whole"
  <2>1. reader'[q] = "scan"
    BY <1>9 DEF ReadIndex
  <2>2. Completed = {}
    BY <1>4, <1>9 DEF FileInv, States
  <2>3. ReadersInv'
    BY <1>3, <1>7, <2>1, <2>2 DEF ReadersInv
  <2>4. QED BY <1>2, <1>5, <1>6, <2>3
<1>10. QED BY <1>8, <1>9

LEMMA ScanKeepsOrder ==
  ASSUME XInv, OInv, orderly, NEW q \in Readers, ScanRuns(q)
  PROVE  OneAtATime' /\ FileInv' /\ WritersInv' /\ ReadersInv'
<1> USE DEF XInv, ITyped, OInv
<1>1. /\ reader' = [reader EXCEPT ![q] = reader'[q]] /\ writer' = writer
      /\ reader[q] = "scan" /\ reader'[q] = "truncate"
      /\ UNCHANGED <<given, deleted, file>>
  BY DEF ScanRuns, artifacts
<1>2. Reads(q)
  BY <1>1 DEF Reads, Resting
<1>3. /\ OneAtATime'
      /\ \A p \in Readers \ {q} : ~ Reads(p) /\ reader'[p] = reader[p]
      /\ \A r \in Runs : ~ Busy(r) /\ writer'[r] = writer[r]
  BY <1>1, <1>2, ReaderTurn
<1>4. Completed' = Completed /\ Completed = {}
  BY <1>1 DEF Completed, ReadersInv
<1>5. ~ Indexing /\ ~ Indexing'
  BY <1>1, <1>3, AtRest, ZenonT(60) DEF Indexing
<1>6. FileInv'
  BY <1>1, <1>4, <1>5 DEF FileInv, Strict, Newer, given
<1>7. WritersInv'
  BY <1>3, AtRest DEF WritersInv
<1>8. \A p \in Readers \ {q} : reader'[p] \notin {"scan", "truncate", "indexing", "pick"}
  BY <1>3, AtRest
<1>9. PICK e \in Scanned({r \in Runs : Coherent(r)}) : held' = [held EXCEPT ![q] = e]
  BY DEF ScanRuns
<1>10. ToSet(e) = {}
  <2>1. {r \in Runs : Coherent(r)} = {}
    BY <1>3, <1>4, CoherentIsCompleted
  <2>2. QED BY <2>1, ScannedIsSound
<1>11. DOMAIN e = {}
  BY <1>10, ZenonT(60) DEF ToSet
<1>12. held'[q] = e
  BY <1>9
<1>13. ToSet(held'[q]) = Completed' /\ Strict(held[q])'
  BY <1>4, <1>10, <1>11, <1>12 DEF Strict
<1>14. ReadersInv'
  BY <1>1, <1>8, <1>13 DEF ReadersInv
<1>15. QED BY <1>3, <1>6, <1>7, <1>14

LEMMA RewriteKeepsOrder ==
  ASSUME XInv, OInv, orderly, NEW q \in Readers, RewriteIndex(q)
  PROVE  OneAtATime' /\ FileInv' /\ WritersInv' /\ ReadersInv'
<1> USE DEF XInv, ITyped, OInv
<1>1. /\ reader' = [reader EXCEPT ![q] = reader'[q]] /\ writer' = writer
      /\ reader[q] \in {"truncate", "indexing"} /\ reader'[q] \in {"indexing", "pick"}
      /\ UNCHANGED <<given, deleted, held>>
  BY DEF RewriteIndex, artifacts
<1>2. Reads(q)
  BY <1>1 DEF Reads, Resting
<1>3. /\ OneAtATime'
      /\ \A p \in Readers \ {q} : ~ Reads(p) /\ reader'[p] = reader[p]
      /\ \A r \in Runs : ~ Busy(r) /\ writer'[r] = writer[r]
  BY <1>1, <1>2, ReaderTurn
<1>4. Completed' = Completed /\ finished' = finished
  BY <1>1 DEF Completed, given
<1>5. ToSet(held[q]) = Completed /\ Strict(held[q])
  BY <1>1 DEF ReadersInv
<1>6. WritersInv'
  BY <1>3, AtRest DEF WritersInv
<1>7. \A p \in Readers \ {q} : reader'[p] \notin {"scan", "truncate", "indexing", "pick"}
  BY <1>3, AtRest
<1>8. Strict(held[q])'
  BY <1>1, <1>4, <1>5 DEF Strict, Newer
<1>9. ReadersInv'
  BY <1>1, <1>4, <1>5, <1>7, <1>8 DEF ReadersInv
<1>10. CASE reader[q] = "truncate"
  <2>1. reader'[q] = "indexing" /\ file' = Truncated
    BY <1>10 DEF RewriteIndex
  <2>2. Indexing'
    BY <2>1 DEF Indexing
  <2>3. FileInv'
    BY <2>1, <2>2 DEF FileInv, Truncated, States
  <2>4. QED BY <1>3, <1>6, <1>9, <2>3
<1>11. CASE reader[q] = "indexing"
  <2>1. reader'[q] = "pick" /\ file' \in AfterWrite(held[q])
    BY <1>11 DEF RewriteIndex
  <2>2. file = Truncated
    BY <1>11 DEF FileInv, Indexing
  <2>3. file'.state = "whole" /\ file'.entries = held[q]
    BY <2>1, <2>2, WritesWhole DEF Whole
  <2>4. ~ Indexing'
    BY <1>3, <1>7, <2>1, AtRest, ZenonT(60) DEF Indexing
  <2>5. Strict(file.entries)'
    BY <1>4, <1>5, <2>3 DEF Strict, Newer
  <2>6. FileInv'
    BY <1>4, <1>5, <2>3, <2>4, <2>5 DEF FileInv, States
  <2>7. QED BY <1>3, <1>6, <1>9, <2>6
<1>12. QED BY <1>1, <1>10, <1>11

LEMMA PickKeepsOrder ==
  ASSUME XInv, OInv, orderly, NEW q \in Readers, Pick(q)
  PROVE  OneAtATime' /\ FileInv' /\ WritersInv' /\ ReadersInv'
<1> USE DEF XInv, ITyped, OInv
<1>1. /\ reader' = [reader EXCEPT ![q] = reader'[q]] /\ writer' = writer
      /\ reader[q] = "pick" /\ reader'[q] = "answered"
      /\ UNCHANGED <<given, deleted, file>>
  BY DEF Pick, artifacts
<1>2. Reads(q)
  BY <1>1 DEF Reads, Resting
<1>3. /\ OneAtATime'
      /\ \A p \in Readers \ {q} : ~ Reads(p) /\ reader'[p] = reader[p]
      /\ \A r \in Runs : ~ Busy(r) /\ writer'[r] = writer[r]
  BY <1>1, <1>2, ReaderTurn
<1>4. Completed' = Completed
  BY <1>1 DEF Completed
<1>5. ~ Indexing /\ ~ Indexing'
  BY <1>1, <1>3, AtRest, ZenonT(60) DEF Indexing
<1>6. FileInv'
  BY <1>1, <1>4, <1>5 DEF FileInv, Strict, Newer, given
<1>7. WritersInv'
  BY <1>3, AtRest DEF WritersInv
<1>8. ReadersInv'
  BY <1>1, <1>3, AtRest, ZenonT(60) DEF ReadersInv
<1>9. QED BY <1>3, <1>6, <1>7, <1>8

LEMMA NextOInv == XInv /\ OInv /\ [IndexNext]_index_vars => OInv'
<1>1. [IndexNext]_index_vars => orderly' = orderly
  BY DEF IndexNext, WriteReport, WriteManifest, UpdateIndex, WriteIndex, Crash, DeleteRun,
         ReadIndex, ScanRuns, RewriteIndex, Pick, index_vars, given
<1> SUFFICES ASSUME XInv, OInv, orderly, [IndexNext]_index_vars
             PROVE  OneAtATime' /\ FileInv' /\ WritersInv' /\ ReadersInv'
  BY <1>1 DEF OInv
<1>2. CASE IndexNext
  <2>1. ASSUME NEW r \in Runs, Crash(r) PROVE FALSE
    BY <2>1 DEF Crash
  <2>2. QED BY <1>2, <2>1, ArtifactsKeepOrder, UpdateKeepsOrder, WriteKeepsOrder, DeleteKeepsOrder,
               ReadKeepsOrder, ScanKeepsOrder, RewriteKeepsOrder, PickKeepsOrder DEF IndexNext
<1>3. CASE UNCHANGED index_vars
  BY <1>3 DEF index_vars, given, artifacts, lookups, OInv, OneAtATime, FileInv, WritersInv,
              ReadersInv, Busy, Reads, Indexing, Completed, Strict, Newer
<1>4. QED BY <1>2, <1>3

(* Processes that neither overlap nor are killed lose no update: when none *)
(* is at work the index names every completed run (there is no lock, and   *)
(* overlapping updates are lost).                                          *)
THEOREM NoLostUpdate == IndexSpec => []NoUpdateIsLost
<1>1. XInv /\ OInv => NoUpdateIsLost
  <2> SUFFICES ASSUME XInv, OInv, orderly, Quiet, file.state # "absent",
                      NEW r \in Runs, writer[r] = "done", r \notin deleted
               PROVE  r \in Entries
    BY DEF NoUpdateIsLost
  <2>1. ~ Indexing
    BY DEF Quiet, Indexing, Resting
  <2>2. file.state = "whole" /\ Completed \subseteq ToSet(file.entries)
    BY <2>1 DEF OInv, FileInv, States
  <2>3. QED BY <2>2 DEF Entries, Completed
<1>2. QED BY InitXInv, NextXInv, InitOInv, NextOInv, <1>1, PTL DEF IndexSpec

-----------------------------------------------------------------------------
(* The first of a list in the order of Newer is the best of its members.   *)
LEMMA FirstIsBest ==
  ASSUME XInv, NEW q \in Readers, Strict(held[q]), NEW S, S = ToSet(held[q])
  PROVE  LET A == {i \in DOMAIN held[q] : Accepts(q, held[q][i])}
         IN  (IF A = {} THEN None ELSE held[q][FirstOf(A)]) = Best(q, S)
<1> DEFINE e == held[q]
           A == {i \in DOMAIN e : Accepts(q, e[i])}
           Wins(r) == Accepts(q, r) /\ \A s \in S \ {r} : Accepts(q, s) => Newer(r, s)
<1>1. e \in Seq(Runs) /\ DOMAIN e \subseteq Nat /\ S \subseteq Runs
  BY DEF XInv, ITyped, ToSet
<1>2. S = {e[i] : i \in DOMAIN e}
  BY DEF ToSet
<1>3. CASE A = {}
  <2>1. ~ \E r \in S : Accepts(q, r)
    BY <1>2, <1>3
  <2>2. QED BY <1>3, <2>1 DEF Best
<1>4. CASE A # {}
  <2>1. FirstOf(A) \in A /\ \A i \in A : FirstOf(A) <= i
    BY <1>1, <1>4, FirstFacts
  <2> DEFINE f == FirstOf(A)
  <2>2. f \in DOMAIN e /\ Accepts(q, e[f]) /\ e[f] \in S
    BY <1>2, <2>1
  <2>3. \A s \in S \ {e[f]} : Accepts(q, s) => Newer(e[f], s)
    <3> SUFFICES ASSUME NEW s \in S \ {e[f]}, Accepts(q, s) PROVE Newer(e[f], s)
      OBVIOUS
    <3>1. PICK i \in DOMAIN e : s = e[i]
      BY <1>2
    <3>2. i \in A /\ i # f
      BY <3>1
    <3>3. f < i
      <4>1. f <= i
        BY <2>1, <3>2
      <4>2. f \in Nat /\ i \in Nat
        BY <1>1, <2>2
      <4> HIDE DEF f
      <4>3. QED BY <3>2, <4>1, <4>2
    <3>4. QED BY <2>2, <3>1, <3>3 DEF Strict
  <2> HIDE DEF f
  <2>4. ASSUME NEW r \in S, Wins(r) PROVE r = e[f]
    <3>1. r # e[f] => Newer(r, e[f]) /\ Newer(e[f], r)
      BY <2>2, <2>3, <2>4
    <3>2. finished[r] \in Nat /\ finished[e[f]] \in Nat /\ r \in Nat /\ e[f] \in Nat
      BY <1>1, <2>2, RunsAssumption DEF XInv, ITyped
    <3>3. QED BY <3>1, <3>2 DEF Newer
  <2>5. Wins(e[f])
    BY <2>2, <2>3
  <2>6. (CHOOSE r \in S : Wins(r)) = e[f]
    BY <2>2, <2>4, <2>5
  <2>7. Best(q, S) = (CHOOSE r \in S : Wins(r))
    BY <2>2 DEF Best
  <2>8. QED BY <1>4, <2>6, <2>7 DEF f
<1>5. QED BY <1>3, <1>4

(* A resolution that overlaps no other process answers with the newest run *)
(* of those its alias accepts (resolve_filtered_run_alias takes the first  *)
(* entry).                                                                 *)
THEOREM AnswersNewest == IndexSpec => AnswersAreNewest
<1>1. XInv /\ OInv /\ [IndexNext]_index_vars =>
        [orderly => \A q \in Readers : reader[q] = "pick" /\ reader'[q] = "answered" =>
           answer'[q] = Best(q, Completed)]_index_vars
  <2> SUFFICES ASSUME XInv, OInv, IndexNext, orderly,
                      NEW q \in Readers, reader[q] = "pick", reader'[q] = "answered"
               PROVE  answer'[q] = Best(q, Completed)
    OBVIOUS
  <2>1. Pick(q)
    <3>1. \A r \in Runs : WriteReport(r) \/ WriteManifest(r) \/ UpdateIndex(r) \/ WriteIndex(r)
                          \/ Crash(r) \/ DeleteRun(r) => reader' = reader
      BY DEF WriteReport, WriteManifest, UpdateIndex, WriteIndex, Crash, DeleteRun, lookups
    <3>2. \A p \in Readers : ReadIndex(p) \/ ScanRuns(p) \/ RewriteIndex(p) =>
            reader'[q] = reader[q] \/ reader'[q] # "answered"
      BY DEF ReadIndex, ScanRuns, RewriteIndex, XInv, ITyped
    <3>3. \A p \in Readers \ {q} : Pick(p) => reader'[q] = reader[q]
      BY DEF Pick, XInv, ITyped
    <3>4. QED BY <3>1, <3>2, <3>3 DEF IndexNext
  <2>2. Strict(held[q]) /\ Completed = ToSet(held[q])
    BY DEF OInv, ReadersInv
  <2>3. answer'[q] = (LET A == {i \in DOMAIN held[q] : Accepts(q, held[q][i])}
                      IN  IF A = {} THEN None ELSE held[q][FirstOf(A)])
    BY <2>1 DEF Pick, XInv, ITyped
  <2>4. QED BY <2>2, <2>3, FirstIsBest
<1>2. QED BY InitXInv, NextXInv, InitOInv, NextOInv, <1>1, PTL DEF IndexSpec, AnswersAreNewest

-----------------------------------------------------------------------------
(***************************************************************************)
(* The recorded trace.                                                     *)
(***************************************************************************)
USE SuffixAssumption, AttemptAssumption, WriterAssumption, SettingAssumption

LEMMA InitTypeOK == Init => TypeOK
BY DEF Init, TypeOK, Names, Traces, Locks, NoLock, OldTrace, PCs, Calls, Policies, Setting

LEMMA NextTypeOK == TypeOK /\ [Next]_vars => TypeOK'
<1> SUFFICES ASSUME TypeOK, [Next]_vars PROVE TypeOK'
  OBVIOUS
<1> USE DEF TypeOK, Goto, PCs, Calls, Policies, Setting
<1>1. ASSUME NEW w \in Writers, Start(w) PROVE TypeOK'
  <2>1. PICK p \in setting.policies :
          /\ policy' = [policy EXCEPT ![w] = p]
          /\ pc' = [pc EXCEPT ![w] = IF p = "overwrite" THEN "open" ELSE "exists"]
    BY <1>1 DEF Start
  <2>2. target' \in [Writers -> Names] /\ attempts' \in [Writers -> 0..MaxAttempts]
    BY <1>1 DEF Start, Names
  <2>3. pc' \in [Writers -> PCs] /\ policy' \in [Writers -> Policies]
    BY <2>1
  <2>4. UNCHANGED <<setting, files, locks, crashes>>
    BY <1>1 DEF Start
  <2>5. QED BY <2>2, <2>3, <2>4
<1>2. ASSUME NEW w \in Writers, Exists(w) PROVE TypeOK'
  BY <1>2 DEF Exists
<1>3. ASSUME NEW w \in Writers, ReadDir(w) PROVE TypeOK'
  <2>1. PICK max_seen \in Numbers \cup {0} :
          target' = [target EXCEPT ![w] =
                       IF max_seen < MaxSuffix THEN max_seen + 1 ELSE MaxSuffix]
    BY <1>3 DEF ReadDir, Following
  <2>2. max_seen \in Names
    BY DEF Numbers, Names
  <2>3. (IF max_seen < MaxSuffix THEN max_seen + 1 ELSE MaxSuffix) \in Names
    BY <2>2 DEF Names
  <2>4. target' \in [Writers -> Names]
    BY <2>1, <2>3
  <2>5. pc' \in [Writers -> PCs] /\ UNCHANGED <<setting, files, locks, policy, attempts, crashes>>
    BY <1>3 DEF ReadDir, Following
  <2>6. QED BY <2>4, <2>5
<1>4. ASSUME NEW w \in Writers, Open(w) PROVE TypeOK'
  <2>1. [owner |-> w, stale |-> FALSE] \in Locks
    BY DEF Locks
  <2>2. locks' \in [Names -> Locks]
    <3>1. \/ locks' = locks
          \/ locks' = [locks EXCEPT ![target[w]] = [owner |-> w, stale |-> FALSE]]
      BY <1>4 DEF Open, LockFree
    <3>2. QED BY <2>1, <3>1
  <2>3. pc' \in [Writers -> PCs]
    BY <1>4 DEF Open, LockFree
  <2>4. UNCHANGED <<setting, files, policy, target, attempts, crashes>>
    BY <1>4 DEF Open, LockFree
  <2>5. QED BY <2>2, <2>3, <2>4
<1>5. ASSUME NEW w \in Writers, Stat(w) PROVE TypeOK'
  BY <1>5 DEF Stat, Stale
<1>6. ASSUME NEW w \in Writers, RemoveStale(w) PROVE TypeOK'
  BY <1>6 DEF RemoveStale, Locks, NoLock
<1>7. ASSUME NEW w \in Writers, Write(w) PROVE TypeOK'
  BY <1>7 DEF Write
<1>8. ASSUME NEW w \in Writers, Rename(w) PROVE TypeOK'
  <2>1. TraceOf(w) \in Traces
    BY DEF TraceOf, Traces
  <2>2. QED BY <1>8, <2>1 DEF Rename
<1>9. ASSUME NEW w \in Writers, Unlock(w) PROVE TypeOK'
  BY <1>9 DEF Unlock, Locks, NoLock
<1>10. ASSUME NEW w \in Writers, Kill(w) PROVE TypeOK'
  BY <1>10 DEF Kill
<1>11. ASSUME NEW n \in Names, Age(n) PROVE TypeOK'
  <2>1. locks[n] \in [owner : Writers \cup {NoWriter}, stale : BOOLEAN]
    BY DEF Locks
  <2>2. [locks[n] EXCEPT !.stale = TRUE] \in Locks
    BY <2>1 DEF Locks
  <2>3. QED BY <1>11, <2>2 DEF Age
<1>12. CASE UNCHANGED vars
  BY <1>12 DEF vars
<1>13. QED BY <1>1, <1>2, <1>3, <1>4, <1>5, <1>6, <1>7, <1>8, <1>9, <1>10, <1>11, <1>12
           DEF Next, Call

(* Every file is a whole trace or absent, every lock has an owner that is  *)
(* a process: no interleaving of the calls leaves anything else behind.    *)
THEOREM RecordTypeCorrect == Spec => []TypeOK
BY InitTypeOK, NextTypeOK, PTL DEF Spec

-----------------------------------------------------------------------------
(* A step of one process leaves the lock of another critical section alone.*)
LEMMA NextLockInv == TypeOK /\ LockInv /\ [Next]_vars => LockInv'
<1>0. [Next]_vars => setting' = setting
  BY DEF Next, Call, Start, Exists, ReadDir, Open, Stat, RemoveStale, Write,
         Rename, Unlock, Kill, Age, vars
<1> SUFFICES ASSUME TypeOK, LocksOwned, ~setting.ages, [Next]_vars PROVE LocksOwned'
  BY <1>0 DEF LockInv
<1> USE DEF TypeOK, LocksOwned, Holds, Goto, NoLock, Locks
<1>1. ASSUME NEW w \in Writers, Start(w) PROVE LocksOwned'
  BY <1>1 DEF Start
<1>2. ASSUME NEW w \in Writers, Exists(w) PROVE LocksOwned'
  BY <1>2 DEF Exists
<1>3. ASSUME NEW w \in Writers, ReadDir(w) PROVE LocksOwned'
  BY <1>3 DEF ReadDir, Following
<1>4. ASSUME NEW w \in Writers, Open(w) PROVE LocksOwned'
  BY <1>4, SMTT(60) DEF Open, LockFree
<1>5. ASSUME NEW w \in Writers, Stat(w) PROVE LocksOwned'
  BY <1>5 DEF Stat, Stale
<1>6. ASSUME NEW w \in Writers, RemoveStale(w) PROVE LocksOwned'
  BY <1>6 DEF RemoveStale
<1>7. ASSUME NEW w \in Writers, Write(w) PROVE LocksOwned'
  BY <1>7 DEF Write
<1>8. ASSUME NEW w \in Writers, Rename(w) PROVE LocksOwned'
  BY <1>8 DEF Rename
<1>9. ASSUME NEW w \in Writers, Unlock(w) PROVE LocksOwned'
  BY <1>9 DEF Unlock
<1>10. ASSUME NEW w \in Writers, Kill(w) PROVE LocksOwned'
  BY <1>10 DEF Kill
<1>11. ASSUME NEW n \in Names, Age(n) PROVE LocksOwned'
  BY <1>11 DEF Age
<1>12. CASE UNCHANGED vars
  BY <1>12 DEF vars
<1>13. QED BY <1>1, <1>2, <1>3, <1>4, <1>5, <1>6, <1>7, <1>8, <1>9, <1>10, <1>11, <1>12
           DEF Next, Call

(* As long as no lock outlives RECORD_LOCK_STALE_AFTER, at most one        *)
(* process is between the creation and the removal of the .lock of a       *)
(* target, however many are killed there.                                  *)
THEOREM RecordLockIsExclusive == Spec => []MutualExclusion
<1>1. Init => LockInv
  BY DEF Init, LockInv, LocksOwned, Holds, NoLock
<1>2. TypeOK /\ LockInv /\ [Next]_vars => LockInv'
  BY NextLockInv
<1>3. LockInv => MutualExclusion
  BY DEF LockInv, LocksOwned, MutualExclusion
<1>4. QED BY <1>1, <1>2, <1>3, RecordTypeCorrect, PTL DEF Spec

-----------------------------------------------------------------------------
(***************************************************************************)
(* The refinement.  Between its first call and its end a recording that no *)
(* other overlaps finds the directory as it was when its target was        *)
(* resolved, so that the target is still what the policy asks for when the *)
(* rename comes.                                                           *)
(***************************************************************************)
Settled == {"open", "stat", "remove", "reopen", "write", "rename"}

Decided(w) ==
  /\ policy[w] = "overwrite" => target[w] = 0
  /\ policy[w] = "error" => target[w] = 0 /\ files[0] = NoFile
  /\ policy[w] = "append" =>
       target[w] = IF files[0] = NoFile THEN 0 ELSE Store!NextNumber(files)

OneRecorder == \A v, w \in Writers : pc[v] \in Calls /\ pc[w] \in Calls => v = w

DecidedInv ==
  \A w \in Writers :
    /\ pc[w] = "exists" => policy[w] # "overwrite" /\ target[w] = 0
    /\ pc[w] = "read_dir" => policy[w] = "append" /\ files[0] # NoFile
    /\ pc[w] \in Settled => Decided(w)

AtomicInv == ~setting.overlap => OneRecorder /\ DecidedInv

(* The numbers of the code and those of the promise are the same.          *)
LEMMA NextNumberIsFollowing ==
  ASSUME TypeOK, NEW m \in Numbers \cup {0}, \A n \in Numbers : n <= m
  PROVE  Store!NextNumber(files) = Following(m)
<1> DEFINE S == (Store!Present(files) \ {0}) \cup {0}
<1>1. S = Numbers \cup {0}
  BY DEF Store!Present, Store!Names, Numbers, Names
<1>2. S \subseteq Nat /\ m \in S /\ \A n \in S : m >= n
  BY <1>1 DEF Numbers, Names
<1>3. Store!Max(S) = m
  <2>1. \E x \in S : \A y \in S : x >= y
    BY <1>2
  <2>2. Store!Max(S) \in S /\ \A y \in S : Store!Max(S) >= y
    BY <2>1, Zenon DEF Store!Max
  <2>3. Store!Max(S) \in Nat /\ m \in Nat
    BY <1>2, <2>2
  <2>4. Store!Max(S) >= m /\ m >= Store!Max(S)
    BY <1>2, <2>2
  <2>5. QED BY <2>3, <2>4
<1> DEFINE T == {m + 1, MaxSuffix}
<1>4. Store!Min(T) \in T /\ \A y \in T : Store!Min(T) =< y
  <2>1. m \in Nat
    BY <1>2
  <2>2. \E x \in T : \A y \in T : x =< y
    BY <2>1
  <2>3. QED BY <2>2, Zenon DEF Store!Min
<1>5. Store!NextNumber(files) = Store!Min(T)
  BY <1>3 DEF Store!NextNumber
<1>6. QED BY <1>2, <1>4, <1>5 DEF Following

LEMMA InitAtomicInv == Init => AtomicInv
BY DEF Init, AtomicInv, OneRecorder, DecidedInv, Calls, Settled

(* A process that makes no call keeps what another has decided.            *)
LEMMA NextAtomicInv == TypeOK /\ AtomicInv /\ [Next]_vars => AtomicInv'
<1>0. [Next]_vars => setting' = setting
  BY DEF Next, Call, Start, Exists, ReadDir, Open, Stat, RemoveStale, Write,
         Rename, Unlock, Kill, Age, vars
<1> SUFFICES ASSUME TypeOK, OneRecorder, DecidedInv, ~setting.overlap, [Next]_vars
             PROVE  OneRecorder' /\ DecidedInv'
  BY <1>0 DEF AtomicInv
<1> USE DEF TypeOK, OneRecorder, DecidedInv, Goto, Calls, Settled
<1>1. ASSUME NEW w \in Writers, Start(w) PROVE OneRecorder' /\ DecidedInv'
  <2>1. \A v \in Writers : pc[v] \notin Calls
    BY <1>1 DEF Start
  <2>2. PICK p \in setting.policies :
          /\ policy' = [policy EXCEPT ![w] = p]
          /\ pc' = [pc EXCEPT ![w] = IF p = "overwrite" THEN "open" ELSE "exists"]
    BY <1>1 DEF Start
  <2>3. target' = [target EXCEPT ![w] = 0]
    BY <1>1 DEF Start
  <2>4. \A v \in Writers \ {w} : pc'[v] \notin Calls
    BY <2>1, <2>2
  <2>5. pc'[w] = (IF p = "overwrite" THEN "open" ELSE "exists") /\ policy'[w] = p /\ target'[w] = 0
    BY <2>2, <2>3
  <2>6. OneRecorder'
    BY <2>4
  <2>7. DecidedInv'
    BY <2>4, <2>5 DEF Decided
  <2>8. QED BY <2>6, <2>7
<1>2. ASSUME NEW w \in Writers, Exists(w) PROVE OneRecorder' /\ DecidedInv'
  <2>1. UNCHANGED <<files, policy, target>>
    BY <1>2 DEF Exists
  <2>2. policy[w] \in {"error", "append"} /\ target[w] = 0
    BY <1>2 DEF Exists, Policies
  <2>3. \A v \in Writers \ {w} : pc[v] \notin Calls /\ pc'[v] \notin Calls
    BY <1>2 DEF Exists
  <2>4. OneRecorder'
    BY <2>3
  <2>5. \/ files[0] = NoFile /\ pc'[w] = "open"
        \/ pc'[w] = "refused"
        \/ files[0] # NoFile /\ policy[w] = "append" /\ pc'[w] = "read_dir"
    BY <1>2 DEF Exists
  <2>6. DecidedInv'
    BY <2>1, <2>2, <2>3, <2>5 DEF Decided
  <2>7. QED BY <2>4, <2>6
<1>3. ASSUME NEW w \in Writers, ReadDir(w) PROVE OneRecorder' /\ DecidedInv'
  <2>1. UNCHANGED <<files, policy>> /\ policy[w] = "append" /\ files[0] # NoFile
    BY <1>3 DEF ReadDir
  <2>2. PICK m \in Numbers \cup {0} : /\ \A n \in Numbers : n <= m
                                      /\ target' = [target EXCEPT ![w] = Following(m)]
    BY <1>3 DEF ReadDir
  <2>3. target'[w] = Store!NextNumber(files)
    <3>1. target'[w] = Following(m)
      BY <2>2
    <3>2. QED BY <2>2, <3>1, NextNumberIsFollowing
  <2>4. pc'[w] = "open" /\ \A v \in Writers \ {w} : pc'[v] \notin Calls
    BY <1>3 DEF ReadDir
  <2>5. Decided(w)'
    BY <2>1, <2>3 DEF Decided
  <2>6. OneRecorder'
    BY <2>4
  <2>7. DecidedInv'
    BY <2>4, <2>5
  <2>8. QED BY <2>6, <2>7
<1>4. ASSUME NEW w \in Writers, Open(w) \/ Stat(w) \/ RemoveStale(w) \/ Write(w)
      PROVE  OneRecorder' /\ DecidedInv'
  <2>1. UNCHANGED <<files, policy, target>>
    BY <1>4 DEF Open, Stat, RemoveStale, Write
  <2>2. pc[w] \in Settled /\ pc'[w] \in Settled \cup {"refused"}
    BY <1>4 DEF Open, Stat, RemoveStale, Write
  <2>3. \A v \in Writers \ {w} : pc'[v] \notin Calls
    BY <1>4, <2>2 DEF Open, Stat, RemoveStale, Write
  <2>4. OneRecorder'
    BY <2>3
  <2>5. DecidedInv'
    BY <2>1, <2>2, <2>3 DEF Decided
  <2>6. QED BY <2>4, <2>5
<1>5. ASSUME NEW w \in Writers, Rename(w) \/ Unlock(w) \/ Kill(w)
      PROVE  OneRecorder' /\ DecidedInv'
  <2>1. pc[w] \in Calls /\ pc'[w] \in {"unlock", "ok", "killed"}
    BY <1>5 DEF Rename, Unlock, Kill
  <2>2. \A v \in Writers \ {w} : pc'[v] \notin Calls
    BY <1>5, <2>1 DEF Rename, Unlock, Kill
  <2>3. QED BY <2>1, <2>2
<1>6. ASSUME NEW n \in Names, Age(n) PROVE OneRecorder' /\ DecidedInv'
  BY <1>6 DEF Age, Decided
<1>7. CASE UNCHANGED vars
  BY <1>7 DEF vars, Decided
<1>8. QED BY <1>1, <1>2, <1>3, <1>4, <1>5, <1>6, <1>7 DEF Next, Call

Directory == IF setting.overlap THEN [n \in Names |-> NoFile] ELSE files

LEMMA InitRefines == Init => Store!Init
<1> SUFFICES ASSUME Init PROVE Store!Init
  OBVIOUS
<1>1. Store!Names = Names
  BY DEF Store!Names, Names
<1>2. CASE files = [n \in Names |-> NoFile] \/ setting.overlap
  BY <1>1, <1>2 DEF Init, Store!Init
<1>3. CASE files = [n \in Names |-> IF n = 0 THEN OldTrace ELSE NoFile] /\ ~setting.overlap
  <2>1. OldTrace \in Traces
    BY DEF OldTrace, Traces, Policies
  <2>2. QED BY <1>1, <1>3, <2>1 DEF Init, Store!Init
<1>4. QED BY <1>2, <1>3 DEF Init

(* The rename is the recording; no other call changes the directory.       *)
LEMMA StepRefines == TypeOK /\ AtomicInv /\ [Next]_vars => [Store!Next]_Directory
<1> SUFFICES ASSUME TypeOK, AtomicInv, [Next]_vars PROVE Store!Next \/ Directory' = Directory
  OBVIOUS
<1>0. setting' = setting
  BY DEF Next, Call, Start, Exists, ReadDir, Open, Stat, RemoveStale, Write,
         Rename, Unlock, Kill, Age, vars
<1>1. CASE files' = files \/ setting.overlap
  BY <1>0, <1>1 DEF Directory
<1>2. ASSUME NEW w \in Writers, Rename(w), ~setting.overlap PROVE Store!Next
  <2>1. Directory = files /\ Directory' = files'
    BY <1>0, <1>2 DEF Directory
  <2>2. Decided(w) /\ pc[w] = "rename"
    BY <1>2 DEF AtomicInv, DecidedInv, Rename, Settled
  <2>3. files' = [files EXCEPT ![target[w]] = TraceOf(w)]
    BY <1>2 DEF Rename
  <2>4. TraceOf(w) \in Traces /\ target[w] \in Store!Names
    BY DEF TypeOK, TraceOf, Traces, Store!Names, Names
  <2>5. Store!Record(TraceOf(w))
    BY <1>0, <1>2, <2>2, <2>3, <2>4 DEF Store!Record, TraceOf, Decided
  <2>6. QED BY <2>4, <2>5 DEF Store!Next
<1>3. files' = files \/ \E w \in Writers : Rename(w)
  BY DEF Next, Call, Start, Exists, ReadDir, Open, Stat, RemoveStale, Write,
         Unlock, Kill, Age, vars
<1>4. QED BY <1>1, <1>2, <1>3

(* A recording that no other overlaps is one atomic change of the          *)
(* directory, the one its policy promises, whoever is killed and however   *)
(* old the locks are (tracefile.rs, write_trace_with_policy).              *)
THEOREM RecordingImplementsStore == Spec => RecordingIsAtomic
<1>1. QED BY InitTypeOK, NextTypeOK, InitAtomicInv, NextAtomicInv, InitRefines, StepRefines, PTL
          DEF Spec, RecordingIsAtomic, Store!Spec, Directory

=============================================================================
