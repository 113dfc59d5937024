--------------------------- MODULE ScenarioProofs ---------------------------
(***************************************************************************)
(* Theorems about Scenario: a pass is earned, the log tells what became of *)
(* every message, and a replay reproduces its recording, for any menus of  *)
(* steps, any streams of random values and any host processes.             *)
(***************************************************************************)
EXTENDS Scenario, FiniteSetTheorems, SequenceTheorems, WellFoundedInduction, TLAPS

USE NoneAssumption

(* The scenario never changes, and its steps are counted from 1. *)
Typed ==
  /\ phase \in {"head", "step", "polling", "over"}
  /\ mode \in {"record", "replay"}
  /\ Len(Program) \in Nat /\ DOMAIN Program = 1..Len(Program)
  /\ pc \in 1..(Len(Program) + 1)
  /\ phase \in {"step", "polling"} => pc <= Len(Program)
  /\ phase = "polling" => CurrentStep.op \in {"eventually", "never"}

(* How many of the first n steps count as executed. *)
Executed(n) == Cardinality({i \in 1..n : ~ IsDeclaration(Program[i])})

(* On the way, what was executed is what lies behind; a finding ends the   *)
(* run, and so does a step that used up the timeout.                       *)
OnTheWay ==
  /\ phase # "over" => findings = {} /\ executed = Executed(pc - 1)
  /\ mode = "record" /\ setup.det /\ phase = "head" /\ pc > 1 => ~ Spent(world)

EarnedInv == Typed /\ OnTheWay /\ PassIsEarned

-----------------------------------------------------------------------------
(* Every step of the scenario ends in Settle. *)
LEMMA StepsSettle ==
  ASSUME BasicStep \/ ProcStep \/ NetStep \/ PollEnds
  PROVE  /\ phase \in {"step", "polling"}
         /\ \E w, ds, c, err : Settle(w, ds, c, err)
<1>1. CASE BasicStep
  BY <1>1 DEF BasicStep, RandU64, Sleep, Advance, Freeze, Unfreeze, SetKv, GetKvAssert, Fail,
              Doing, Compared, Succeed, Refuse
<1>2. CASE ProcStep
  BY <1>2 DEF ProcStep, ProcWhen, SpawnReplayed, SpawnScripted, SpawnHost, SpawnLive, CheckExit,
              Doing, Succeed, Refuse
<1>3. CASE NetStep
  BY <1>3 DEF NetStep, NetPartition, NetHeal, NetSetDropRate, NetSetReorder, NetSend,
              NetDeliverOne, NetRecvAssert, DropOrDeliver, Doing, Succeed, Refuse
<1>4. CASE PollEnds
  BY <1>4 DEF PollEnds, Succeed, Refuse
<1>5. QED BY <1>1, <1>2, <1>3, <1>4

LEMMA InitEarned == Init => EarnedInv
<1> SUFFICES ASSUME Init PROVE EarnedInv
  OBVIOUS
<1>m. PICK m \in Menus : \E n \in 0..m.max : setup \in
        [program : [1..n -> m.steps], det : m.dets, timeout : m.timeouts,
         backend : m.backends, until : m.untils, stream : m.streams]
  BY DEF Init
<1>1. PICK n \in 0..m.max : setup \in
        [program : [1..n -> m.steps], det : m.dets, timeout : m.timeouts,
         backend : m.backends, until : m.untils, stream : m.streams]
  BY <1>m
<1>2. n \in Nat
  BY MenuAssumption
<1>3. Program \in [1..n -> m.steps]
  BY <1>1 DEF Program
<1>4. Len(Program) = n /\ DOMAIN Program = 1..n
  BY <1>2, <1>3
<1>5. Typed
  BY <1>2, <1>4 DEF Init, Typed
<1>6. Executed(pc - 1) = 0
  <2>1. {i \in 1..(pc - 1) : ~ IsDeclaration(Program[i])} = {}
    BY DEF Init
  <2>2. QED BY <2>1, FS_EmptySet DEF Executed
<1>7. QED BY <1>5, <1>6 DEF EarnedInv, OnTheWay, Init, PassIsEarned, PassRunsEverything,
             PassIsWithinTimeout

LEMMA ExecutedNext ==
  ASSUME Typed, pc <= Len(Program)
  PROVE  Executed(pc) = IF IsDeclaration(Program[pc]) THEN Executed(pc - 1)
                        ELSE Executed(pc - 1) + 1
<1> DEFINE E(n) == {i \in 1..n : ~ IsDeclaration(Program[i])}
<1>1. pc \in Nat /\ pc >= 1
  BY DEF Typed
<1>2. IsFiniteSet(E(pc - 1)) /\ pc \notin E(pc - 1)
  <2>1. IsFiniteSet(1..(pc - 1))
    BY <1>1, FS_Interval
  <2>2. E(pc - 1) \subseteq 1..(pc - 1)
    OBVIOUS
  <2>3. QED BY <1>1, <2>1, <2>2, FS_Subset
<1>3. CASE IsDeclaration(Program[pc])
  <2>1. E(pc) = E(pc - 1)
    BY <1>1, <1>3
  <2>2. QED BY <1>3, <2>1 DEF Executed
<1>4. CASE ~ IsDeclaration(Program[pc])
  <2>1. E(pc) = E(pc - 1) \cup {pc}
    BY <1>1, <1>4
  <2>2. Cardinality(E(pc)) = Cardinality(E(pc - 1)) + 1
    BY <1>2, <2>1, FS_AddElement
  <2>3. QED BY <1>4, <2>2 DEF Executed
<1>5. QED BY <1>3, <1>4

(* A step leaves the scenario alone, and leads to the next head, to another *)
(* step of its block, or to the end of the run with a finding.             *)
LEMMA SettleEarned ==
  ASSUME EarnedInv, phase \in {"step", "polling"}, NEW w, NEW ds, NEW c, NEW err,
         Settle(w, ds, c, err)
  PROVE  EarnedInv'
<1>1. UNCHANGED <<setup, mode>> /\ pc <= Len(Program) /\ pc \in Nat
  BY DEF Settle, EarnedInv, Typed
<1>3. ASSUME NEW v, StepDone(v)
      PROVE  EarnedInv'
  <2>1. PICK out \in TimeoutReached(v) :
          IF out THEN End("timeout", {"scenario_timeout"}) /\ UNCHANGED pc
          ELSE /\ pc' = pc + 1 /\ phase' = "head" /\ nest' = None /\ deadline' = None
               /\ UNCHANGED <<status, findings>>
    BY <1>3 DEF StepDone
  <2>2. CASE out
    BY <1>1, <2>1, <2>2 DEF End, EarnedInv, Typed, OnTheWay, PassIsEarned,
       PassRunsEverything, PassIsWithinTimeout, Program
  <2>3. CASE ~ out
    <3>1. pc' = pc + 1 /\ phase' = "head" /\ findings' = findings
      BY <2>1, <2>3
    <3>2. executed' = Executed(pc)
      BY <1>1, <1>3, ExecutedNext DEF EarnedInv, OnTheWay, StepDone
    <3>3. executed' = Executed(pc - 1)'
      BY <1>1, <3>1, <3>2 DEF Executed, Program, IsDeclaration
    <3>4. mode = "record" /\ setup.det => ~ Spent(v)
      BY <2>1, <2>3 DEF TimeoutReached, Spent
    <3>5. mode' = "record" /\ setup'.det => ~ Spent(world)'
      BY <1>1, <1>3, <3>4 DEF StepDone, Spent
    <3>6. QED BY <1>1, <3>1, <3>3, <3>5 DEF EarnedInv, Typed, OnTheWay, PassIsEarned,
                 PassRunsEverything, PassIsWithinTimeout, Program
  <2>4. QED BY <2>2, <2>3
<1>4. ASSUME NEW v, NEW title, StepFailed(v, title)
      PROVE  EarnedInv'
  BY <1>1, <1>4 DEF StepFailed, End, EarnedInv, Typed, OnTheWay, PassIsEarned,
     PassRunsEverything, PassIsWithinTimeout, Program
<1>5. CASE phase' = "step" /\ UNCHANGED <<pc, status, findings, executed>>
  <2>1. Executed(pc - 1)' = Executed(pc - 1)
    BY <1>1, <1>5 DEF Executed, Program, IsDeclaration
  <2>2. QED BY <1>1, <1>5, <2>1 DEF EarnedInv, Typed, OnTheWay, PassIsEarned,
               PassRunsEverything, PassIsWithinTimeout, Program
<1>6. QED BY <1>3, <1>4, <1>5 DEF Settle

LEMMA EarnedNext ==
  ASSUME EarnedInv, [Next]_vars
  PROVE  EarnedInv'
<1> USE DEF EarnedInv
<1>1. CASE PickStep
  <2>1. UNCHANGED <<setup, mode, pc, executed>> /\ pc \in Nat /\ pc <= Len(Program)
    <3>1. UNCHANGED <<setup, mode, pc, executed>> /\ pc <= Len(Program)
      BY <1>1, Zenon DEF PickStep
    <3>2. QED BY <3>1 DEF Typed
  <2>2. Executed(pc - 1)' = Executed(pc - 1)
    BY <2>1 DEF Executed, Program, IsDeclaration
  <2>3. CASE phase' = "step" /\ UNCHANGED findings
    BY <1>1, <2>1, <2>2, <2>3 DEF PickStep, Typed, OnTheWay, PassIsEarned,
       PassRunsEverything, PassIsWithinTimeout, Program
  <2>4. CASE phase' = "over" /\ status' \in {"timeout", "error"}
    BY <2>1, <2>4 DEF Typed, OnTheWay, PassIsEarned, PassRunsEverything,
       PassIsWithinTimeout, Program
  <2>5. QED BY <1>1, <2>3, <2>4 DEF PickStep, End
<1>2. CASE EndOfSteps
  <2>1. UNCHANGED <<setup, mode, pc, executed, world>> /\ phase' = "over"
        /\ pc = Len(Program) + 1 /\ pc \in Nat /\ phase = "head"
    BY <1>2 DEF EndOfSteps, End, Typed
  <2>2. CASE status' = "fail"
    BY <2>1, <2>2 DEF Typed, OnTheWay, PassIsEarned, PassRunsEverything,
       PassIsWithinTimeout, Program
  <2>3. CASE status' = "pass" /\ findings' = findings
    <3>1. executed = Cardinality({i \in DOMAIN Program : ~ IsDeclaration(Program[i])})
      BY <2>1 DEF Typed, OnTheWay, Executed
    <3>2. PassRunsEverything'
      BY <2>1, <2>3, <3>1 DEF OnTheWay, PassRunsEverything, Program, IsDeclaration
    <3>3. Program # <<>> => pc > 1
      BY <2>1 DEF Typed
    <3>4. PassIsWithinTimeout'
      BY <2>1, <3>3 DEF OnTheWay, PassIsWithinTimeout, Spent, Program
    <3>5. QED BY <2>1, <3>2, <3>4 DEF Typed, OnTheWay, PassIsEarned, Program
  <2>4. QED BY <1>2, <2>2, <2>3 DEF EndOfSteps, End
<1>3. CASE BasicStep \/ ProcStep \/ NetStep \/ PollEnds
  BY <1>3, StepsSettle, SettleEarned
<1>4. CASE AssertThrows \/ StartPolling \/ PollSleeps
  <2>1. UNCHANGED <<setup, mode, pc, executed>> /\ phase \in {"step", "polling"}
        /\ phase' \in {"step", "polling"} /\ findings' \in {findings, {}}
    BY <1>4 DEF AssertThrows, StartPolling, PollSleeps, Doing
  <2>2. Executed(pc - 1)' = Executed(pc - 1)
    BY <2>1 DEF Executed, Program, IsDeclaration
  <2>3. phase' = "polling" => CurrentStep'.op \in {"eventually", "never"}
    <3>1. ASSUME UNCHANGED nest PROVE CurrentStep' = CurrentStep
      BY <2>1, <3>1 DEF CurrentStep, InBlock, Program
    <3>2. QED BY <1>4, <3>1 DEF AssertThrows, StartPolling, PollSleeps, Doing, Typed
  <2>4. QED BY <2>1, <2>2, <2>3 DEF Typed, OnTheWay, PassIsEarned, PassRunsEverything,
               PassIsWithinTimeout, Program
<1>5. CASE StartReplay
  <2>1. UNCHANGED setup /\ mode' = "replay" /\ phase' = "head" /\ pc' = 1
        /\ findings' = {} /\ executed' = 0
    BY <1>5 DEF StartReplay
  <2>2. Executed(pc - 1)' = 0
    <3>1. {i \in 1..(pc' - 1) : ~ IsDeclaration(Program[i])'} = {}
      BY <2>1
    <3>2. QED BY <2>1, <3>1, FS_EmptySet DEF Executed
  <2>3. QED BY <2>1, <2>2 DEF Typed, OnTheWay, PassIsEarned, PassRunsEverything,
               PassIsWithinTimeout, Program
<1>6. CASE UNCHANGED vars
  <2>1. CurrentStep' = CurrentStep
    BY <1>6 DEF vars, run, CurrentStep, InBlock, Program
  <2>2. QED BY <1>6, <2>1 DEF vars, run, Typed, OnTheWay, PassIsEarned, PassRunsEverything,
       PassIsWithinTimeout, Program, Spent, Executed, IsDeclaration
<1>7. QED BY <1>1, <1>2, <1>3, <1>4, <1>5, <1>6 DEF Next, BlockStep

(***************************************************************************)
(* A run that passes has run every step of its scenario, in the recording  *)
(* and in the replay, and a deterministic one in time: whatever ends the   *)
(* loop of run_scenario early, and whatever a block catches, leaves a      *)
(* finding or another status.                                              *)
(***************************************************************************)
THEOREM PassesAreEarned == Spec => []PassIsEarned
<1>1. EarnedInv /\ [Next]_vars => EarnedInv'
  BY EarnedNext
<1>2. QED BY <1>1, InitEarned, PTL DEF Spec, EarnedInv

-----------------------------------------------------------------------------
(* Sequences and queues, of whatever elements. *)
IsSeq(s) == s \in Seq(Range(s))

LEMMA IsSeqFacts ==
  ASSUME NEW s, IsSeq(s)
  PROVE  Len(s) \in Nat /\ DOMAIN s = 1..Len(s)
BY LenProperties DEF IsSeq

LEMMA SeqIsSeq ==
  ASSUME NEW S, NEW s \in Seq(S)
  PROVE  IsSeq(s)
<1>1. Len(s) \in Nat /\ DOMAIN s = 1..Len(s) /\ s \in [1..Len(s) -> S]
  BY LenProperties
<1>2. s = [i \in 1..Len(s) |-> s[i]] /\ \A i \in 1..Len(s) : s[i] \in Range(s)
  BY <1>1 DEF Range
<1>3. s \in [1..Len(s) -> Range(s)]
  BY <1>1, <1>2
<1>4. QED BY <1>1, <1>3 DEF IsSeq

LEMMA AppendFacts ==
  ASSUME NEW s, IsSeq(s), NEW x
  PROVE  /\ IsSeq(Append(s, x)) /\ Len(Append(s, x)) = Len(s) + 1
         /\ \A i \in 1..Len(s) : Append(s, x)[i] = s[i]
         /\ Append(s, x)[Len(s) + 1] = x
         /\ Append(s, x) = s \o <<x>>
<1> DEFINE S == Range(s) \cup {x}
<1>1. s \in Seq(S) /\ x \in S
  BY SeqMonotonic DEF IsSeq
<1>2. /\ Append(s, x) \in Seq(S) /\ Len(Append(s, x)) = Len(s) + 1
      /\ \A i \in 1..Len(s) : Append(s, x)[i] = s[i]
      /\ Append(s, x)[Len(s) + 1] = x
  BY <1>1, AppendProperties
<1>3. Append(s, x) = s \o <<x>>
  BY <1>1, AppendIsConcat
<1>4. IsSeq(Append(s, x))
  BY <1>2, SeqIsSeq
<1>5. QED BY <1>2, <1>3, <1>4

LEMMA AppendTwo ==
  ASSUME NEW s, IsSeq(s), NEW x, NEW y
  PROVE  s \o <<x, y>> = Append(Append(s, x), y)
<1> DEFINE S == Range(s) \cup {x, y}
<1>1. s \in Seq(S) /\ <<x>> \in Seq(S) /\ <<y>> \in Seq(S)
  BY SeqMonotonic DEF IsSeq
<1>2. <<x, y>> = <<x>> \o <<y>>
  <2>1. Append(<<x>>, y) = <<x>> \o <<y>>
    BY <1>1, AppendIsConcat
  <2>2. Append(<<x>>, y) = <<x, y>>
    <3>1. /\ Append(<<x>>, y) \in Seq(S) /\ Len(Append(<<x>>, y)) = 2
          /\ Append(<<x>>, y)[1] = x /\ Append(<<x>>, y)[2] = y
      BY AppendProperties
    <3>2. <<x, y>> \in Seq(S) /\ Len(<<x, y>>) = 2 /\ <<x, y>>[1] = x /\ <<x, y>>[2] = y
      OBVIOUS
    <3>3. \A i \in 1..2 : i = 1 \/ i = 2
      OBVIOUS
    <3>4. QED BY <3>1, <3>2, <3>3, SeqEqual
  <2>3. QED BY <2>1, <2>2
<1>3. s \o <<x, y>> = (s \o <<x>>) \o <<y>>
  BY <1>1, <1>2, ConcatAssociative
<1>4. QED BY <1>3, AppendFacts

(* A removal leaves the other elements, in their order. *)
LEMMA RemoveFacts ==
  ASSUME NEW s, IsSeq(s), NEW i \in DOMAIN s
  PROVE  /\ IsSeq(RemoveAt(s, i)) /\ Len(RemoveAt(s, i)) = Len(s) - 1
         /\ \A j \in 1..(Len(s) - 1) :
              RemoveAt(s, i)[j] = IF j < i THEN s[j] ELSE s[j + 1]
<1> DEFINE S == Range(s)
           a == SubSeq(s, 1, i - 1)
           b == SubSeq(s, i + 1, Len(s))
           n == Len(s)
<1>1. n \in Nat /\ i \in 1..n /\ DOMAIN s = 1..n
  BY IsSeqFacts
<1>2. \A j \in 1..n : s[j] \in S
  BY <1>1 DEF Range
<1>3. /\ a \in Seq(S) /\ Len(a) = i - 1
      /\ \A j \in 1..(i - 1) : a[j] = s[j]
  <2>1. /\ a \in Seq(S) /\ Len(a) = IF 1 <= i - 1 THEN (i - 1) - 1 + 1 ELSE 0
        /\ \A j \in 1..((i - 1) - 1 + 1) : a[j] = s[1 + j - 1]
    BY <1>1, <1>2, SubSeqProperties
  <2>2. QED BY <1>1, <2>1
<1>4. /\ b \in Seq(S) /\ Len(b) = n - i
      /\ \A j \in 1..(n - i) : b[j] = s[i + j]
  <2>1. /\ b \in Seq(S) /\ Len(b) = IF i + 1 <= n THEN n - (i + 1) + 1 ELSE 0
        /\ \A j \in 1..(n - (i + 1) + 1) : b[j] = s[(i + 1) + j - 1]
    BY <1>1, <1>2, SubSeqProperties
  <2>2. QED BY <1>1, <2>1
<1> HIDE DEF a, b, n
<1>5. /\ a \o b \in Seq(S) /\ Len(a \o b) = Len(a) + Len(b)
      /\ \A j \in 1..(Len(a) + Len(b)) :
           (a \o b)[j] = IF j <= Len(a) THEN a[j] ELSE b[j - Len(a)]
  BY <1>3, <1>4, ConcatProperties, ZenonT(60)
<1>6. RemoveAt(s, i) = a \o b
  BY DEF RemoveAt, a, b
<1>7. \A j \in 1..(n - 1) : (a \o b)[j] = IF j < i THEN s[j] ELSE s[j + 1]
  <2> TAKE j \in 1..(n - 1)
  <2>1. CASE j < i
    BY <1>1, <1>3, <1>4, <1>5, <2>1
  <2>2. CASE ~ (j < i)
    <3>1. j - (i - 1) \in 1..(n - i) /\ i + (j - (i - 1)) = j + 1
      BY <1>1, <2>2
    <3>2. (a \o b)[j] = b[j - (i - 1)]
      BY <1>1, <1>3, <1>4, <1>5, <2>2, SMTT(60)
    <3>3. b[j - (i - 1)] = s[j + 1]
      BY <1>4, <3>1
    <3>4. QED BY <2>2, <3>2, <3>3
  <2>3. QED BY <2>1, <2>2
<1>8. Len(a \o b) = n - 1
  BY <1>1, <1>3, <1>4, <1>5
<1>9. QED BY <1>5, <1>6, <1>7, <1>8, SeqIsSeq DEF n

(* The identities in a queue. *)
IdsOf(s) == {s[i].id : i \in DOMAIN s}
NoIdTwice(s) == \A i, j \in DOMAIN s : s[i].id = s[j].id => i = j

LEMMA IdsAppended ==
  ASSUME NEW s, IsSeq(s), NEW x
  PROVE  /\ IdsOf(Append(s, x)) = IdsOf(s) \cup {x.id}
         /\ NoIdTwice(s) /\ x.id \notin IdsOf(s) => NoIdTwice(Append(s, x))
<1> DEFINE n == Len(s)
           t == Append(s, x)
<1>1. n \in Nat /\ DOMAIN s = 1..n
  BY IsSeqFacts
<1>2. /\ IsSeq(t) /\ Len(t) = n + 1
      /\ \A i \in 1..n : t[i] = s[i]
      /\ t[n + 1] = x
  BY AppendFacts, ZenonT(60)
<1>3. DOMAIN t = 1..(n + 1)
  BY <1>2, IsSeqFacts
<1> HIDE DEF t, n
<1>4. 1..(n + 1) = 1..n \cup {n + 1}
  BY <1>1
<1>5. IdsOf(t) = IdsOf(s) \cup {x.id}
  <2>1. \A i \in 1..n : t[i].id = s[i].id
    BY <1>2
  <2>2. IdsOf(t) = {t[i].id : i \in 1..n \cup {n + 1}}
    BY <1>3, <1>4 DEF IdsOf
  <2>3. QED BY <1>1, <1>2, <2>1, <2>2 DEF IdsOf
<1>6. ASSUME NoIdTwice(s), x.id \notin IdsOf(s)
      PROVE  NoIdTwice(t)
  <2>1. \A i \in 1..n : s[i].id # x.id
    BY <1>1, <1>6 DEF IdsOf
  <2>2. QED BY <1>1, <1>2, <1>3, <1>6, <2>1 DEF NoIdTwice
<1>7. QED BY <1>5, <1>6 DEF t

LEMMA IdsRemoved ==
  ASSUME NEW s, IsSeq(s), NEW i \in DOMAIN s
  PROVE  /\ IdsOf(RemoveAt(s, i)) \subseteq IdsOf(s)
         /\ NoIdTwice(s) => /\ NoIdTwice(RemoveAt(s, i))
                            /\ IdsOf(RemoveAt(s, i)) = IdsOf(s) \ {s[i].id}
<1> DEFINE n == Len(s)
           t == RemoveAt(s, i)
<1>1. n \in Nat /\ DOMAIN s = 1..n /\ i \in 1..n
  BY IsSeqFacts
<1>2. /\ IsSeq(t) /\ Len(t) = n - 1
      /\ \A j \in 1..(n - 1) : t[j] = IF j < i THEN s[j] ELSE s[j + 1]
  BY RemoveFacts
<1>3. DOMAIN t = 1..(n - 1)
  BY <1>2, IsSeqFacts
<1> HIDE DEF t, n
<1>4. \A j \in 1..(n - 1) : \E k \in 1..n : k # i /\ t[j] = s[k]
  <2> TAKE j \in 1..(n - 1)
  <2>1. CASE j < i
    BY <1>1, <1>2, <2>1
  <2>2. CASE ~ (j < i)
    <3>1. j + 1 \in 1..n /\ j + 1 # i
      BY <1>1, <2>2
    <3>2. QED BY <1>2, <2>2, <3>1
  <2>3. QED BY <2>1, <2>2
<1>5. \A k \in 1..n : k # i => \E j \in 1..(n - 1) : t[j] = s[k]
  <2> SUFFICES ASSUME NEW k \in 1..n, k # i
               PROVE  \E j \in 1..(n - 1) : t[j] = s[k]
    OBVIOUS
  <2>1. CASE k < i
    BY <1>1, <1>2, <2>1
  <2>2. CASE k > i
    <3>1. k - 1 \in 1..(n - 1) /\ ~ (k - 1 < i) /\ (k - 1) + 1 = k
      BY <1>1, <2>2
    <3>2. QED BY <1>2, <3>1
  <2>3. QED BY <1>1, <2>1, <2>2
<1>6. IdsOf(t) \subseteq IdsOf(s)
  BY <1>1, <1>3, <1>4 DEF IdsOf
<1>7. ASSUME NoIdTwice(s)
      PROVE  NoIdTwice(t)
  <2> SUFFICES ASSUME NEW j \in 1..(n - 1), NEW k \in 1..(n - 1), t[j].id = t[k].id
               PROVE  j = k
    BY <1>3 DEF NoIdTwice
  <2> DEFINE from(x) == IF x < i THEN x ELSE x + 1
  <2>1. from(j) \in 1..n /\ from(k) \in 1..n
    BY <1>1
  <2>2. t[j] = s[from(j)] /\ t[k] = s[from(k)]
    BY <1>2
  <2>3. from(j) = from(k)
    BY <1>1, <1>7, <2>1, <2>2 DEF NoIdTwice
  <2>4. QED BY <1>1, <2>3
<1>8. ASSUME NoIdTwice(s)
      PROVE  IdsOf(t) = IdsOf(s) \ {s[i].id}
  <2>1. \A k \in 1..n : s[k].id = s[i].id => k = i
    BY <1>1, <1>8 DEF NoIdTwice
  <2>2. \A k \in 1..n : k # i => s[k].id \in IdsOf(t)
    BY <1>3, <1>5 DEF IdsOf
  <2>3. \A j \in 1..(n - 1) : t[j].id \in IdsOf(s) /\ t[j].id # s[i].id
    BY <1>1, <1>4, <2>1 DEF IdsOf
  <2>4. QED BY <1>1, <1>3, <2>2, <2>3 DEF IdsOf
<1>9. QED BY <1>6, <1>7, <1>8 DEF t

-----------------------------------------------------------------------------
(* What a log says of the messages picked and dropped. *)
PicksOf(l)   == {i \in DOMAIN l : l[i].kind = "deliver"}
PickedOf(l)  == {l[i].id : i \in PicksOf(l)}
DroppedOf(l) == {l[i].id : i \in {j \in DOMAIN l : l[j].kind = "drop" /\ l[j].dropped}}
PickedOnce(l) == \A i, j \in PicksOf(l) : l[i].id = l[j].id => i = j

LEMMA LogAppended ==
  ASSUME NEW l, IsSeq(l), NEW d
  PROVE  /\ d.kind # "deliver" => /\ PickedOf(Append(l, d)) = PickedOf(l)
                                  /\ PickedOnce(l) => PickedOnce(Append(l, d))
         /\ d.kind = "deliver" =>
              /\ PickedOf(Append(l, d)) = PickedOf(l) \cup {d.id}
              /\ PickedOnce(l) /\ d.id \notin PickedOf(l) => PickedOnce(Append(l, d))
         /\ ~ (d.kind = "drop" /\ d.dropped) => DroppedOf(Append(l, d)) = DroppedOf(l)
         /\ DroppedOf(Append(l, d)) \subseteq DroppedOf(l) \cup {d.id}
<1> DEFINE n == Len(l)
           t == Append(l, d)
<1>1. n \in Nat /\ DOMAIN l = 1..n
  BY IsSeqFacts
<1>2. /\ IsSeq(t) /\ Len(t) = n + 1
      /\ \A i \in 1..n : t[i] = l[i]
      /\ t[n + 1] = d
  BY AppendFacts, ZenonT(60)
<1>3. DOMAIN t = 1..(n + 1)
  BY <1>2, IsSeqFacts
<1> HIDE DEF t, n
<1>4. 1..(n + 1) = 1..n \cup {n + 1} /\ n + 1 \notin 1..n
  BY <1>1
<1>5. ASSUME d.kind # "deliver"
      PROVE  PickedOf(t) = PickedOf(l) /\ (PickedOnce(l) => PickedOnce(t))
  <2>1. PicksOf(t) = PicksOf(l)
    BY <1>1, <1>2, <1>3, <1>4, <1>5 DEF PicksOf
  <2>2. \A i \in PicksOf(l) : t[i] = l[i]
    BY <1>1, <1>2 DEF PicksOf
  <2>3. QED BY <2>1, <2>2 DEF PickedOf, PickedOnce
<1>6. ASSUME d.kind = "deliver"
      PROVE  /\ PickedOf(t) = PickedOf(l) \cup {d.id}
             /\ PickedOnce(l) /\ d.id \notin PickedOf(l) => PickedOnce(t)
  <2>1. PicksOf(t) = PicksOf(l) \cup {n + 1}
    BY <1>1, <1>2, <1>3, <1>4, <1>6 DEF PicksOf
  <2>2. \A i \in PicksOf(l) : t[i] = l[i] /\ l[i].id \in PickedOf(l)
    BY <1>1, <1>2 DEF PicksOf, PickedOf
  <2>3. PickedOf(t) = PickedOf(l) \cup {d.id}
    BY <1>2, <2>1, <2>2 DEF PickedOf
  <2>4. PickedOnce(l) /\ d.id \notin PickedOf(l) => PickedOnce(t)
    BY <1>2, <2>1, <2>2 DEF PickedOnce
  <2>5. QED BY <2>3, <2>4
<1> DEFINE Drops(s) == {j \in DOMAIN s : s[j].kind = "drop" /\ s[j].dropped}
<1>7. Drops(t) \subseteq Drops(l) \cup {n + 1} /\ Drops(l) \subseteq Drops(t)
      /\ (n + 1 \in Drops(t) => d.kind = "drop" /\ d.dropped)
      /\ \A i \in Drops(l) : t[i] = l[i]
  BY <1>1, <1>2, <1>3, <1>4
<1> HIDE DEF Drops
<1>8. DroppedOf(t) = {t[i].id : i \in Drops(t)} /\ DroppedOf(l) = {l[i].id : i \in Drops(l)}
  BY DEF DroppedOf, Drops
<1>9. ~ (d.kind = "drop" /\ d.dropped) => DroppedOf(t) = DroppedOf(l)
  BY <1>7, <1>8
<1>10. DroppedOf(t) \subseteq DroppedOf(l) \cup {d.id}
  BY <1>2, <1>7, <1>8
<1>11. QED BY <1>5, <1>6, <1>9, <1>10 DEF t

(* The log l tells of the messages below number n: those of the queue q    *)
(* wait, the others were picked, and the inboxes of box hold what was      *)
(* picked and not dropped.                                                 *)
Told(q, box, n, l) ==
  /\ IsSeq(q) /\ NoIdTwice(q) /\ IsSeq(l) /\ PickedOnce(l) /\ n \in Nat \ {0}
  /\ IdsOf(q) \cap PickedOf(l) = {}
  /\ IdsOf(q) \cup PickedOf(l) = 1..(n - 1)
  /\ DroppedOf(l) \subseteq PickedOf(l)
  /\ box = [x \in Nodes |-> box[x]]
  /\ \A x \in Nodes : IsSeq(box[x]) /\ IdsOf(box[x]) \subseteq PickedOf(l) \ DroppedOf(l)

LEMMA ToldQuiet ==
  ASSUME NEW q, NEW box, NEW n, NEW l, Told(q, box, n, l), NEW d, d.kind \notin {"deliver", "drop"}
  PROVE  Told(q, box, n, Append(l, d))
<1>1. IsSeq(Append(l, d))
  BY AppendFacts DEF Told
<1>2. /\ PickedOf(Append(l, d)) = PickedOf(l) /\ PickedOnce(Append(l, d))
      /\ DroppedOf(Append(l, d)) = DroppedOf(l)
  BY LogAppended DEF Told
<1>3. QED BY <1>1, <1>2 DEF Told

LEMMA ToldSent ==
  ASSUME NEW q, NEW box, NEW n, NEW l, Told(q, box, n, l), NEW m, m.id = n
  PROVE  Told(Append(q, m), box, n + 1, l)
<1>1. n \in Nat \ {0} /\ n \notin 1..(n - 1)
  BY DEF Told
<1>2. n \notin IdsOf(q) /\ n \notin PickedOf(l)
  BY <1>1 DEF Told
<1>3. IsSeq(Append(q, m)) /\ NoIdTwice(Append(q, m)) /\ IdsOf(Append(q, m)) = IdsOf(q) \cup {n}
  BY <1>2, AppendFacts, IdsAppended DEF Told
<1>4. 1..((n + 1) - 1) = 1..(n - 1) \cup {n} /\ n + 1 \in Nat \ {0}
  BY <1>1
<1>5. IdsOf(Append(q, m)) \cup PickedOf(l) = 1..((n + 1) - 1)
  BY <1>3, <1>4 DEF Told
<1>6. IdsOf(Append(q, m)) \cap PickedOf(l) = {}
  BY <1>2, <1>3 DEF Told
<1>7. QED BY <1>3, <1>4, <1>5, <1>6 DEF Told

LEMMA ToldPicked ==
  ASSUME NEW q, NEW box, NEW n, NEW l, Told(q, box, n, l), NEW i \in DOMAIN q,
         NEW d, d.kind = "deliver", d.id = q[i].id
  PROVE  /\ Told(RemoveAt(q, i), box, n, Append(l, d))
         /\ q[i].id \in PickedOf(Append(l, d)) \ DroppedOf(Append(l, d))
         /\ \A x \in Nodes : q[i].id \notin IdsOf(box[x])
<1>1. q[i].id \in IdsOf(q) /\ q[i].id \notin PickedOf(l)
  BY DEF Told, IdsOf
<1>2. /\ PickedOf(Append(l, d)) = PickedOf(l) \cup {q[i].id} /\ PickedOnce(Append(l, d))
      /\ DroppedOf(Append(l, d)) = DroppedOf(l) /\ IsSeq(Append(l, d))
  BY <1>1, LogAppended, AppendFacts DEF Told
<1>3. /\ IsSeq(RemoveAt(q, i)) /\ NoIdTwice(RemoveAt(q, i))
      /\ IdsOf(RemoveAt(q, i)) = IdsOf(q) \ {q[i].id}
  BY RemoveFacts, IdsRemoved DEF Told
<1>4. QED BY <1>1, <1>2, <1>3 DEF Told

LEMMA ToldDropped ==
  ASSUME NEW q, NEW box, NEW n, NEW l, Told(q, box, n, l), NEW d, d.kind = "drop",
         d.id \in PickedOf(l), \A x \in Nodes : d.id \notin IdsOf(box[x])
  PROVE  Told(q, box, n, Append(l, d))
<1>1. /\ PickedOf(Append(l, d)) = PickedOf(l) /\ PickedOnce(Append(l, d))
      /\ DroppedOf(Append(l, d)) \subseteq DroppedOf(l) \cup {d.id} /\ IsSeq(Append(l, d))
  BY LogAppended, AppendFacts DEF Told
<1>2. QED BY <1>1 DEF Told

LEMMA ToldDelivered ==
  ASSUME NEW q, NEW box, NEW n, NEW l, Told(q, box, n, l), NEW d, d.kind = "drop",
         ~ d.dropped, NEW m, m.id \in PickedOf(l) \ DroppedOf(l)
  PROVE  Told(q, [box EXCEPT ![m.to] = Append(@, m)], n, Append(l, d))
<1> DEFINE to == m.to
           new == [box EXCEPT ![to] = Append(@, m)]
<1>1. /\ PickedOf(Append(l, d)) = PickedOf(l) /\ PickedOnce(Append(l, d))
      /\ DroppedOf(Append(l, d)) = DroppedOf(l) /\ IsSeq(Append(l, d))
  BY LogAppended, AppendFacts DEF Told
<1>2. DOMAIN box = Nodes
  BY DEF Told
<1>3. new = [x \in Nodes |-> IF x = to THEN Append(box[x], m) ELSE box[x]]
  BY <1>2
<1>4. ASSUME NEW x \in Nodes
      PROVE  IsSeq(new[x]) /\ IdsOf(new[x]) \subseteq PickedOf(l) \ DroppedOf(l)
  <2>1. IsSeq(box[x]) /\ IdsOf(box[x]) \subseteq PickedOf(l) \ DroppedOf(l)
    BY DEF Told
  <2>2. IsSeq(Append(box[x], m)) /\ IdsOf(Append(box[x], m)) = IdsOf(box[x]) \cup {m.id}
    BY <2>1, AppendFacts, IdsAppended
  <2>3. QED BY <1>3, <2>1, <2>2
<1>5. new = [x \in Nodes |-> new[x]]
  BY <1>3
<1> HIDE DEF new
<1>6. Told(q, new, n, Append(l, d))
  BY <1>1, <1>4, <1>5 DEF Told
<1>7. QED BY <1>6 DEF new

LEMMA ToldReceived ==
  ASSUME NEW q, NEW box, NEW n, NEW l, Told(q, box, n, l), NEW to, NEW i,
         to \in Nodes => i \in DOMAIN box[to]
  PROVE  Told(q, [box EXCEPT ![to] = RemoveAt(@, i)], n, l)
<1> DEFINE new == [box EXCEPT ![to] = RemoveAt(@, i)]
<1>1. DOMAIN box = Nodes
  BY DEF Told
<1>2. new = [x \in Nodes |-> IF x = to THEN RemoveAt(box[x], i) ELSE box[x]]
  BY <1>1
<1>3. ASSUME NEW x \in Nodes
      PROVE  IsSeq(new[x]) /\ IdsOf(new[x]) \subseteq PickedOf(l) \ DroppedOf(l)
  <2>1. IsSeq(box[x]) /\ IdsOf(box[x]) \subseteq PickedOf(l) \ DroppedOf(l)
    BY DEF Told
  <2>2. x = to => IsSeq(RemoveAt(box[x], i)) /\ IdsOf(RemoveAt(box[x], i)) \subseteq IdsOf(box[x])
    BY <2>1, RemoveFacts, IdsRemoved
  <2>3. QED BY <1>2, <2>1, <2>2
<1>4. new = [x \in Nodes |-> new[x]]
  BY <1>2
<1> HIDE DEF new
<1>5. Told(q, new, n, l)
  BY <1>3, <1>4 DEF Told
<1>6. QED BY <1>5 DEF new

-----------------------------------------------------------------------------
(* The places of a queue: the first of some, and the nth. *)
LEMMA LeastNumber ==
  ASSUME NEW T, T \subseteq Nat, T # {}
  PROVE  \E n \in T : \A m \in T : n <= m
<1> DEFINE R == OpToRel(<, Nat)
<1>1. \A a, b \in Nat : a < b => <<a, b>> \in R
  BY DEF OpToRel
<1>2. IsWellFoundedOn(R, Nat)
  BY NatLessThanWellFounded
<1> HIDE DEF R
<1>3. PICK n \in T : \A m \in T : ~ (<<m, n>> \in R)
  BY <1>2, WFMin
<1>4. \A m \in T : ~ (m < n)
  BY <1>1, <1>3
<1>5. QED BY <1>4

LEMMA MinIsOne ==
  ASSUME NEW T, T \subseteq Nat, T # {}
  PROVE  Min(T) \in T
BY LeastNumber DEF Min

(* The least bound below which more than n of the places lie is just above *)
(* the nth of them.                                                        *)
LEMMA NthIsOne ==
  ASSUME NEW k \in Nat, NEW T, T \subseteq 1..k, NEW n \in Nat, n < Cardinality(T)
  PROVE  Nth(T, n) \in T
<1> DEFINE below(b) == {j \in T : j < b}
           bad == {b \in Nat : Cardinality(below(b)) > n}
<1>1. IsFiniteSet(1..k)
  BY FS_Interval
<1>2. IsFiniteSet(T)
  BY <1>1, FS_Subset
<1>3. \A b : IsFiniteSet(below(b)) /\ Cardinality(below(b)) \in Nat
  BY <1>2, FS_Subset, FS_CardinalityType
<1>4. k + 1 \in bad
  <2>1. below(k + 1) = T
    <3>1. \A j \in T : j < k + 1
      OBVIOUS
    <3>2. QED BY <3>1
  <2>2. QED BY <2>1
<1> HIDE DEF bad
<1>5. PICK b \in bad : \A a \in bad : b <= a
  <2>1. bad \subseteq Nat /\ bad # {}
    BY <1>4 DEF bad
  <2>2. QED BY <2>1, LeastNumber
<1>6. b \in Nat /\ Cardinality(below(b)) > n
  BY <1>5 DEF bad
<1>7. b # 0
  <2>1. below(0) = {}
    <3>1. \A j \in T : ~ (j < 0)
      OBVIOUS
    <3>2. QED BY <3>1
  <2>2. Cardinality(below(0)) = 0
    BY <2>1, FS_EmptySet
  <2>3. QED BY <1>6, <2>2
<1> DEFINE i == b - 1
<1>8. i \in Nat /\ i \notin bad
  <2>1. i \in Nat /\ ~ (b <= i)
    BY <1>6, <1>7
  <2>2. QED BY <1>5, <2>1
<1>9. Cardinality(below(i)) \in Nat /\ Cardinality(below(i)) <= n
  <2>1. ~ (Cardinality(below(i)) > n)
    BY <1>8 DEF bad
  <2>2. QED BY <1>3, <2>1
<1>10. below(b) = below(i) \/ (i \in T /\ below(b) = below(i) \cup {i} /\ i \notin below(i))
  <2>1. \A j \in T : j < b <=> j < i \/ j = i
    BY <1>6, <1>8
  <2>2. i \notin below(i)
    BY <1>8
  <2>3. CASE i \in T
    BY <2>1, <2>2, <2>3
  <2>4. CASE i \notin T
    BY <2>1, <2>4
  <2>5. QED BY <2>3, <2>4
<1>11. i \in T /\ Cardinality(below(b)) = Cardinality(below(i)) + 1
  <2>1. below(b) # below(i)
    BY <1>6, <1>9
  <2>2. i \in T /\ below(b) = below(i) \cup {i} /\ i \notin below(i)
    BY <1>10, <2>1
  <2>3. IsFiniteSet(below(i))
    BY <1>3
  <2>4. Cardinality(below(i) \cup {i}) = Cardinality(below(i)) + 1
    BY <2>2, <2>3, FS_AddElement
  <2>5. QED BY <2>2, <2>4
<1>12. Cardinality(below(i)) = n
  BY <1>6, <1>9, <1>11
<1>13. i \in T /\ Cardinality({j \in T : j < i}) = n
  BY <1>11, <1>12
<1> HIDE DEF i
<1>14. QED BY <1>13 DEF Nth

LEMMA DeliverableFacts ==
  ASSUME NEW w, IsSeq(w.queue), Deliverable(w) # {}, NEW v \in Nat
  PROVE  /\ Deliverable(w) \subseteq DOMAIN w.queue
         /\ Nth(Deliverable(w), 0) \in Deliverable(w)
         /\ Nth(Deliverable(w), v % Cardinality(Deliverable(w))) \in Deliverable(w)
         /\ \A T \in SUBSET Deliverable(w) : T # {} => Min(T) \in T
<1> DEFINE D == Deliverable(w)
           k == Len(w.queue)
<1>1. k \in Nat /\ DOMAIN w.queue = 1..k
  BY IsSeqFacts
<1>2. D \subseteq 1..k
  BY <1>1 DEF Deliverable
<1> HIDE DEF D, k
<1>3. IsFiniteSet(1..k)
  BY <1>1, FS_Interval
<1>4. IsFiniteSet(D)
  BY <1>2, <1>3, FS_Subset
<1>5. Cardinality(D) \in Nat /\ Cardinality(D) # 0
  BY <1>4, FS_CardinalityType, FS_EmptySet DEF D
<1> DEFINE c == Cardinality(D)
<1> HIDE DEF c
<1>6. c \in Nat /\ c # 0
  BY <1>5 DEF c
<1>7. v % c \in Nat /\ v % c < c /\ 0 < c
  BY <1>6
<1>8. Nth(D, 0) \in D /\ Nth(D, v % c) \in D
  BY <1>1, <1>2, <1>7, NthIsOne DEF c
<1>9. \A T \in SUBSET D : T # {} => Min(T) \in T
  <2> SUFFICES ASSUME NEW T \in SUBSET D, T # {} PROVE Min(T) \in T
    OBVIOUS
  <2>1. T \subseteq Nat
    BY <1>1, <1>2
  <2>2. QED BY <2>1, MinIsOne
<1>10. QED BY <1>1, <1>2, <1>8, <1>9 DEF D, c, k

-----------------------------------------------------------------------------
(* The part of the world that the log tells of. *)
Fields == {"rng", "clock", "frozen", "kv", "rules", "queue", "inbox", "cut", "next_id",
           "rate", "reorder"}

Leaves(w, l) ==
  DOMAIN w = Fields /\ w.rng \in Nat /\ Told(w.queue, w.inbox, w.next_id, l)

(* The world w is v as far as the messages go. *)
Keeps(w, v) ==
  /\ DOMAIN w = Fields /\ w.rng \in Nat
  /\ w.queue = v.queue /\ w.inbox = v.inbox /\ w.next_id = v.next_id

NetInv ==
  /\ setup.stream \in Seq(0..MaxDraw) \ {<<>>}
  /\ ~ HasBlocks => nest = None /\ Leaves(world, log)

LEMMA KeepsFacts ==
  ASSUME NEW w, NEW v, Keeps(w, v)
  PROVE  /\ Keeps(Drawn(w), v)
         /\ \A key, value : Keeps(Put(w, key, value), v)
         /\ \A ms : Keeps(Advanced(w, ms), v)
         /\ \A i : Keeps(UsedOnce(w, i), v)
<1>1. Keeps(Drawn(w), v)
  BY DEF Keeps, Drawn, Fields
<1>2. ASSUME NEW key, NEW value
      PROVE  Keeps(Put(w, key, value), v)
  BY DEF Keeps, Put, Fields
<1>3. ASSUME NEW ms
      PROVE  Keeps(Advanced(w, ms), v)
  BY DEF Keeps, Advanced, Fields
<1>4. ASSUME NEW i
      PROVE  Keeps(UsedOnce(w, i), v)
  BY DEF Keeps, UsedOnce, Fields
<1>5. QED BY <1>1, <1>2, <1>3, <1>4

LEMMA DrawFacts ==
  ASSUME setup.stream \in Seq(0..MaxDraw) \ {<<>>}, NEW w, w.rng \in Nat
  PROVE  Draw(w) \in Nat
<1> DEFINE n == Len(setup.stream)
<1>1. n \in Nat /\ n # 0
  BY EmptySeq
<1> HIDE DEF n
<1>2. (w.rng % n) + 1 \in 1..n
  BY <1>1
<1>3. setup.stream[(w.rng % n) + 1] \in 0..MaxDraw
  BY <1>2, ElementOfSeq DEF n
<1>4. QED BY <1>3, MenuAssumption DEF Draw, n

(* A step ends so that its log tells of the world it leaves. *)
SettlesTold == \E w, ds, c, err : Settle(w, ds, c, err) /\ Leaves(w, log \o ds)

LEMMA SettleTells ==
  ASSUME nest = None, SettlesTold
  PROVE  nest' = None /\ UNCHANGED setup /\ Leaves(world, log)'
<1>1. PICK w, ds, c, err : Settle(w, ds, c, err) /\ Leaves(w, log \o ds)
  BY DEF SettlesTold
<1>2. world' = w /\ log' = log \o ds /\ nest' = None /\ UNCHANGED setup
  BY <1>1 DEF Settle, InBlock, StepDone, StepFailed, End
<1>3. QED BY <1>1, <1>2 DEF Leaves

LEMMA Quietly ==
  ASSUME Leaves(world, log), NEW w, NEW ds, NEW c, NEW err, Settle(w, ds, c, err),
         Keeps(w, world),
         ds = <<>> \/ \E d : ds = <<d>> /\ d.kind \notin {"deliver", "drop"}
  PROVE  SettlesTold
<1>1. IsSeq(log) /\ Told(w.queue, w.inbox, w.next_id, log)
  BY DEF Leaves, Keeps, Told
<1>2. CASE ds = <<>>
  <2>1. log \o ds = log
    BY <1>1, <1>2, ConcatEmptySeq DEF IsSeq
  <2>2. Leaves(w, log \o ds)
    BY <1>1, <2>1 DEF Leaves, Keeps
  <2>3. QED BY <2>2 DEF SettlesTold
<1>3. ASSUME NEW d, ds = <<d>>, d.kind \notin {"deliver", "drop"}
      PROVE  SettlesTold
  <2>1. log \o ds = Append(log, d)
    BY <1>1, <1>3, AppendFacts
  <2>2. Leaves(w, log \o ds)
    BY <1>1, <1>3, <2>1, ToldQuiet DEF Leaves, Keeps
  <2>3. QED BY <2>2 DEF SettlesTold
<1>4. QED BY <1>2, <1>3

LEMMA CheckExitTells ==
  ASSUME Leaves(world, log), NEW w, NEW ds, NEW c, NEW exit, CheckExit(w, ds, c, exit),
         Keeps(w, world),
         ds = <<>> \/ \E d : ds = <<d>> /\ d.kind \notin {"deliver", "drop"}
  PROVE  SettlesTold
<1>1. \E v, err : Settle(v, ds, c, err) /\ Keeps(v, world)
  BY KeepsFacts DEF CheckExit
<1>2. QED BY <1>1, Quietly

Quiet(d) == d.kind \notin {"deliver", "drop"}

LEMMA BasicTells ==
  ASSUME Leaves(world, log), BasicStep
  PROVE  SettlesTold
<1>1. Keeps(world, world)
  BY DEF Keeps, Leaves
<1>2. /\ \A err : Refuse(err) => SettlesTold
      /\ \A w : Keeps(w, world) /\ Succeed(w) => SettlesTold
  BY <1>1, Quietly DEF Refuse, Succeed
<1>3. ASSUME NEW w0, NEW w, NEW d, Keeps(w0, world), Keeps(w, world), Quiet(d),
             Compared(w0, w, d)
      PROVE  SettlesTold
  BY <1>3, Quietly DEF Compared, Quiet
<1>4. CASE RandU64
  <2>1. Compared(Drawn(world), Put(Drawn(world), CurrentStep.key, Draw(world)),
                 [kind |-> "rand", value |-> Draw(world)])
    BY <1>4 DEF RandU64
  <2>2. Keeps(Drawn(world), world) /\ Keeps(Put(Drawn(world), CurrentStep.key, Draw(world)), world)
    BY <1>1, KeepsFacts
  <2>3. Quiet([kind |-> "rand", value |-> Draw(world)])
    BY DEF Quiet
  <2>4. QED BY <1>3, <2>1, <2>2, <2>3
<1>5. CASE Sleep
  <2>1. Keeps(Advanced(world, CurrentStep.ms), world)
    BY <1>1, KeepsFacts
  <2>2. Quiet([kind |-> "sleep", ms |-> CurrentStep.ms])
    BY DEF Quiet
  <2>3. QED BY <1>1, <1>2, <1>3, <1>5, <2>1, <2>2 DEF Sleep
<1>6. CASE Advance
  <2>1. Keeps(Advanced(world, CurrentStep.ms), world)
    BY <1>1, KeepsFacts
  <2>2. Quiet([kind |-> "advance", ms |-> CurrentStep.ms])
    BY DEF Quiet
  <2>3. QED BY <1>2, <1>3, <1>6, <2>1, <2>2 DEF Advance
<1>7. CASE Freeze
  <2>1. PICK w : /\ Succeed(w)
                 /\ w = [world EXCEPT !.frozen = TRUE,
                           !.clock = IF CurrentStep.at = None THEN @ ELSE CurrentStep.at]
    BY <1>7 DEF Freeze
  <2>2. Keeps(w, world)
    BY <1>1, <2>1 DEF Keeps, Fields
  <2>3. QED BY <1>2, <2>1, <2>2
<1>8. CASE Unfreeze
  <2>1. Keeps([world EXCEPT !.frozen = FALSE], world)
    BY <1>1 DEF Keeps, Fields
  <2>2. QED BY <1>2, <1>8, <2>1 DEF Unfreeze
<1>9. CASE SetKv
  BY <1>1, <1>2, <1>9, KeepsFacts DEF SetKv
<1>10. CASE GetKvAssert \/ Fail
  BY <1>1, <1>2, <1>10 DEF GetKvAssert, Fail
<1>11. QED BY <1>4, <1>5, <1>6, <1>7, <1>8, <1>9, <1>10 DEF BasicStep

LEMMA ProcTells ==
  ASSUME Leaves(world, log), ProcStep
  PROVE  SettlesTold
<1>1. Keeps(world, world)
  BY DEF Keeps, Leaves
<1>2. /\ \A err : Refuse(err) => SettlesTold
      /\ \A w : Keeps(w, world) /\ Succeed(w) => SettlesTold
  BY <1>1, Quietly DEF Refuse, Succeed
<1>3. /\ \A exit, ms : Quiet(SpawnDecision(exit, ms))
      /\ \A ms : Quiet(SpawnTimeoutDecision(ms))
  BY DEF Quiet, SpawnDecision, SpawnTimeoutDecision
<1>4. /\ \A ms : Keeps(Advanced(world, ms), world)
      /\ \A i : /\ Keeps(UsedOnce(world, i), world)
                /\ \A ms : Keeps(Advanced(UsedOnce(world, i), ms), world)
  BY <1>1, KeepsFacts
<1>5. CASE ProcWhen
  <2>1. PICK rules : Succeed([world EXCEPT !.rules = rules])
    BY <1>5 DEF ProcWhen
  <2>2. Keeps([world EXCEPT !.rules = rules], world)
    BY <1>1 DEF Keeps, Fields
  <2>3. QED BY <1>2, <2>1, <2>2
<1>6. CASE SpawnReplayed
  BY <1>2, <1>4, <1>6, CheckExitTells, Quietly DEF SpawnReplayed
<1>7. CASE SpawnScripted
  <2>1. PICK i, exit :
          \/ Refuse("proc_unmatched")
          \/ CheckExit(UsedOnce(world, i), <<SpawnDecision(exit, 0)>>, cursor, exit)
    BY <1>7 DEF SpawnScripted
  <2>2. QED BY <1>2, <1>3, <1>4, <2>1, CheckExitTells DEF Quiet
<1>8. ASSUME NEW r \in HostResults, SpawnHost(r)
      PROVE  SettlesTold
  <2>1. PICK i, used :
          /\ used = world \/ used = UsedOnce(world, i)
          /\ \/ Refuse("proc_when_host_unmatched")
             \/ Refuse("proc_spawn_host")
             \/ Settle(Advanced(world, r.ms), <<SpawnTimeoutDecision(r.ms)>>, cursor,
                       "proc_timeout")
             \/ Settle(used, <<>>, cursor, "proc_when_host_exit")
             \/ CheckExit(Advanced(used, r.ms), <<SpawnDecision(r.exit, r.ms)>>, cursor, r.exit)
    BY <1>8 DEF SpawnHost
  <2>2. Keeps(used, world) /\ Keeps(Advanced(used, r.ms), world)
    BY <1>1, <1>4, <2>1
  <2>3. QED BY <1>2, <1>3, <1>4, <2>1, <2>2, CheckExitTells, Quietly DEF Quiet
<1>9. QED BY <1>5, <1>6, <1>7, <1>8 DEF ProcStep

(* A message that is delivered or dropped leaves the queue, and the log    *)
(* says so.                                                                *)
LEMMA DropOrDeliverTells ==
  ASSUME Leaves(world, log), NEW w, Keeps(w, world), NEW c, NEW i \in DOMAIN w.queue,
         DropOrDeliver(w, c, i)
  PROVE  SettlesTold
<1> DEFINE m == w.queue[i]
           taken == [w EXCEPT !.queue = Without(@, i)]
           pick == [kind |-> "deliver", id |-> m.id]
           l == Append(log, pick)
<1>1. /\ DOMAIN taken = Fields /\ taken.rng \in Nat
      /\ taken.queue = RemoveAt(w.queue, i) /\ taken.inbox = w.inbox
      /\ taken.next_id = w.next_id
  BY DEF Keeps, Fields, Without
<1>2. /\ Told(taken.queue, taken.inbox, taken.next_id, l)
      /\ m.id \in PickedOf(l) \ DroppedOf(l) /\ \A x \in Nodes : m.id \notin IdsOf(taken.inbox[x])
  BY <1>1, ToldPicked DEF Leaves, Keeps
<1>3. Keeps(taken, taken)
  BY <1>1 DEF Keeps
<1>4. IsSeq(log) /\ log \o <<pick>> = l
  BY AppendFacts DEF Leaves, Told
<1>5. PICK after, b, d, e :
        /\ after = taken \/ after = Drawn(taken)
        /\ d = DropDecision(m.id, b)
        /\ \/ Settle(taken, <<pick>>, c, "replay_drift")
           \/ Settle(IF b THEN after ELSE [after EXCEPT !.inbox[m.to] = Append(@, m)],
                     <<pick, d>>, e, None)
  BY DEF DropOrDeliver
<1> HIDE DEF taken, pick, l
<1>6. CASE Settle(taken, <<pick>>, c, "replay_drift")
  BY <1>1, <1>2, <1>4, <1>6 DEF SettlesTold, Leaves
<1>7. CASE Settle(IF b THEN after ELSE [after EXCEPT !.inbox[m.to] = Append(@, m)],
                  <<pick, d>>, e, None)
  <2>1. Keeps(after, taken)
    BY <1>3, <1>5, KeepsFacts
  <2>2. log \o <<pick, d>> = Append(l, d)
    BY <1>4, AppendTwo, AppendFacts
  <2>3. d.kind = "drop" /\ d.id = m.id /\ d.dropped = b
    BY <1>5 DEF DropDecision
  <2>4. CASE b
    <3>1. Told(after.queue, after.inbox, after.next_id, Append(l, d))
      BY <1>2, <2>1, <2>3, ToldDropped DEF Keeps
    <3>2. Settle(after, <<pick, d>>, e, None)
      BY <1>7, <2>4
    <3>3. Leaves(after, log \o <<pick, d>>)
      BY <2>1, <2>2, <3>1 DEF Leaves, Keeps
    <3>4. QED BY <3>2, <3>3 DEF SettlesTold
  <2>5. CASE ~ b
    <3> DEFINE given == [after EXCEPT !.inbox[m.to] = Append(@, m)]
    <3>1. /\ DOMAIN given = Fields /\ given.rng \in Nat
          /\ given.queue = taken.queue /\ given.next_id = taken.next_id
          /\ given.inbox = [taken.inbox EXCEPT ![m.to] = Append(@, m)]
      BY <2>1 DEF Keeps, Fields
    <3>2. Told(given.queue, given.inbox, given.next_id, Append(l, d))
      <4>1. ~ d.dropped
        BY <2>3, <2>5
      <4>2. Told(taken.queue, [taken.inbox EXCEPT ![m.to] = Append(@, m)], taken.next_id,
                 Append(l, d))
        BY <1>2, <2>3, <4>1, ToldDelivered
      <4>3. QED BY <3>1, <4>2
    <3>3. Settle(given, <<pick, d>>, e, None)
      BY <1>7, <2>5
    <3> HIDE DEF given
    <3>4. Leaves(given, log \o <<pick, d>>)
      BY <2>2, <3>1, <3>2 DEF Leaves
    <3>5. QED BY <3>3, <3>4 DEF SettlesTold
  <2>6. QED BY <2>4, <2>5
<1>8. QED BY <1>5, <1>6, <1>7

LEMMA EmptyTells == Leaves(EmptyWorld, <<>>)
<1>1. DOMAIN EmptyWorld = Fields /\ EmptyWorld.rng = 0 /\ EmptyWorld.queue = <<>>
      /\ EmptyWorld.inbox = [n \in Nodes |-> <<>>] /\ EmptyWorld.next_id = 1
  BY DEF EmptyWorld, Fields
<1>2. IsSeq(<<>>) /\ NoIdTwice(<<>>) /\ PickedOnce(<<>>)
  <2>1. IsSeq(<<>>)
    BY EmptySeq DEF IsSeq
  <2>2. DOMAIN <<>> = {}
    OBVIOUS
  <2>3. QED BY <2>1, <2>2 DEF NoIdTwice, PickedOnce, PicksOf
<1>3. IdsOf(<<>>) = {} /\ PickedOf(<<>>) = {} /\ DroppedOf(<<>>) = {}
  BY DEF IdsOf, PickedOf, PicksOf, DroppedOf
<1>4. 1..(1 - 1) = {}
  OBVIOUS
<1>5. Told(<<>>, [n \in Nodes |-> <<>>], 1, <<>>)
  BY <1>2, <1>3, <1>4 DEF Told
<1>6. QED BY <1>1, <1>5 DEF Leaves

LEMMA NetTells ==
  ASSUME setup.stream \in Seq(0..MaxDraw) \ {<<>>}, Leaves(world, log), NetStep
  PROVE  SettlesTold
<1>1. Keeps(world, world)
  BY DEF Keeps, Leaves
<1>2. /\ \A err : Refuse(err) => SettlesTold
      /\ \A w : Keeps(w, world) /\ Succeed(w) => SettlesTold
  BY <1>1, Quietly DEF Refuse, Succeed
<1>3. ASSUME NEW cut, \/ Succeed([world EXCEPT !.cut = cut])
                      \/ Succeed([world EXCEPT !.rate = cut])
                      \/ Succeed([world EXCEPT !.reorder = cut])
      PROVE  SettlesTold
  <2>1. /\ Keeps([world EXCEPT !.cut = cut], world)
        /\ Keeps([world EXCEPT !.rate = cut], world)
        /\ Keeps([world EXCEPT !.reorder = cut], world)
    BY <1>1 DEF Keeps, Fields
  <2>2. QED BY <1>2, <1>3, <2>1
<1>4. CASE NetPartition \/ NetHeal \/ NetSetDropRate \/ NetSetReorder
  BY <1>2, <1>3, <1>4 DEF NetPartition, NetHeal, NetSetDropRate, NetSetReorder
<1>5. ASSUME NEW w, Leaves(w, log), Succeed(w)
      PROVE  SettlesTold
  <2>1. log \o <<>> = log
    BY ConcatEmptySeq DEF Leaves, Told, IsSeq
  <2>2. QED BY <1>5, <2>1 DEF Succeed, SettlesTold
<1>6. CASE NetSend
  <2>1. PICK m, w :
          /\ Succeed(w) /\ m.id = world.next_id
          /\ w = [world EXCEPT !.next_id = @ + 1, !.queue = Append(@, m)]
    <3> DEFINE m == [id |-> world.next_id, from |-> CurrentStep.from, to |-> CurrentStep.to,
                     payload |-> CurrentStep.payload]
               w == [world EXCEPT !.next_id = @ + 1, !.queue = Append(@, m)]
    <3>1. Succeed(w) /\ m.id = world.next_id
      BY <1>6 DEF NetSend
    <3> HIDE DEF m
    <3>2. QED BY <3>1
  <2>2. Told(Append(world.queue, m), world.inbox, world.next_id + 1, log)
    BY <2>1, ToldSent DEF Leaves
  <2>3. Leaves(w, log)
    BY <2>1, <2>2 DEF Leaves, Fields
  <2>4. QED BY <1>5, <2>1, <2>3
<1>7. CASE NetRecvAssert
  <2> DEFINE to    == CurrentStep.node
             inbox == world.inbox[to]
             found == {i \in DOMAIN inbox :
                         /\ CurrentStep.from \in {None, inbox[i].from}
                         /\ inbox[i].payload = CurrentStep.payload}
             w     == [world EXCEPT !.inbox[to] = RemoveAt(@, Min(found))]
  <2>1. CASE found = {}
    BY <1>2, <1>7, <2>1 DEF NetRecvAssert
  <2>2. CASE found # {}
    <3>1. Succeed(w)
      BY <1>7, <2>2 DEF NetRecvAssert
    <3>2. to \in Nodes => Min(found) \in DOMAIN inbox
      <4>1. SUFFICES ASSUME to \in Nodes PROVE Min(found) \in DOMAIN inbox
        OBVIOUS
      <4>2. IsSeq(inbox)
        BY <4>1 DEF Leaves, Told
      <4>3. found \subseteq DOMAIN inbox /\ DOMAIN inbox \subseteq Nat
        BY <4>2, IsSeqFacts
      <4> HIDE DEF found
      <4>4. QED BY <2>2, <4>3, MinIsOne
    <3> HIDE DEF found
    <3>3. Told(world.queue, [world.inbox EXCEPT ![to] = RemoveAt(@, Min(found))],
               world.next_id, log)
      BY <3>2, ToldReceived DEF Leaves
    <3>4. Leaves(w, log)
      BY <3>3 DEF Leaves, Fields
    <3>5. QED BY <1>5, <3>1, <3>4
  <2>3. QED BY <2>1, <2>2
<1>8. CASE NetDeliverOne
  <2> DEFINE ready == Deliverable(world)
             asked == {i \in ready : world.queue[i].id = Peek(cursor).id}
  <2>1. CASE ready = {}
    BY <1>2, <1>8, <2>1 DEF NetDeliverOne
  <2>2. CASE ready # {}
    <3>1. Draw(world) \in Nat /\ IsSeq(world.queue)
      BY DrawFacts DEF Leaves, Told
    <3>2. /\ ready \subseteq DOMAIN world.queue
          /\ Nth(ready, 0) \in ready
          /\ Nth(ready, Draw(world) % Cardinality(ready)) \in ready
          /\ asked # {} => Min(asked) \in asked
      BY <2>2, <3>1, DeliverableFacts
    <3>3. \/ Refuse("replay_drift")
          \/ \E w, c, i : /\ w = world \/ w = Drawn(world)
                          /\ i \in ready /\ DropOrDeliver(w, c, i)
      <4>1. CASE NextIs(cursor, "deliver")
        <5>1. CASE asked = {}
          BY <1>8, <2>2, <4>1, <5>1 DEF NetDeliverOne
        <5>2. CASE asked # {}
          <6>1. DropOrDeliver(world, Past(cursor), Min(asked))
            BY <1>8, <2>2, <4>1, <5>2 DEF NetDeliverOne
          <6>2. Min(asked) \in ready
            BY <3>2, <5>2
          <6>3. QED BY <6>1, <6>2
        <5>3. QED BY <5>1, <5>2
      <4>2. CASE ~ NextIs(cursor, "deliver")
        <5>1. \/ DropOrDeliver(Drawn(world), cursor,
                               Nth(ready, Draw(world) % Cardinality(ready)))
              \/ DropOrDeliver(world, cursor, Nth(ready, 0))
          BY <1>8, <2>2, <4>2 DEF NetDeliverOne
        <5>2. QED BY <3>2, <5>1
      <4>3. QED BY <4>1, <4>2
    <3>4. ASSUME NEW w, NEW c, NEW i, w = world \/ w = Drawn(world), i \in ready,
                 DropOrDeliver(w, c, i)
          PROVE  SettlesTold
      <4>1. Keeps(w, world)
        BY <1>1, <3>4, KeepsFacts
      <4>2. i \in DOMAIN w.queue
        BY <3>2, <3>4, <4>1 DEF Keeps
      <4>3. QED BY <3>4, <4>1, <4>2, DropOrDeliverTells
    <3>5. QED BY <1>2, <3>3, <3>4
  <2>3. QED BY <2>1, <2>2
<1>9. QED BY <1>4, <1>6, <1>7, <1>8 DEF NetStep

LEMMA InitTells == Init => NetInv
<1> SUFFICES ASSUME Init PROVE NetInv
  OBVIOUS
<1>1. PICK m \in Menus : \E n \in 0..m.max : setup \in
        [program : [1..n -> m.steps], det : m.dets, timeout : m.timeouts,
         backend : m.backends, until : m.untils, stream : m.streams]
  BY DEF Init
<1>2. setup.stream \in m.streams
  BY <1>1
<1>3. setup.stream \in Seq(0..MaxDraw) \ {<<>>}
  BY <1>2, MenuAssumption
<1>4. Leaves(EmptyWorld, <<>>)
  BY EmptyTells
<1>5. QED BY <1>3, <1>4 DEF NetInv, Init

(* No step changes the scenario or the options. *)
LEMMA SetupKept == [Next]_vars => UNCHANGED setup
<1>1. CASE BasicStep \/ ProcStep \/ NetStep \/ PollEnds
  BY <1>1, StepsSettle DEF Settle
<1>2. CASE PickStep \/ EndOfSteps \/ AssertThrows \/ StartPolling \/ PollSleeps \/ StartReplay
           \/ UNCHANGED vars
  BY <1>2 DEF PickStep, EndOfSteps, AssertThrows, StartPolling, PollSleeps, StartReplay, vars
<1>3. QED BY <1>1, <1>2 DEF Next, BlockStep

(* Without blocks, no step opens one, and every step leaves a world that   *)
(* its log tells of.                                                       *)
LEMMA NextTells ==
  ASSUME Typed, NetInv, [Next]_vars
  PROVE  NetInv'
<1>1. UNCHANGED setup
  BY SetupKept
<1> SUFFICES ASSUME ~ HasBlocks
             PROVE  nest' = None /\ Leaves(world, log)'
  BY <1>1 DEF NetInv, HasBlocks, Program
<1>2. /\ setup.stream \in Seq(0..MaxDraw) \ {<<>>}
      /\ nest = None /\ Leaves(world, log) /\ IsSeq(log)
  BY DEF NetInv, Leaves, Told
<1>3. CASE BasicStep \/ ProcStep \/ NetStep
  BY <1>2, <1>3, BasicTells, ProcTells, NetTells, SettleTells
<1>4. CASE PollEnds
  <2>1. Keeps(world, world)
    BY <1>2 DEF Keeps, Leaves
  <2>2. SettlesTold
    BY <1>2, <1>4, <2>1, Quietly DEF PollEnds, Succeed, Refuse
  <2>3. QED BY <1>2, <2>2, SettleTells
<1>5. CASE PickStep
  <2>1. UNCHANGED world /\ nest' = None
    BY <1>2, <1>5 DEF PickStep, End
  <2>2. log' = log \/ \E d : Quiet(d) /\ log' = Append(log, d)
    <3>1. Quiet([kind |-> "pick", id |-> pc])
      BY DEF Quiet
    <3>2. QED BY <1>5, <3>1 DEF PickStep
  <2>3. QED BY <1>2, <2>1, <2>2, ToldQuiet DEF Leaves, Quiet
<1>6. CASE EndOfSteps
  BY <1>2, <1>6 DEF EndOfSteps, End, Leaves
<1>7. CASE AssertThrows
  <2>1. phase = "step" /\ CurrentStep.op = "throws"
    BY <1>7 DEF AssertThrows, Doing
  <2>2. pc \in DOMAIN Program
    BY <2>1 DEF Typed
  <2>3. CurrentStep = Program[pc]
    BY <1>2 DEF CurrentStep, InBlock
  <2>4. QED BY <2>1, <2>2, <2>3 DEF HasBlocks
<1>8. CASE StartPolling
  BY <1>2, <1>8 DEF StartPolling, Leaves
<1>9. CASE PollSleeps
  <2>1. Keeps(world, world)
    BY <1>2 DEF Keeps, Leaves
  <2>2. Keeps(world', world) /\ nest' = None /\ log' = log
    BY <1>2, <1>9, <2>1, KeepsFacts DEF PollSleeps
  <2>3. QED BY <1>2, <2>2 DEF Keeps, Leaves
<1>10. CASE StartReplay
  BY <1>10, EmptyTells DEF StartReplay, Leaves
<1>11. CASE UNCHANGED vars
  BY <1>2, <1>11 DEF vars, run, Leaves
<1>12. QED BY <1>3, <1>4, <1>5, <1>6, <1>7, <1>8, <1>9, <1>10, <1>11 DEF Next, BlockStep

(***************************************************************************)
(* In a scenario without assert_throws blocks the log of decisions is the  *)
(* history of the network, in the recording and in the replay: every       *)
(* message sent is either queued or was picked, no message is picked       *)
(* twice, and an inbox never holds a message that is still queued or that  *)
(* the log says was dropped (NetSend, NetDeliverOne and NetRecvAssert).    *)
(***************************************************************************)
THEOREM TheLogTellsTheNetwork == Spec => []LogTellsNetwork
<1>1. EarnedInv /\ NetInv /\ [Next]_vars => (EarnedInv /\ NetInv)'
  BY EarnedNext, NextTells DEF EarnedInv
<1>2. NetInv => LogTellsNetwork
  <2> SUFFICES ASSUME NetInv, ~ HasBlocks PROVE LogTellsNetwork
    BY DEF LogTellsNetwork
  <2> DEFINE q == world.queue
             picks == PicksOf(log)
  <2>1. Told(q, world.inbox, world.next_id, log)
    BY DEF NetInv, Leaves
  <2>2. IdsOf(q) \cap PickedOf(log) = {} /\ IdsOf(q) \cup PickedOf(log) = 1..(world.next_id - 1)
    BY <2>1 DEF Told
  <2>3. \A i, j \in picks : log[i].id = log[j].id => i = j
    BY <2>1 DEF Told, PickedOnce
  <2>4. \A n \in Nodes : IdsOf(world.inbox[n]) \cap (DroppedOf(log) \cup IdsOf(q)) = {}
    BY <2>1, <2>2 DEF Told
  <2>5. QED BY <2>2, <2>3, <2>4 DEF LogTellsNetwork, IdsOf, PickedOf, PicksOf, DroppedOf
<1>3. QED BY <1>1, <1>2, InitEarned, InitTells, PTL DEF Spec

-----------------------------------------------------------------------------
(***************************************************************************)
(* A replay repeats its recording step by step.  A moment is the state of  *)
(* a run: where it is, how far it got, its log and its world.  The moments *)
(* of a recording are related by Did, which says what a step does and what *)
(* it logs, and nothing of what the log leaves out: the random stream, the *)
(* rules for processes, the host.  The replay goes through the same ones.  *)
(***************************************************************************)
Moment == [phase |-> phase, pc |-> pc, deadline |-> deadline, status |-> status,
           findings |-> findings, executed |-> executed, log |-> log, world |-> world]
Start  == [phase |-> "head", pc |-> 1, deadline |-> None, status |-> None,
           findings |-> {}, executed |-> 0, log |-> <<>>, world |-> EmptyWorld]

OpsIn(p) == {p.program[i].op : i \in DOMAIN p.program}

(* Worlds alike but for the rules, and for the random stream where no step *)
(* asks for a random value.                                                *)
Alike(p, w, v) ==
  /\ DOMAIN w = Fields /\ DOMAIN v = Fields
  /\ w.clock = v.clock /\ w.frozen = v.frozen /\ w.kv = v.kv
  /\ w.queue = v.queue /\ w.inbox = v.inbox /\ w.next_id = v.next_id
  /\ w.cut = v.cut /\ w.rate = v.rate /\ w.reorder = v.reorder
  /\ "rand" \in OpsIn(p) => w.rng = v.rng

(* The step in hand at a leaves the world v, the decisions ds and err. *)
DoesBasic(p, a, v, ds, err) ==
  LET s == p.program[a.pc]
      w == a.world
      x == p.stream[(w.rng % Len(p.stream)) + 1]
  IN
  \/ /\ s.op = "rand" /\ err = None
     /\ v = Put(Drawn(w), s.key, x) /\ ds = <<[kind |-> "rand", value |-> x]>>
  \/ /\ s.op \in {"sleep", "advance"} /\ err = None
     /\ v = Advanced(w, s.ms) /\ ds = <<[kind |-> s.op, ms |-> s.ms]>>
  \/ /\ s.op = "freeze" /\ err = None /\ ds = <<>>
     /\ v = [w EXCEPT !.frozen = TRUE, !.clock = IF s.at = None THEN @ ELSE s.at]
  \/ /\ s.op = "unfreeze" /\ err = None /\ ds = <<>> /\ v = [w EXCEPT !.frozen = FALSE]
  \/ /\ s.op = "set" /\ err = None /\ ds = <<>> /\ v = Put(w, s.key, s.value)
  \/ /\ s.op = "get" /\ v = w /\ ds = <<>>
     /\ IF s.is_null = (Lookup(w, s.key) = None) /\ s.equals \in {None, Lookup(w, s.key)}
        THEN err = None ELSE err = "get_kv_assert"
  \/ s.op = "fail" /\ v = w /\ ds = <<>> /\ err = "fail"

DoesProc(p, a, v, ds, err) ==
  LET s == p.program[a.pc]
      w == a.world
  IN
  \/ s.op = "when" /\ v = w /\ ds = <<>> /\ err = None
  \/ /\ s.op = "spawn" /\ err = "proc_timeout"
     /\ \E ms : /\ v = Advanced(w, ms)
                /\ ds = <<[kind |-> "spawn_timeout", cmd |-> s.cmd, ms |-> ms]>>
  \/ /\ s.op = "spawn"
     /\ \E exit, ms :
          /\ ds = <<[kind |-> "spawn", cmd |-> s.cmd, exit |-> exit, ms |-> ms]>>
          /\ IF s.expect \notin {None, exit}
             THEN v = Advanced(w, ms) /\ err = "proc_exit"
             ELSE /\ err = None
                  /\ v = IF s.save = None THEN Advanced(w, ms)
                         ELSE Put(Advanced(w, ms), s.save, exit)

Given(w, m, dropped) == IF dropped THEN w ELSE [w EXCEPT !.inbox[m.to] = Append(@, m)]

DoesNet(p, a, v, ds, err) ==
  LET s == p.program[a.pc]
      w == a.world
  IN
  \/ /\ s.op = "partition" /\ err = None /\ ds = <<>>
     /\ v = [w EXCEPT !.cut = @ \cup {s.pair}]
  \/ s.op = "heal" /\ err = None /\ ds = <<>> /\ v = [w EXCEPT !.cut = @ \ {s.pair}]
  \/ /\ s.op = "rate" /\ ds = <<>>
     /\ IF s.rate \in 0..MaxDraw THEN v = [w EXCEPT !.rate = s.rate] /\ err = None
                                 ELSE v = w /\ err = "net_drop_rate"
  \/ s.op = "reorder" /\ err = None /\ ds = <<>> /\ v = [w EXCEPT !.reorder = s.on]
  \/ /\ s.op = "send" /\ err = None /\ ds = <<>>
     /\ v = [w EXCEPT !.next_id = @ + 1,
               !.queue = Append(@, [id |-> w.next_id, from |-> s.from, to |-> s.to,
                                    payload |-> s.payload])]
  \/ s.op = "deliver" /\ Deliverable(w) = {} /\ v = w /\ ds = <<>> /\ err = "net_deliver"
  \/ /\ s.op = "deliver" /\ err = None
     /\ \E i \in Deliverable(w) : \E dropped :
          /\ v = Given([w EXCEPT !.queue = Without(@, i)], w.queue[i], dropped)
          /\ ds = <<[kind |-> "deliver", id |-> w.queue[i].id],
                    DropDecision(w.queue[i].id, dropped)>>
  \/ LET inbox == w.inbox[s.node]
         found == {i \in DOMAIN inbox : /\ s.from \in {None, inbox[i].from}
                                        /\ inbox[i].payload = s.payload}
     IN  /\ s.op = "recv" /\ ds = <<>>
         /\ IF found = {} THEN v = w /\ err = "net_recv_assert"
            ELSE v = [w EXCEPT !.inbox[s.node] = RemoveAt(@, Min(found))] /\ err = None

DoesPoll(p, a, v, ds, err) ==
  LET s      == p.program[a.pc]
      seen   == Lookup(a.world, s.key) = s.value
      wanted == s.op = "eventually"
  IN
  /\ a.phase = "polling" /\ v = a.world /\ ds = <<>>
  /\ \/ seen /\ IF wanted THEN err = None ELSE err = "assert_never_kv"
     \/ ~ seen /\ a.world.clock >= a.deadline
        /\ IF wanted THEN err = "assert_eventually_kv" ELSE err = None

Does(p, a, v, ds, err) ==
  \/ /\ a.phase = "step"
     /\ DoesBasic(p, a, v, ds, err) \/ DoesProc(p, a, v, ds, err) \/ DoesNet(p, a, v, ds, err)
  \/ DoesPoll(p, a, v, ds, err)

(* How a step ends that leaves v, ds and err, when no timeout ends the run. *)
Settles(p, a, b, v, ds, err) ==
  /\ b.log = a.log \o ds /\ Alike(p, b.world, v) /\ b.deadline = None
  /\ IF err = None
     THEN /\ b.phase = "head" /\ b.pc = a.pc + 1
          /\ b.status = a.status /\ b.findings = a.findings
          /\ b.executed = IF IsDeclaration(p.program[a.pc]) THEN a.executed ELSE a.executed + 1
     ELSE /\ b.phase = "over" /\ b.pc = a.pc /\ b.executed = a.executed
          /\ b.status = IF err = "proc_timeout" THEN "timeout" ELSE "fail"
          /\ b.findings = a.findings \cup {err}

(* What is not the end of a step leaves these alone. *)
Stays(a, b) ==
  b.pc = a.pc /\ b.status = a.status /\ b.findings = a.findings /\ b.executed = a.executed

DidPick(p, a, b) ==
  /\ a.phase = "head" /\ a.pc <= Len(p.program) /\ b.phase = "step"
  /\ b.log = Append(a.log, [kind |-> "pick", id |-> a.pc])
  /\ b.world = a.world /\ b.deadline = a.deadline /\ Stays(a, b)

DidEnd(p, a, b) ==
  /\ a.phase = "head" /\ a.pc > Len(p.program) /\ b.phase = "over"
  /\ b.log = a.log /\ b.world = a.world /\ b.pc = a.pc /\ b.executed = a.executed
  /\ b.deadline = None
  /\ IF a.executed = 0 /\ \E i \in DOMAIN p.program : IsDeclaration(p.program[i])
     THEN b.status = "fail" /\ b.findings = a.findings \cup {"no_steps_executed"}
     ELSE b.status = "pass" /\ b.findings = a.findings

DidPoll(p, a, b) ==
  LET s == p.program[a.pc] IN
  /\ b.phase = "polling" /\ b.log = a.log /\ Stays(a, b)
  /\ \/ /\ a.phase = "step" /\ s.op \in {"eventually", "never"}
        /\ b.world = a.world /\ b.deadline = a.world.clock + s.within
     \/ /\ a.phase = "polling" /\ b.deadline = a.deadline
        /\ Lookup(a.world, s.key) # s.value /\ ~ (a.world.clock >= a.deadline)
        /\ b.world = Advanced(a.world, s.poll)

Did(p, a, b) ==
  \/ DidPick(p, a, b) \/ DidEnd(p, a, b) \/ DidPoll(p, a, b)
  \/ \E v, ds, err : Does(p, a, v, ds, err) /\ Settles(p, a, b, v, ds, err)

(* The log l is the beginning of the log m. *)
Begins(l, m) ==
  /\ IsSeq(l) /\ IsSeq(m) /\ Len(l) <= Len(m)
  /\ \A i \in 1..Len(l) : m[i] = l[i]

(* h is the history of a run that has come to n, with the log l. *)
History(p, h, n, l) ==
  /\ n \in Nat /\ h[0] = Start /\ h[n].log = l
  /\ \A k \in 1..n : Did(p, h[k - 1], h[k])
  /\ \A k \in 0..n : Begins(h[k].log, l)

(* The replay is at the moment a. *)
LooksLike(a) ==
  /\ phase = a.phase /\ pc = a.pc /\ deadline = a.deadline /\ status = a.status
  /\ findings = a.findings /\ executed = a.executed
  /\ cursor = Len(a.log) + 1 /\ Alike(setup, world, a.world)

(* The options and scenarios whose replay can be relied on. *)
Reliable ==
  /\ ~ HasBlocks
  /\ setup.det \/ Ops \cap {"sleep", "advance"} = {}
  /\ ~ (DeliverMayDraw /\ "rand" \in Ops)
  /\ ~ setup.until

StepsTyped ==
  \A i \in DOMAIN Program :
    /\ Program[i].op \in {"sleep", "advance"} => Program[i].ms \in Nat
    /\ Program[i].op = "freeze" => Program[i].at \in Nat \cup {None}
    /\ Program[i].op \in {"eventually", "never"} => Program[i].poll \in Nat

(* Nothing is drawn for a message unless a step may ask for it. *)
Fine(w) ==
  /\ DOMAIN w = Fields /\ w.clock \in Nat
  /\ ~ DeliverMayDraw => w.rate = 0 /\ w.reorder = FALSE

RecordInv ==
  mode = "record" =>
    /\ cursor = None /\ Fine(world)
    /\ findings \cap Unlogged = {} =>
         \E h, n : History(setup, h, n, log) /\ h[n] = Moment

ReplayInv ==
  mode = "replay" /\ recorded.findings \cap Unlogged = {} =>
    \E h, n : /\ History(setup, h, n, recorded.trace)
              /\ h[n].phase = "over" /\ h[n].status = recorded.status
              /\ h[n].findings = recorded.findings /\ Alike(setup, h[n].world, recorded.world)
              /\ \E k \in 0..n : LooksLike(h[k])

RepeatInv == StepsTyped /\ (Reliable => RecordInv /\ ReplayInv)

-----------------------------------------------------------------------------
LEMMA AlikeFacts ==
  ASSUME NEW p, NEW w, NEW v, Alike(p, w, v)
  PROVE  /\ Alike(p, Drawn(w), Drawn(v))
         /\ "rand" \notin OpsIn(p) => Alike(p, Drawn(w), v)
         /\ \A key, x : Alike(p, Put(w, key, x), Put(v, key, x))
         /\ \A ms : Alike(p, Advanced(w, ms), Advanced(v, ms))
         /\ \A i : Alike(p, UsedOnce(w, i), v)
         /\ \A key : Lookup(w, key) = Lookup(v, key)
         /\ Deliverable(w) = Deliverable(v)
         /\ \A i : Alike(p, [w EXCEPT !.queue = Without(@, i)], [v EXCEPT !.queue = Without(@, i)])
         /\ \A m, b : Alike(p, Given(w, m, b), Given(v, m, b))
<1>1. Alike(p, Drawn(w), Drawn(v)) /\ ("rand" \notin OpsIn(p) => Alike(p, Drawn(w), v))
  BY DEF Alike, Fields, Drawn
<1>2. ASSUME NEW key, NEW x
      PROVE  Alike(p, Put(w, key, x), Put(v, key, x))
  BY DEF Alike, Fields, Put
<1>3. ASSUME NEW ms
      PROVE  Alike(p, Advanced(w, ms), Advanced(v, ms))
  BY DEF Alike, Fields, Advanced
<1>4. ASSUME NEW i
      PROVE  Alike(p, UsedOnce(w, i), v)
  BY DEF Alike, Fields, UsedOnce
<1>5. Deliverable(w) = Deliverable(v) /\ \A key : Lookup(w, key) = Lookup(v, key)
  BY DEF Alike, Deliverable, Lookup
<1>6. ASSUME NEW i
      PROVE  Alike(p, [w EXCEPT !.queue = Without(@, i)], [v EXCEPT !.queue = Without(@, i)])
  BY DEF Alike, Fields
<1>7. ASSUME NEW m, NEW b
      PROVE  Alike(p, Given(w, m, b), Given(v, m, b))
  <2>1. CASE b
    BY <2>1 DEF Given
  <2>2. CASE ~ b
    BY <2>2 DEF Given, Alike, Fields
  <2>3. QED BY <2>1, <2>2
<1>8. QED BY <1>1, <1>2, <1>3, <1>4, <1>5, <1>6, <1>7

LEMMA AlikeTransitive ==
  ASSUME NEW p, NEW w, NEW v, NEW u, Alike(p, w, v), Alike(p, v, u)
  PROVE  Alike(p, w, u) /\ Alike(p, v, w)
BY DEF Alike

LEMMA FineFacts ==
  ASSUME NEW w, Fine(w)
  PROVE  /\ Fine(Drawn(w)) /\ Alike(setup, w, w)
         /\ \A key, x : Fine(Put(w, key, x))
         /\ \A ms \in Nat : Fine(Advanced(w, ms))
         /\ \A i : Fine(UsedOnce(w, i))
<1>1. Fine(Drawn(w)) /\ Alike(setup, w, w)
  BY DEF Alike, Fine, Fields, Drawn
<1>2. ASSUME NEW key, NEW x
      PROVE  Fine(Put(w, key, x))
  BY DEF Fine, Fields, Put
<1>3. ASSUME NEW ms \in Nat
      PROVE  Fine(Advanced(w, ms))
  BY DEF Fine, Fields, Advanced
<1>4. ASSUME NEW i
      PROVE  Fine(UsedOnce(w, i))
  BY DEF Fine, Fields, UsedOnce
<1>5. QED BY <1>1, <1>2, <1>3, <1>4

(* A step logs at most two decisions. *)
Short(ds) == ds = <<>> \/ (\E d : ds = <<d>>) \/ (\E d, e : ds = <<d, e>>)

LEMMA DoesShort ==
  ASSUME NEW p, NEW a, NEW v, NEW ds, NEW err, Does(p, a, v, ds, err)
  PROVE  Short(ds) /\ a.phase \in {"step", "polling"}
BY DEF Does, DoesBasic, DoesProc, DoesNet, DoesPoll, Short

LEMMA BeginsAppend ==
  ASSUME NEW k, NEW l, Begins(k, l), NEW d
  PROVE  Begins(k, Append(l, d))
<1>1. Len(k) \in Nat /\ Len(l) \in Nat /\ IsSeq(l) /\ IsSeq(k)
  BY IsSeqFacts DEF Begins
<1>2. /\ IsSeq(Append(l, d)) /\ Len(Append(l, d)) = Len(l) + 1
      /\ \A i \in 1..Len(l) : Append(l, d)[i] = l[i]
  BY <1>1, AppendFacts, ZenonT(60)
<1> DEFINE m == Append(l, d)
<1> HIDE DEF m
<1>3. IsSeq(m) /\ Len(m) = Len(l) + 1 /\ \A i \in 1..Len(l) : m[i] = l[i]
  BY <1>2 DEF m
<1>4. Begins(k, m)
  BY <1>1, <1>3 DEF Begins
<1>5. QED BY <1>4 DEF m

LEMMA BeginsFacts ==
  ASSUME NEW l, IsSeq(l), NEW ds, Short(ds)
  PROVE  /\ Begins(l, l)
         /\ \A k : Begins(k, l) => Begins(k, l \o ds)
<1>1. Len(l) \in Nat /\ DOMAIN l = 1..Len(l)
  BY IsSeqFacts
<1>2. Begins(l, l)
  BY <1>1 DEF Begins
<1>3. ASSUME NEW k, Begins(k, l)
      PROVE  Begins(k, l \o ds)
  <2>1. CASE ds = <<>>
    BY <1>3, <2>1, ConcatEmptySeq DEF IsSeq
  <2>2. ASSUME NEW d, ds = <<d>>
        PROVE  Begins(k, l \o ds)
    <3>1. l \o ds = Append(l, d)
      BY <2>2, AppendFacts
    <3>2. QED BY <1>3, <3>1, BeginsAppend
  <2>3. ASSUME NEW d, NEW e, ds = <<d, e>>
        PROVE  Begins(k, l \o ds)
    <3>1. l \o ds = Append(Append(l, d), e)
      BY <2>3, AppendTwo
    <3>2. Begins(k, Append(l, d))
      BY <1>3, BeginsAppend
    <3>3. QED BY <3>1, <3>2, BeginsAppend
  <2>4. QED BY <2>1, <2>2, <2>3 DEF Short
<1>4. QED BY <1>2, <1>3

-----------------------------------------------------------------------------
(* The recording. *)
Recording ==
  /\ mode = "record" /\ Reliable /\ Typed /\ StepsTyped /\ nest = None /\ cursor = None
  /\ Fine(world) /\ IsSeq(log)

LEMMA StepInHand ==
  ASSUME Typed, nest = None, phase \in {"step", "polling"}
  PROVE  CurrentStep = setup.program[pc] /\ pc \in DOMAIN Program
         /\ CurrentStep.op \in Ops /\ Ops = OpsIn(setup)
<1>1. pc \in DOMAIN Program
  BY DEF Typed
<1>2. CurrentStep = setup.program[pc]
  BY DEF CurrentStep, InBlock, Program
<1>3. QED BY <1>1, <1>2 DEF Ops, OpsIn, Program

RecordsStep ==
  \E w, ds, err : /\ Settle(w, ds, None, err) /\ Fine(w)
                  /\ \/ err \in Unlogged
                     \/ \E v : Does(setup, Moment, v, ds, err) /\ Alike(setup, w, v)

Recorded ==
  /\ cursor' = None /\ Fine(world)'
  /\ findings' \cap Unlogged = {} => Did(setup, Moment, Moment')

LEMMA FineKept ==
  ASSUME UNCHANGED setup, NEW w, Fine(w), world' = w
  PROVE  Fine(world)'
<1>1. DeliverMayDraw' <=> DeliverMayDraw
  BY DEF DeliverMayDraw, Ops, Program
<1>2. QED BY <1>1 DEF Fine

LEMMA RecordSettles ==
  ASSUME Recording, phase \in {"step", "polling"}, RecordsStep
  PROVE  Recorded
<1>1. PICK w, ds, err : /\ Settle(w, ds, None, err) /\ Fine(w)
                        /\ \/ err \in Unlogged
                           \/ \E v : Does(setup, Moment, v, ds, err) /\ Alike(setup, w, v)
  BY DEF RecordsStep
<1>2. /\ world' = w /\ cursor' = None /\ log' = log \o ds /\ UNCHANGED setup
      /\ IF err = None THEN StepDone(w) ELSE StepFailed(w, err)
  BY <1>1 DEF Recording, Settle, InBlock, StepDone, StepFailed
<1>3. Fine(world)'
  BY <1>1, <1>2, FineKept
<1>4. ASSUME findings' \cap Unlogged = {}
      PROVE  Did(setup, Moment, Moment')
  <2>1. err \notin Unlogged
    BY <1>2, <1>4, NoneAssumption DEF StepFailed, End
  <2>2. PICK v : Does(setup, Moment, v, ds, err) /\ Alike(setup, w, v)
    BY <1>1, <2>1
  <2>3. CASE err = None
    <3>1. PICK out : IF out THEN End("timeout", {"scenario_timeout"}) /\ UNCHANGED pc
                     ELSE /\ pc' = pc + 1 /\ phase' = "head" /\ nest' = None /\ deadline' = None
                          /\ UNCHANGED <<status, findings>>
      BY <1>2, <2>3 DEF StepDone
    <3>2. ~ out
      BY <1>4, <3>1 DEF End, Unlogged
    <3>3. executed' = IF IsDeclaration(setup.program[pc]) THEN executed ELSE executed + 1
      BY <1>2, <2>3 DEF StepDone, Program
    <3>4. Settles(setup, Moment, Moment', v, ds, err)
      BY <1>2, <2>2, <2>3, <3>1, <3>2, <3>3 DEF Settles, Moment
    <3>5. QED BY <2>2, <3>4 DEF Did
  <2>4. CASE err # None
    <3>1. Settles(setup, Moment, Moment', v, ds, err)
      BY <1>2, <2>2, <2>4 DEF Settles, Moment, StepFailed, End
    <3>2. QED BY <2>2, <3>1 DEF Did
  <2>5. QED BY <2>3, <2>4
<1>5. QED BY <1>2, <1>3, <1>4 DEF Recorded

LEMMA RecordsCompared ==
  ASSUME cursor = None, NEW w0, NEW w, NEW d, Compared(w0, w, d)
  PROVE  Settle(w, <<d>>, None, None)
BY DEF Compared, Past

LEMMA RecordBasic ==
  ASSUME Recording, BasicStep
  PROVE  RecordsStep
<1>1. phase = "step" /\ mode = "record" /\ cursor = None /\ Fine(world)
  BY DEF BasicStep, RandU64, Sleep, Advance, Freeze, Unfreeze, SetKv, GetKvAssert, Fail,
         Doing, Recording
<1> DEFINE s == setup.program[pc]
<1>2. CurrentStep = s /\ pc \in DOMAIN Program /\ s.op \in Ops
  BY <1>1, StepInHand DEF Recording
<1>3. StepsTyped /\ Program[pc] = s
  BY DEF Recording, Program
<1>4. s.op \in {"sleep", "advance"} => setup.det
  BY <1>2 DEF Recording, Reliable
<1> HIDE DEF s
<1>5. ASSUME NEW w, NEW ds, NEW err, Settle(w, ds, None, err), Fine(w),
             DoesBasic(setup, Moment, w, ds, err)
      PROVE  RecordsStep
  <2>1. Does(setup, Moment, w, ds, err)
    BY <1>1, <1>5 DEF Does, Moment
  <2>2. Alike(setup, w, w)
    BY <1>5, FineFacts
  <2>3. QED BY <1>5, <2>1, <2>2 DEF RecordsStep
<1>6. Moment.pc = pc /\ Moment.world = world
  BY DEF Moment
<1>7. CASE RandU64
  <2> DEFINE x == setup.stream[(world.rng % Len(setup.stream)) + 1]
             w == Put(Drawn(world), s.key, x)
             d == [kind |-> "rand", value |-> x]
  <2>1. s.op = "rand" /\ Compared(Drawn(world), w, d)
    BY <1>2, <1>7 DEF RandU64, Doing, Draw
  <2>2. Fine(w)
    BY <1>1, FineFacts
  <2>3. DoesBasic(setup, Moment, w, <<d>>, None)
    BY <1>6, <2>1 DEF DoesBasic, s
  <2>4. Settle(w, <<d>>, None, None)
    BY <1>1, <2>1, RecordsCompared
  <2> HIDE DEF w, d
  <2>5. QED BY <1>5, <2>2, <2>3, <2>4
<1>8. CASE Sleep \/ Advance
  <2> DEFINE w == Advanced(world, s.ms)
             d == [kind |-> s.op, ms |-> s.ms]
  <2>1. s.op \in {"sleep", "advance"}
    BY <1>2, <1>8 DEF Sleep, Advance, Doing
  <2>2. Det
    BY <1>4, <2>1 DEF Det
  <2>3. Compared(w, w, d)
    BY <1>2, <1>8, <2>2 DEF Sleep, Advance, Doing
  <2>4. Fine(w)
    BY <1>1, <1>2, <1>3, <2>1, FineFacts DEF StepsTyped
  <2>5. DoesBasic(setup, Moment, w, <<d>>, None)
    BY <1>6, <2>1 DEF DoesBasic, s
  <2>6. Settle(w, <<d>>, None, None)
    BY <1>1, <2>3, RecordsCompared
  <2> HIDE DEF w, d
  <2>7. QED BY <1>5, <2>4, <2>5, <2>6
<1>9. CASE Freeze
  <2> DEFINE w == [world EXCEPT !.frozen = TRUE, !.clock = IF s.at = None THEN @ ELSE s.at]
  <2>1. s.op = "freeze" /\ Settle(w, <<>>, None, None)
    BY <1>1, <1>2, <1>9 DEF Freeze, Doing, Succeed
  <2>2. s.at \in Nat \cup {None}
    BY <1>2, <1>3, <2>1 DEF StepsTyped
  <2>3. Fine(w)
    BY <1>1, <2>2 DEF Fine, Fields
  <2>4. DoesBasic(setup, Moment, w, <<>>, None)
    BY <1>6, <2>1 DEF DoesBasic, s
  <2> HIDE DEF w
  <2>5. QED BY <1>5, <2>1, <2>3, <2>4
<1>10. CASE Unfreeze
  <2> DEFINE w == [world EXCEPT !.frozen = FALSE]
  <2>1. s.op = "unfreeze" /\ Settle(w, <<>>, None, None)
    BY <1>1, <1>2, <1>10 DEF Unfreeze, Doing, Succeed
  <2>2. Fine(w)
    BY <1>1 DEF Fine, Fields
  <2>3. DoesBasic(setup, Moment, w, <<>>, None)
    BY <1>6, <2>1 DEF DoesBasic, s
  <2> HIDE DEF w
  <2>4. QED BY <1>5, <2>1, <2>2, <2>3
<1>11. CASE SetKv
  <2> DEFINE w == Put(world, s.key, s.value)
  <2>1. s.op = "set" /\ Settle(w, <<>>, None, None)
    BY <1>1, <1>2, <1>11 DEF SetKv, Doing, Succeed
  <2>2. Fine(w)
    BY <1>1, FineFacts
  <2>3. DoesBasic(setup, Moment, w, <<>>, None)
    BY <1>6, <2>1 DEF DoesBasic, s
  <2> HIDE DEF w
  <2>4. QED BY <1>5, <2>1, <2>2, <2>3
<1>12. CASE GetKvAssert
  <2> DEFINE ok == s.is_null = (Lookup(world, s.key) = None)
                   /\ s.equals \in {None, Lookup(world, s.key)}
  <2>1. s.op = "get" /\ Settle(world, <<>>, None, IF ok THEN None ELSE "get_kv_assert")
    BY <1>1, <1>2, <1>12 DEF GetKvAssert, Doing, Succeed, Refuse
  <2>2. DoesBasic(setup, Moment, world, <<>>, IF ok THEN None ELSE "get_kv_assert")
    BY <1>6, <2>1 DEF DoesBasic, s
  <2> HIDE DEF ok
  <2>3. QED BY <1>1, <1>5, <2>1, <2>2
<1>13. CASE Fail
  <2>1. s.op = "fail" /\ Settle(world, <<>>, None, "fail")
    BY <1>1, <1>2, <1>13 DEF Fail, Doing, Refuse
  <2>2. DoesBasic(setup, Moment, world, <<>>, "fail")
    BY <1>6, <2>1 DEF DoesBasic, s
  <2>3. QED BY <1>1, <1>5, <2>1, <2>2
<1>14. QED BY <1>7, <1>8, <1>9, <1>10, <1>11, <1>12, <1>13 DEF BasicStep

LEMMA RecordProc ==
  ASSUME Recording, ProcStep
  PROVE  RecordsStep
<1>1. phase = "step" /\ mode = "record" /\ cursor = None /\ Fine(world)
  BY DEF ProcStep, ProcWhen, SpawnReplayed, SpawnScripted, SpawnHost, SpawnLive, Doing, Recording
<1> DEFINE s == setup.program[pc]
<1>2. CurrentStep = s
  BY <1>1, StepInHand DEF Recording
<1> HIDE DEF s
<1>3. ASSUME NEW w, NEW v, NEW ds, NEW err, Settle(w, ds, None, err), Fine(w),
             DoesProc(setup, Moment, v, ds, err), Alike(setup, w, v)
      PROVE  RecordsStep
  <2>1. Does(setup, Moment, v, ds, err)
    BY <1>1, <1>3 DEF Does, Moment
  <2>2. QED BY <1>3, <2>1 DEF RecordsStep
<1>4. Moment.pc = pc /\ Moment.world = world
  BY DEF Moment
<1>5. ASSUME NEW err \in Unlogged, NEW w, Fine(w), Settle(w, <<>>, None, err)
      PROVE  RecordsStep
  BY <1>5 DEF RecordsStep
<1>6. ASSUME NEW w, NEW ms, NEW exit, Fine(w), Alike(setup, w, Advanced(world, ms)),
             s.op = "spawn", CheckExit(w, <<SpawnDecision(exit, ms)>>, None, exit)
      PROVE  RecordsStep
  <2> DEFINE v  == Advanced(world, ms)
             ds == <<[kind |-> "spawn", cmd |-> s.cmd, exit |-> exit, ms |-> ms]>>
             bad == s.expect \notin {None, exit}
             saved(u) == IF s.save = None THEN u ELSE Put(u, s.save, exit)
  <2>1. CheckExit(w, ds, None, exit)
    BY <1>2, <1>6 DEF SpawnDecision
  <2>2. CASE bad
    <3>1. Settle(w, ds, None, "proc_exit")
      BY <1>2, <2>1, <2>2 DEF CheckExit
    <3>2. DoesProc(setup, Moment, v, ds, "proc_exit")
      BY <1>4, <1>6, <2>2 DEF DoesProc, s
    <3> HIDE DEF v, ds
    <3>3. QED BY <1>3, <1>6, <3>1, <3>2 DEF v
  <2>3. CASE ~ bad
    <3>1. Settle(saved(w), ds, None, None)
      BY <1>2, <2>1, <2>3 DEF CheckExit
    <3>2. DoesProc(setup, Moment, saved(v), ds, None)
      BY <1>4, <1>6, <2>3 DEF DoesProc, s
    <3>3. Fine(saved(w)) /\ Alike(setup, saved(w), saved(v))
      BY <1>6, FineFacts, AlikeFacts
    <3> HIDE DEF v, ds, saved
    <3>4. QED BY <1>3, <3>1, <3>2, <3>3
  <2>4. QED BY <2>2, <2>3
<1>7. CASE ProcWhen
  <2>1. PICK rules : s.op = "when" /\ Settle([world EXCEPT !.rules = rules], <<>>, None, None)
    BY <1>1, <1>2, <1>7 DEF ProcWhen, Doing, Succeed
  <2> DEFINE w == [world EXCEPT !.rules = rules]
  <2>2. Fine(w) /\ Alike(setup, w, world)
    BY <1>1 DEF Fine, Alike, Fields
  <2>3. DoesProc(setup, Moment, world, <<>>, None)
    BY <1>4, <2>1 DEF DoesProc, s
  <2> HIDE DEF w
  <2>4. QED BY <1>3, <2>1, <2>2, <2>3 DEF w
<1>8. CASE SpawnReplayed
  BY <1>1, <1>8 DEF SpawnReplayed, NextIs
<1>9. CASE SpawnScripted
  <2> DEFINE match == Matching(world, s.cmd)
             i == Min(match)
  <2>1. s.op = "spawn"
    BY <1>2, <1>9 DEF SpawnScripted, SpawnLive, Doing
  <2>2. CASE match = {}
    <3>1. Settle(world, <<>>, None, "proc_unmatched")
      BY <1>1, <1>2, <1>9, <2>2 DEF SpawnScripted, Refuse
    <3>2. QED BY <1>1, <1>5, <3>1 DEF Unlogged
  <2>3. CASE match # {}
    <3>1. CheckExit(UsedOnce(world, i), <<SpawnDecision(world.rules[i].exit, 0)>>, None,
                    world.rules[i].exit)
      BY <1>1, <1>2, <1>9, <2>3 DEF SpawnScripted
    <3> HIDE DEF i
    <3>2. Fine(UsedOnce(world, i))
      BY <1>1, FineFacts
    <3>3. Alike(setup, UsedOnce(world, i), world)
      BY <1>1, AlikeFacts, FineFacts
    <3>4. Alike(setup, world, Advanced(world, 0))
      <4>1. world.clock + 0 = world.clock
        BY <1>1 DEF Fine
      <4>2. QED BY <1>1, <4>1 DEF Fine, Alike, Advanced, Fields
    <3>5. Alike(setup, UsedOnce(world, i), Advanced(world, 0))
      BY <3>3, <3>4, AlikeTransitive
    <3>6. QED BY <1>6, <2>1, <3>1, <3>2, <3>5
  <2>4. QED BY <2>2, <2>3
<1>10. ASSUME NEW r \in HostResults, SpawnHost(r)
       PROVE  RecordsStep
  <2> DEFINE match == Matching(world, s.cmd)
             i     == Min(match)
             used  == IF match = {} THEN world ELSE UsedOnce(world, i)
  <2>1. s.op = "spawn"
    BY <1>2, <1>10 DEF SpawnHost, SpawnLive, Doing
  <2>2. \/ \E err \in Unlogged : Settle(world, <<>>, None, err)
        \/ r.result # "refused" /\ Settle(Advanced(world, r.ms), <<SpawnTimeoutDecision(r.ms)>>,
                                          None, "proc_timeout")
        \/ Settle(used, <<>>, None, "proc_when_host_exit")
        \/ r.result # "refused" /\ CheckExit(Advanced(used, r.ms),
                                             <<SpawnDecision(r.exit, r.ms)>>, None, r.exit)
    <3>1. "proc_when_host_unmatched" \in Unlogged /\ "proc_spawn_host" \in Unlogged
      BY DEF Unlogged
    <3>2. QED BY <1>1, <1>2, <1>10, <3>1 DEF SpawnHost, Refuse
  <2>3. Fine(used) /\ Alike(setup, used, world)
    BY <1>1, FineFacts, AlikeFacts
  <2> HIDE DEF used
  <2>4. "proc_when_host_exit" \in Unlogged
    BY DEF Unlogged
  <2>5. CASE r.result # "refused" /\ CheckExit(Advanced(used, r.ms),
                                      <<SpawnDecision(r.exit, r.ms)>>, None, r.exit)
    <3>1. Fine(Advanced(used, r.ms)) /\ Alike(setup, Advanced(used, r.ms), Advanced(world, r.ms))
      BY <2>3, <2>5, HostAssumption, FineFacts, AlikeFacts
    <3>2. QED BY <1>6, <2>1, <2>5, <3>1
  <2>6. CASE r.result # "refused" /\ Settle(Advanced(world, r.ms),
                                       <<SpawnTimeoutDecision(r.ms)>>, None, "proc_timeout")
    <3> DEFINE v == Advanced(world, r.ms)
               ds == <<[kind |-> "spawn_timeout", cmd |-> s.cmd, ms |-> r.ms]>>
    <3>1. Settle(v, ds, None, "proc_timeout")
      BY <1>2, <2>6 DEF SpawnTimeoutDecision
    <3>2. Fine(v) /\ Alike(setup, v, v)
      BY <1>1, <2>6, HostAssumption, FineFacts
    <3>3. DoesProc(setup, Moment, v, ds, "proc_timeout")
      BY <1>4, <2>1 DEF DoesProc, s
    <3> HIDE DEF v, ds
    <3>4. QED BY <1>3, <3>1, <3>2, <3>3
  <2>7. QED BY <1>1, <1>5, <2>2, <2>3, <2>4, <2>5, <2>6
<1>11. QED BY <1>7, <1>8, <1>9, <1>10 DEF ProcStep

LEMMA RecordPoll ==
  ASSUME Recording, PollEnds
  PROVE  RecordsStep
<1>1. phase = "polling" /\ cursor = None /\ Fine(world)
  BY DEF PollEnds, Recording
<1> DEFINE s == setup.program[pc]
<1>2. CurrentStep = s
  BY <1>1, StepInHand DEF Recording
<1>3. PICK err : Settle(world, <<>>, None, err) /\
        LET seen   == Lookup(world, s.key) = s.value
            wanted == s.op = "eventually"
        IN  \/ seen /\ IF wanted THEN err = None ELSE err = "assert_never_kv"
            \/ ~ seen /\ world.clock >= deadline
               /\ IF wanted THEN err = "assert_eventually_kv" ELSE err = None
  BY <1>1, <1>2 DEF PollEnds, Succeed, Refuse
<1>4. Does(setup, Moment, world, <<>>, err)
  BY <1>1, <1>3 DEF Does, DoesPoll, Moment
<1>5. QED BY <1>1, <1>3, <1>4, FineFacts DEF RecordsStep

(* The pick and the drop of a message, in the recording: nothing is drawn  *)
(* where the replay would miss the draw.                                   *)
LEMMA RecordDrop ==
  ASSUME Recording, NEW w, Fine(w), Alike(setup, w, world), NEW i \in Deliverable(world),
         DropOrDeliver(w, None, i)
  PROVE  \E u, dropped : LET v == Given([world EXCEPT !.queue = Without(@, i)],
                                        world.queue[i], dropped)
                             ds == <<[kind |-> "deliver", id |-> world.queue[i].id],
                                     DropDecision(world.queue[i].id, dropped)>>
                         IN  Settle(u, ds, None, None) /\ Fine(u) /\ Alike(setup, u, v)
<1> DEFINE m == world.queue[i]
           taken == [w EXCEPT !.queue = Without(@, i)]
           pick == [kind |-> "deliver", id |-> m.id]
<1>1. w.queue[i] = m
  BY DEF Alike
<1>2. PICK after, b :
        /\ after = taken \/ (after = Drawn(taken) /\ w.rate > 0)
        /\ Settle(IF b THEN after ELSE [after EXCEPT !.inbox[m.to] = Append(@, m)],
                  <<pick, DropDecision(m.id, b)>>, None, None)
  <2>1. ~ NextIs(None, "drop")
    BY DEF NextIs
  <2>2. QED BY <1>1, <2>1 DEF DropOrDeliver
<1>3. Settle(Given(after, m, b), <<pick, DropDecision(m.id, b)>>, None, None)
  BY <1>2 DEF Given
<1>4. Fine(taken)
  BY DEF Fine, Fields
<1>5. Alike(setup, taken, [world EXCEPT !.queue = Without(@, i)])
  BY AlikeFacts
<1> HIDE DEF taken, pick
<1>6. Fine(after)
  BY <1>2, <1>4, FineFacts
<1>7. Alike(setup, after, taken)
  <2>1. CASE after = taken
    BY <1>4, <2>1, FineFacts
  <2>2. CASE after = Drawn(taken) /\ w.rate > 0
    <3>1. w.rate # 0
      BY <2>2
    <3>2. DeliverMayDraw
      BY <3>1 DEF Fine
    <3>3. "rand" \notin Ops /\ Ops = OpsIn(setup)
      BY <3>2 DEF Recording, Reliable, Ops, OpsIn, Program
    <3>4. Alike(setup, taken, taken)
      BY <1>4, FineFacts
    <3>5. QED BY <2>2, <3>3, <3>4, AlikeFacts
  <2>3. QED BY <1>2, <2>1, <2>2
<1>8. Fine(Given(after, m, b))
  <2>1. CASE b
    BY <1>6, <2>1 DEF Given
  <2>2. CASE ~ b
    BY <1>6, <2>2 DEF Given, Fine, Fields
  <2>3. QED BY <2>1, <2>2
<1>9. Alike(setup, Given(after, m, b), Given([world EXCEPT !.queue = Without(@, i)], m, b))
  <2>1. Alike(setup, after, [world EXCEPT !.queue = Without(@, i)])
    BY <1>5, <1>7, AlikeTransitive
  <2>2. QED BY <2>1, AlikeFacts
<1>10. QED BY <1>3, <1>8, <1>9 DEF pick

LEMMA RecordNet ==
  ASSUME Recording, setup.stream \in Seq(0..MaxDraw) \ {<<>>}, IsSeq(world.queue),
         world.rng \in Nat, NetStep
  PROVE  RecordsStep
<1>1. phase = "step" /\ mode = "record" /\ cursor = None /\ Fine(world)
  BY DEF NetStep, NetPartition, NetHeal, NetSetDropRate, NetSetReorder, NetSend, NetDeliverOne,
         NetRecvAssert, Doing, Recording
<1> DEFINE s == setup.program[pc]
<1>2. CurrentStep = s /\ pc \in DOMAIN Program /\ s.op \in Ops /\ Ops = OpsIn(setup)
  BY <1>1, StepInHand DEF Recording
<1>3. Program[pc] = s
  BY DEF Program
<1> HIDE DEF s
<1>4. ASSUME NEW w, NEW v, NEW ds, NEW err, Settle(w, ds, None, err), Fine(w),
             DoesNet(setup, Moment, v, ds, err), Alike(setup, w, v)
      PROVE  RecordsStep
  <2>1. Does(setup, Moment, v, ds, err)
    BY <1>1, <1>4 DEF Does, Moment
  <2>2. QED BY <1>4, <2>1 DEF RecordsStep
<1>5. ASSUME NEW w, NEW ds, NEW err, Settle(w, ds, None, err), Fine(w),
             DoesNet(setup, Moment, w, ds, err)
      PROVE  RecordsStep
  <2>1. Alike(setup, w, w)
    BY <1>5, FineFacts
  <2>2. QED BY <1>4, <1>5, <2>1
<1>6. Moment.pc = pc /\ Moment.world = world
  BY DEF Moment
<1>7. CASE NetPartition \/ NetHeal
  <2>1. PICK cut :
          /\ \/ s.op = "partition" /\ cut = world.cut \cup {s.pair}
             \/ s.op = "heal" /\ cut = world.cut \ {s.pair}
          /\ Settle([world EXCEPT !.cut = cut], <<>>, None, None)
    BY <1>1, <1>2, <1>7 DEF NetPartition, NetHeal, Doing, Succeed
  <2> DEFINE w == [world EXCEPT !.cut = cut]
  <2>2. Fine(w)
    BY <1>1 DEF Fine, Fields
  <2>3. DoesNet(setup, Moment, w, <<>>, None)
    BY <1>6, <2>1 DEF DoesNet, s
  <2> HIDE DEF w
  <2>4. QED BY <1>5, <2>1, <2>2, <2>3 DEF w
<1>8. CASE NetSetDropRate
  <2>1. s.op = "rate" /\ DeliverMayDraw
    BY <1>2, <1>8 DEF NetSetDropRate, Doing, DeliverMayDraw
  <2>2. CASE s.rate \in 0..MaxDraw
    <3> DEFINE w == [world EXCEPT !.rate = s.rate]
    <3>1. Settle(w, <<>>, None, None)
      BY <1>1, <1>2, <1>8, <2>2 DEF NetSetDropRate, Succeed
    <3>2. Fine(w)
      BY <1>1, <2>1 DEF Fine, Fields
    <3>3. DoesNet(setup, Moment, w, <<>>, None)
      BY <1>6, <2>1, <2>2 DEF DoesNet, s
    <3> HIDE DEF w
    <3>4. QED BY <1>5, <3>1, <3>2, <3>3
  <2>3. CASE s.rate \notin 0..MaxDraw
    <3>1. Settle(world, <<>>, None, "net_drop_rate")
      BY <1>1, <1>2, <1>8, <2>3 DEF NetSetDropRate, Refuse
    <3>2. DoesNet(setup, Moment, world, <<>>, "net_drop_rate")
      BY <1>6, <2>1, <2>3 DEF DoesNet, s
    <3>3. QED BY <1>1, <1>5, <3>1, <3>2
  <2>4. QED BY <2>2, <2>3
<1>9. CASE NetSetReorder
  <2> DEFINE w == [world EXCEPT !.reorder = s.on]
  <2>1. s.op = "reorder" /\ DeliverMayDraw
    BY <1>2, <1>9 DEF NetSetReorder, Doing, DeliverMayDraw
  <2>2. Settle(w, <<>>, None, None)
    BY <1>1, <1>2, <1>9 DEF NetSetReorder, Succeed
  <2>3. Fine(w)
    BY <1>1, <2>1 DEF Fine, Fields
  <2>4. DoesNet(setup, Moment, w, <<>>, None)
    BY <1>6, <2>1 DEF DoesNet, s
  <2> HIDE DEF w
  <2>5. QED BY <1>5, <2>2, <2>3, <2>4
<1>10. CASE NetSend
  <2> DEFINE m == [id |-> world.next_id, from |-> s.from, to |-> s.to, payload |-> s.payload]
             w == [world EXCEPT !.next_id = @ + 1, !.queue = Append(@, m)]
  <2>1. s.op = "send" /\ Settle(w, <<>>, None, None)
    BY <1>1, <1>2, <1>10 DEF NetSend, Doing, Succeed
  <2>2. Fine(w)
    BY <1>1 DEF Fine, Fields
  <2>3. DoesNet(setup, Moment, w, <<>>, None)
    BY <1>6, <2>1 DEF DoesNet, s
  <2> HIDE DEF w
  <2>4. QED BY <1>5, <2>1, <2>2, <2>3
<1>11. CASE NetRecvAssert
  <2> DEFINE inbox == world.inbox[s.node]
             found == {i \in DOMAIN inbox : /\ s.from \in {None, inbox[i].from}
                                            /\ inbox[i].payload = s.payload}
             w == [world EXCEPT !.inbox[s.node] = RemoveAt(@, Min(found))]
  <2>1. s.op = "recv"
    BY <1>2, <1>11 DEF NetRecvAssert, Doing
  <2>2. CASE found = {}
    <3>1. Settle(world, <<>>, None, "net_recv_assert")
      BY <1>1, <1>2, <1>11, <2>2 DEF NetRecvAssert, Refuse
    <3>2. DoesNet(setup, Moment, world, <<>>, "net_recv_assert")
      BY <1>6, <2>1, <2>2 DEF DoesNet, s
    <3>3. QED BY <1>1, <1>5, <3>1, <3>2
  <2>3. CASE found # {}
    <3>1. Settle(w, <<>>, None, None)
      BY <1>1, <1>2, <1>11, <2>3 DEF NetRecvAssert, Succeed
    <3>2. Fine(w)
      BY <1>1 DEF Fine, Fields
    <3>3. DoesNet(setup, Moment, w, <<>>, None)
      BY <1>6, <2>1, <2>3 DEF DoesNet, s
    <3> HIDE DEF w
    <3>4. QED BY <1>5, <3>1, <3>2, <3>3
  <2>4. QED BY <2>2, <2>3
<1>12. CASE NetDeliverOne
  <2> DEFINE ready == Deliverable(world)
  <2>1. s.op = "deliver"
    BY <1>2, <1>12 DEF NetDeliverOne, Doing
  <2>2. CASE ready = {}
    <3>1. Settle(world, <<>>, None, "net_deliver")
      BY <1>1, <1>2, <1>12, <2>2 DEF NetDeliverOne, Refuse
    <3>2. DoesNet(setup, Moment, world, <<>>, "net_deliver")
      BY <1>6, <2>1, <2>2 DEF DoesNet, s
    <3>3. QED BY <1>1, <1>5, <3>1, <3>2
  <2>3. CASE ready # {}
    <3>1. Draw(world) \in Nat
      BY DrawFacts
    <3>2. /\ Nth(ready, 0) \in ready
          /\ Nth(ready, Draw(world) % Cardinality(ready)) \in ready
      BY <2>3, <3>1, DeliverableFacts
    <3> DEFINE random == IF s.random = None THEN world.reorder ELSE s.random
    <3>3. ~ NextIs(cursor, "deliver")
      BY <1>1 DEF NextIs
    <3>4. IF random
          THEN DropOrDeliver(Drawn(world), None,
                             Nth(ready, Draw(world) % Cardinality(ready)))
          ELSE DropOrDeliver(world, None, Nth(ready, 0))
      BY <1>1, <1>2, <1>12, <2>3, <3>3 DEF NetDeliverOne
    <3>5. random => DeliverMayDraw
      <4>1. CASE s.random = None
        BY <1>1, <4>1 DEF Fine
      <4>2. CASE s.random # None
        <5>1. random => s.random = TRUE
          BY <4>2
        <5>2. QED BY <1>2, <1>3, <2>1, <5>1 DEF DeliverMayDraw
      <4>3. QED BY <4>1, <4>2
    <3>6. PICK w, i : /\ i \in ready /\ DropOrDeliver(w, None, i)
                      /\ w = world \/ (w = Drawn(world) /\ DeliverMayDraw)
      <4>1. CASE random
        BY <3>2, <3>4, <3>5, <4>1
      <4>2. CASE ~ random
        BY <3>2, <3>4, <4>2
      <4>3. QED BY <4>1, <4>2
    <3>7. Fine(w) /\ Alike(setup, w, world)
      <4>1. Alike(setup, world, world)
        BY <1>1, FineFacts
      <4>2. DeliverMayDraw => "rand" \notin OpsIn(setup)
        BY <1>2 DEF Recording, Reliable
      <4>3. CASE w = world
        BY <1>1, <4>1, <4>3
      <4>4. CASE w = Drawn(world) /\ DeliverMayDraw
        <5>1. Fine(Drawn(world))
          BY <1>1, FineFacts
        <5>2. Alike(setup, Drawn(world), world)
          BY <4>1, <4>2, <4>4, AlikeFacts
        <5>3. QED BY <4>4, <5>1, <5>2
      <4>5. QED BY <3>6, <4>3, <4>4
    <3>8. PICK u, dropped :
            LET v == Given([world EXCEPT !.queue = Without(@, i)], world.queue[i], dropped)
                ds == <<[kind |-> "deliver", id |-> world.queue[i].id],
                        DropDecision(world.queue[i].id, dropped)>>
            IN  Settle(u, ds, None, None) /\ Fine(u) /\ Alike(setup, u, v)
      BY <3>6, <3>7, RecordDrop
    <3> DEFINE v == Given([world EXCEPT !.queue = Without(@, i)], world.queue[i], dropped)
               ds == <<[kind |-> "deliver", id |-> world.queue[i].id],
                       DropDecision(world.queue[i].id, dropped)>>
    <3>9. DoesNet(setup, Moment, v, ds, None)
      BY <1>6, <2>1, <3>6 DEF DoesNet, s
    <3>10. Settle(u, ds, None, None) /\ Fine(u) /\ Alike(setup, u, v)
      BY <3>8
    <3> HIDE DEF v, ds
    <3>11. QED BY <1>4, <3>9, <3>10
  <2>4. QED BY <2>2, <2>3
<1>13. QED BY <1>7, <1>8, <1>9, <1>10, <1>11, <1>12 DEF NetStep

LEMMA DidBegins ==
  ASSUME NEW p, NEW a, NEW b, Did(p, a, b), IsSeq(a.log)
  PROVE  /\ Begins(b.log, b.log) /\ \A k : Begins(k, a.log) => Begins(k, b.log)
         /\ a.phase # "over"
<1>1. Begins(a.log, a.log)
  <2>1. Short(<<>>)
    BY DEF Short
  <2>2. QED BY <2>1, BeginsFacts
<1>2. CASE DidEnd(p, a, b) \/ DidPoll(p, a, b)
  BY <1>1, <1>2 DEF DidEnd, DidPoll
<1>3. CASE DidPick(p, a, b)
  <2>1. b.log = Append(a.log, [kind |-> "pick", id |-> a.pc]) /\ a.phase # "over"
    BY <1>3 DEF DidPick
  <2>2. \A k : Begins(k, a.log) => Begins(k, b.log)
    BY <2>1, BeginsAppend
  <2>3. IsSeq(b.log)
    BY <1>1, <2>2 DEF Begins
  <2>4. QED BY <2>1, <2>2, <2>3, BeginsFacts DEF Short
<1>4. ASSUME NEW v, NEW ds, NEW err, Does(p, a, v, ds, err), Settles(p, a, b, v, ds, err)
      PROVE  /\ Begins(b.log, b.log) /\ \A k : Begins(k, a.log) => Begins(k, b.log)
             /\ a.phase # "over"
  <2>1. b.log = a.log \o ds /\ Short(ds) /\ a.phase # "over"
    BY <1>4, DoesShort DEF Settles
  <2>2. \A k : Begins(k, a.log) => Begins(k, b.log)
    BY <2>1, BeginsFacts
  <2>3. IsSeq(b.log)
    BY <1>1, <2>2 DEF Begins
  <2>4. QED BY <2>1, <2>2, <2>3, BeginsFacts DEF Short
<1>5. QED BY <1>2, <1>3, <1>4 DEF Did

LEMMA HistoryGrows ==
  ASSUME NEW p, NEW h, NEW n, NEW l, History(p, h, n, l), NEW b, Did(p, h[n], b)
  PROVE  \E g : History(p, g, n + 1, b.log) /\ g[n + 1] = b
<1> DEFINE g == [k \in 0..(n + 1) |-> IF k <= n THEN h[k] ELSE b]
<1>1. n \in Nat /\ l = h[n].log /\ IsSeq(l)
  BY DEF History, Begins
<1>2. Begins(b.log, b.log) /\ \A k : Begins(k, l) => Begins(k, b.log)
  BY <1>1, DidBegins
<1>3. g[n + 1] = b /\ \A k \in 0..n : g[k] = h[k]
  BY <1>1
<1> HIDE DEF g
<1>4. ASSUME NEW k \in 1..(n + 1)
      PROVE  Did(p, g[k - 1], g[k])
  <2>1. CASE k <= n
    <3>1. k \in 1..n /\ k \in 0..n /\ k - 1 \in 0..n
      BY <1>1, <2>1
    <3>2. QED BY <1>3, <3>1 DEF History
  <2>2. CASE k = n + 1
    <3>1. k - 1 = n /\ n \in 0..n
      BY <1>1, <2>2
    <3>2. QED BY <1>3, <2>2, <3>1
  <2>3. QED BY <1>1, <2>1, <2>2
<1>5. ASSUME NEW k \in 0..(n + 1)
      PROVE  Begins(g[k].log, b.log)
  <2>1. CASE k <= n
    <3>1. k \in 0..n
      BY <1>1, <2>1
    <3>2. QED BY <1>2, <1>3, <3>1 DEF History
  <2>2. CASE k = n + 1
    BY <1>2, <1>3, <2>2
  <2>3. QED BY <1>1, <2>1, <2>2
<1>6. g[0] = Start
  BY <1>1, <1>3 DEF History
<1>7. n + 1 \in Nat
  BY <1>1
<1>8. QED BY <1>3, <1>4, <1>5, <1>6, <1>7 DEF History

(* Every step of a recording is one of its history, unless it ends the run *)
(* in a way the log does not tell.                                         *)
LEMMA RecordedNext ==
  ASSUME Recording, NetInv, Next, mode' = "record"
  PROVE  /\ cursor' = None /\ Fine(world)'
         /\ findings' \cap Unlogged = {} => Did(setup, Moment, Moment') \/ Moment' = Moment
<1>1. /\ setup.stream \in Seq(0..MaxDraw) \ {<<>>}
      /\ IsSeq(world.queue) /\ world.rng \in Nat
  BY DEF NetInv, Recording, Reliable, Leaves, Told
<1>2. mode = "record" /\ cursor = None /\ nest = None /\ Fine(world) /\ Typed /\ StepsTyped
      /\ ~ HasBlocks
  BY DEF Recording, Reliable
<1>3. CASE BasicStep \/ ProcStep \/ NetStep \/ PollEnds
  <2>1. phase \in {"step", "polling"}
    BY <1>3, StepsSettle
  <2>2. RecordsStep
    BY <1>1, <1>3, RecordBasic, RecordProc, RecordNet, RecordPoll
  <2>3. QED BY <2>1, <2>2, RecordSettles DEF Recorded
<1>4. CASE PickStep
  <2>1. cursor' = cursor /\ world' = world /\ UNCHANGED setup
    BY <1>2, <1>4 DEF PickStep
  <2>2. ASSUME findings' \cap Unlogged = {}
        PROVE  Did(setup, Moment, Moment')
    <3>1. PICK out : IF out THEN End("timeout", {"scenario_timeout"}) /\ UNCHANGED log
                     ELSE /\ log' = Append(log, [kind |-> "pick", id |-> pc])
                          /\ phase' = "step"
                          /\ UNCHANGED <<status, findings, nest, deadline>>
      BY <1>2, <1>4 DEF PickStep
    <3>2. ~ out
      BY <2>2, <3>1 DEF End, Unlogged
    <3>3. DidPick(setup, Moment, Moment')
      BY <1>4, <2>1, <3>1, <3>2 DEF PickStep, DidPick, Moment, Stays, Program
    <3>4. QED BY <3>3 DEF Did
  <2>3. QED BY <1>2, <2>1, <2>2, FineKept
<1>5. CASE EndOfSteps
  <2>1. cursor' = cursor /\ world' = world /\ UNCHANGED setup
    BY <1>5 DEF EndOfSteps
  <2>2. DidEnd(setup, Moment, Moment')
    BY <1>2, <1>5 DEF EndOfSteps, End, DidEnd, Moment, Program
  <2>3. QED BY <1>2, <2>1, <2>2, FineKept DEF Did
<1>6. CASE AssertThrows
  <2>1. phase = "step" /\ CurrentStep.op = "throws"
    BY <1>6 DEF AssertThrows, Doing
  <2>2. pc \in DOMAIN Program /\ CurrentStep = Program[pc]
    BY <1>2, <2>1, StepInHand DEF Program
  <2>3. QED BY <1>2, <2>1, <2>2 DEF HasBlocks
<1> DEFINE s == setup.program[pc]
<1>7. CASE StartPolling
  <2>1. CurrentStep = s
    BY <1>2, <1>7, StepInHand DEF StartPolling
  <2>2. cursor' = cursor /\ world' = world /\ UNCHANGED setup
    BY <1>7 DEF StartPolling
  <2>3. DidPoll(setup, Moment, Moment')
    BY <1>7, <2>1 DEF StartPolling, DidPoll, Moment, Stays
  <2>4. QED BY <1>2, <2>2, <2>3, FineKept DEF Did
<1>8. CASE PollSleeps
  <2>1. CurrentStep = s /\ pc \in DOMAIN Program /\ phase = "polling"
    BY <1>2, <1>8, StepInHand DEF PollSleeps
  <2>2. cursor' = cursor /\ UNCHANGED setup
    BY <1>8 DEF PollSleeps
  <2>3. CASE Det
    <3>1. world' = Advanced(world, s.poll)
      BY <1>8, <2>1, <2>3 DEF PollSleeps
    <3>2. DidPoll(setup, Moment, Moment')
      BY <1>8, <2>1, <3>1 DEF PollSleeps, DidPoll, Moment, Stays
    <3>3. s.poll \in Nat
      BY <1>2, <2>1 DEF StepsTyped, Typed, Program
    <3>4. Fine(Advanced(world, s.poll))
      BY <1>2, <3>3, FineFacts
    <3>5. QED BY <1>2, <2>2, <3>1, <3>2, <3>4, FineKept DEF Did
  <2>4. CASE ~ Det
    <3>1. Moment' = Moment
      BY <1>8, <2>4 DEF PollSleeps, Moment
    <3>2. QED BY <1>2, <1>8, <2>2, <2>4, <3>1, FineKept DEF PollSleeps
  <2>5. QED BY <2>3, <2>4
<1>9. CASE StartReplay
  BY <1>9 DEF StartReplay
<1>10. QED BY <1>3, <1>4, <1>5, <1>6, <1>7, <1>8, <1>9 DEF Next, BlockStep

LEMMA RecordInvNext ==
  ASSUME EarnedInv, NetInv, StepsTyped, Reliable, RecordInv, [Next]_vars, mode' = "record",
         mode = "record"
  PROVE  RecordInv'
<1>1. Recording
  BY DEF EarnedInv, NetInv, Recording, Reliable, RecordInv, Leaves, Told
<1>2. UNCHANGED setup
  BY SetupKept
<1>3. CASE UNCHANGED vars
  <2>1. UNCHANGED <<mode, cursor, world, findings, log>> /\ Moment' = Moment
    BY <1>3 DEF vars, run, Moment
  <2>2. Fine(world)'
    BY <1>1, <1>2, <2>1, FineKept DEF Recording
  <2>3. QED BY <1>2, <2>1, <2>2 DEF RecordInv
<1>4. CASE Next
  <2>1. /\ cursor' = None /\ Fine(world)'
        /\ findings' \cap Unlogged = {} => Did(setup, Moment, Moment') \/ Moment' = Moment
    BY <1>1, <1>4, RecordedNext
  <2>2. ASSUME findings' \cap Unlogged = {}
        PROVE  \E h, n : History(setup, h, n, log') /\ h[n] = Moment'
    <3>1. phase # "over"
      <4>1. SUFFICES ASSUME phase = "over" PROVE FALSE
        OBVIOUS
      <4>2. ~ (BasicStep \/ ProcStep \/ NetStep \/ PollEnds)
        BY <4>1, StepsSettle
      <4>3. QED BY <1>4, <4>1, <4>2 DEF Next, BlockStep, PickStep, EndOfSteps, AssertThrows,
                   StartPolling, PollSleeps, StartReplay, Doing
    <3>2. findings \cap Unlogged = {}
      BY <3>1 DEF EarnedInv, OnTheWay
    <3>3. PICK h, n : History(setup, h, n, log) /\ h[n] = Moment
      BY <3>2 DEF RecordInv
    <3>4. CASE Moment' = Moment
      <4>1. log' = log
        BY <3>4 DEF Moment
      <4>2. QED BY <3>3, <3>4, <4>1
    <3>5. CASE Did(setup, Moment, Moment')
      <4>1. PICK b : b = Moment'
        OBVIOUS
      <4>2. Did(setup, h[n], b) /\ b.log = log'
        BY <3>3, <3>5, <4>1 DEF Moment
      <4>3. PICK g : History(setup, g, n + 1, b.log) /\ g[n + 1] = b
        BY <3>3, <4>2, HistoryGrows
      <4>4. QED BY <4>1, <4>2, <4>3
    <3>6. QED BY <2>1, <2>2, <3>4, <3>5
  <2>3. QED BY <1>2, <2>1, <2>2 DEF RecordInv
<1>5. QED BY <1>3, <1>4

-----------------------------------------------------------------------------
(* The replay, at the moment a of the recording, with b the next one. *)
Replaying(a, b) ==
  /\ mode = "replay" /\ Reliable /\ Typed /\ nest = None
  /\ LooksLike(a) /\ IsSeq(a.log) /\ Begins(b.log, recorded.trace)

(* A step ends as b does. *)
Follows(b, v, err) ==
  \E w, ds : Settle(w, ds, Len(b.log) + 1, err) /\ Alike(setup, w, v)

LEMMA RepeatSettles ==
  ASSUME NEW a, NEW b, Replaying(a, b), phase \in {"step", "polling"},
         NEW v, NEW ds, NEW err, Settles(setup, a, b, v, ds, err), Follows(b, v, err)
  PROVE  LooksLike(b)'
<1>1. PICK w, es : Settle(w, es, Len(b.log) + 1, err) /\ Alike(setup, w, v)
  BY DEF Follows
<1>2. /\ world' = w /\ cursor' = Len(b.log) + 1 /\ UNCHANGED setup
      /\ IF err = None THEN StepDone(w) ELSE StepFailed(w, err)
  BY <1>1 DEF Replaying, Settle, InBlock, StepDone, StepFailed
<1>3. Alike(setup, w, b.world)
  <2>1. Alike(setup, b.world, v)
    BY DEF Settles
  <2>2. QED BY <1>1, <2>1 DEF Alike
<1>4. Alike(setup, world, b.world)'
  BY <1>2, <1>3
<1>5. /\ phase = a.phase /\ pc = a.pc /\ deadline = a.deadline /\ status = a.status
      /\ findings = a.findings /\ executed = a.executed /\ mode = "replay"
  BY DEF Replaying, LooksLike
<1>6. CASE err = None
  <2>1. /\ pc' = pc + 1 /\ phase' = "head" /\ deadline' = None
        /\ UNCHANGED <<status, findings>>
        /\ executed' = IF IsDeclaration(setup.program[pc]) THEN executed ELSE executed + 1
    BY <1>2, <1>5, <1>6 DEF StepDone, TimeoutReached, Program
  <2>2. QED BY <1>2, <1>4, <1>5, <1>6, <2>1 DEF LooksLike, Settles
<1>7. CASE err # None
  BY <1>2, <1>4, <1>5, <1>7 DEF StepFailed, End, LooksLike, Settles
<1>8. QED BY <1>6, <1>7

(* Where the cursor stands, and what it sees. *)
LEMMA CursorFacts ==
  ASSUME NEW a, NEW b, Replaying(a, b)
  PROVE  /\ cursor \in Nat /\ cursor # None
         /\ b.log = a.log \o <<>> => cursor = Len(b.log) + 1
         /\ \A d : b.log = Append(a.log, d) =>
              /\ Past(cursor) = Len(b.log) + 1 /\ Peek(cursor) = d
              /\ \A kind : NextIs(cursor, kind) <=> d.kind = kind
         /\ \A d, e : b.log = a.log \o <<d, e>> =>
              /\ Past(Past(cursor)) = Len(b.log) + 1
              /\ Peek(cursor) = d /\ \A kind : NextIs(cursor, kind) <=> d.kind = kind
              /\ Peek(Past(cursor)) = e
              /\ \A kind : NextIs(Past(cursor), kind) <=> e.kind = kind
<1> DEFINE n == Len(a.log)
           t == recorded.trace
<1>1. n \in Nat /\ cursor = n + 1 /\ IsSeq(a.log)
  BY IsSeqFacts DEF Replaying, LooksLike
<1> HIDE DEF n
<1>2. cursor \in Nat /\ cursor # None
  BY <1>1, NoneAssumption
<1>3. /\ IsSeq(b.log) /\ IsSeq(t) /\ Len(b.log) <= Len(t)
      /\ \A i \in 1..Len(b.log) : t[i] = b.log[i]
      /\ Len(b.log) \in Nat /\ Len(t) \in Nat /\ DOMAIN t = 1..Len(t)
  BY IsSeqFacts DEF Replaying, Begins
<1>4. ASSUME NEW i \in 1..Len(b.log)
      PROVE  /\ Peek(i) = b.log[i] /\ i # None
             /\ \A kind : NextIs(i, kind) <=> b.log[i].kind = kind
  <2>1. i \in DOMAIN t /\ i # None /\ t[i] = b.log[i]
    BY <1>3, NoneAssumption
  <2>2. QED BY <2>1 DEF Peek, NextIs
<1>5. b.log = a.log \o <<>> => cursor = Len(b.log) + 1
  BY <1>1, ConcatEmptySeq DEF IsSeq, n
<1>6. ASSUME NEW d, b.log = Append(a.log, d)
      PROVE  /\ Past(cursor) = Len(b.log) + 1 /\ Peek(cursor) = d
             /\ \A kind : NextIs(cursor, kind) <=> d.kind = kind
  <2>1. Len(b.log) = n + 1 /\ b.log[n + 1] = d
    BY <1>1, <1>6, AppendFacts DEF n
  <2>2. cursor \in 1..Len(b.log) /\ b.log[cursor] = d
    BY <1>1, <2>1
  <2>3. QED BY <1>1, <1>2, <1>4, <2>1, <2>2 DEF Past
<1>7. ASSUME NEW d, NEW e, b.log = a.log \o <<d, e>>
      PROVE  /\ Past(Past(cursor)) = Len(b.log) + 1
             /\ Peek(cursor) = d /\ \A kind : NextIs(cursor, kind) <=> d.kind = kind
             /\ Peek(Past(cursor)) = e
             /\ \A kind : NextIs(Past(cursor), kind) <=> e.kind = kind
  <2> DEFINE m == Append(a.log, d)
  <2>1. b.log = Append(m, e)
    BY <1>1, <1>7, AppendTwo
  <2>2. IsSeq(m) /\ Len(m) = n + 1 /\ m[n + 1] = d
    BY <1>1, AppendFacts DEF n
  <2> HIDE DEF m
  <2>3. /\ Len(b.log) = Len(m) + 1 /\ \A i \in 1..Len(m) : b.log[i] = m[i]
        /\ b.log[Len(m) + 1] = e
    BY <2>1, <2>2, AppendFacts
  <2>4. /\ Len(b.log) = n + 2 /\ b.log[n + 1] = d /\ b.log[n + 2] = e
    BY <1>1, <2>2, <2>3
  <2>5. Past(cursor) = n + 2
    BY <1>1, <1>2 DEF Past
  <2>6. n + 2 # None
    BY <1>1, NoneAssumption
  <2>7. Past(Past(cursor)) = n + 3
    BY <1>1, <2>5, <2>6 DEF Past
  <2>8. n + 1 \in 1..Len(b.log) /\ n + 2 \in 1..Len(b.log)
    BY <1>1, <2>4
  <2>9. Past(Past(cursor)) = Len(b.log) + 1
    BY <1>1, <2>4, <2>7
  <2>10. QED BY <1>1, <1>4, <2>4, <2>5, <2>8, <2>9
<1>8. QED BY <1>2, <1>5, <1>6, <1>7

(* The step in hand, and a state to start it from like the recording's. *)
LEMMA RepeatFacts ==
  ASSUME NEW a, NEW b, Replaying(a, b), phase \in {"step", "polling"}
  PROVE  /\ CurrentStep = setup.program[a.pc] /\ a.phase = phase
         /\ CurrentStep.op \in OpsIn(setup)
         /\ Alike(setup, world, a.world) /\ IsSeq(a.log) /\ a.deadline = deadline
<1>1. a.pc = pc /\ a.phase = phase /\ a.deadline = deadline
      /\ Alike(setup, world, a.world) /\ IsSeq(a.log)
  BY DEF Replaying, LooksLike
<1>2. CurrentStep = setup.program[pc] /\ CurrentStep.op \in OpsIn(setup)
  BY StepInHand DEF Replaying
<1>3. QED BY <1>1, <1>2

LEMMA RepeatBasic ==
  ASSUME NEW a, NEW b, Replaying(a, b), BasicStep,
         NEW v, NEW ds, NEW err, Does(setup, a, v, ds, err), b.log = a.log \o ds
  PROVE  Follows(b, v, err)
<1>1. phase = "step" /\ mode = "replay" /\ Det
  BY DEF BasicStep, RandU64, Sleep, Advance, Freeze, Unfreeze, SetKv, GetKvAssert, Fail,
         Doing, Replaying, Det
<1> DEFINE s == setup.program[a.pc]
<1>2. /\ CurrentStep = s /\ s.op \in OpsIn(setup) /\ a.phase = "step"
      /\ Alike(setup, world, a.world) /\ IsSeq(a.log)
  BY <1>1, RepeatFacts
<1>3. s.op \in {"rand", "sleep", "advance", "freeze", "unfreeze", "set", "get", "fail"}
  BY <1>2 DEF BasicStep, RandU64, Sleep, Advance, Freeze, Unfreeze, SetKv, GetKvAssert, Fail,
              Doing
<1>4. DoesBasic(setup, a, v, ds, err)
  BY <1>2, <1>3 DEF Does, DoesProc, DoesNet, DoesPoll
<1> HIDE DEF s
<1>5. ASSUME NEW d, NEW w, NEW w0, ds = <<d>>, Compared(w0, w, d), Alike(setup, w, v), err = None
      PROVE  Follows(b, v, err)
  <2>1. b.log = Append(a.log, d)
    BY <1>2, <1>5, AppendFacts
  <2>2. Settle(w, <<d>>, Past(cursor), None) /\ Past(cursor) = Len(b.log) + 1
    BY <1>5, <2>1, CursorFacts DEF Compared
  <2>3. QED BY <1>5, <2>2 DEF Follows
<1>6. ASSUME NEW w, ds = <<>>, Settle(w, <<>>, cursor, err), Alike(setup, w, v)
      PROVE  Follows(b, v, err)
  <2>1. cursor = Len(b.log) + 1
    BY <1>6, CursorFacts
  <2>2. QED BY <1>6, <2>1 DEF Follows
<1>7. CASE s.op = "rand"
  <2> DEFINE x(w) == setup.stream[(w.rng % Len(setup.stream)) + 1]
             d(w) == [kind |-> "rand", value |-> x(w)]
  <2>1. v = Put(Drawn(a.world), s.key, x(a.world)) /\ ds = <<d(a.world)>> /\ err = None
    BY <1>4, <1>7 DEF DoesBasic, s
  <2>2. x(world) = x(a.world)
    BY <1>2, <1>7 DEF Alike
  <2>3. Compared(Drawn(world), Put(Drawn(world), s.key, x(world)), d(world))
    BY <1>2, <1>7 DEF BasicStep, RandU64, Sleep, Advance, Freeze, Unfreeze, SetKv,
       GetKvAssert, Fail, Doing, Draw
  <2>4. Alike(setup, Put(Drawn(world), s.key, x(a.world)), v)
    BY <1>2, <2>1, AlikeFacts
  <2> HIDE DEF x
  <2>5. QED BY <1>5, <2>1, <2>2, <2>3, <2>4
<1>8. CASE s.op \in {"sleep", "advance"}
  <2> DEFINE d == [kind |-> s.op, ms |-> s.ms]
  <2>1. v = Advanced(a.world, s.ms) /\ ds = <<d>> /\ err = None
    BY <1>4, <1>8 DEF DoesBasic, s
  <2>2. Compared(Advanced(world, s.ms), Advanced(world, s.ms), d)
    BY <1>1, <1>2, <1>8 DEF BasicStep, RandU64, Sleep, Advance, Freeze, Unfreeze, SetKv,
       GetKvAssert, Fail, Doing
  <2>3. Alike(setup, Advanced(world, s.ms), v)
    BY <1>2, <2>1, AlikeFacts
  <2>4. QED BY <1>5, <2>1, <2>2, <2>3
<1>9. CASE s.op = "freeze"
  <2> DEFINE w(u) == [u EXCEPT !.frozen = TRUE, !.clock = IF s.at = None THEN @ ELSE s.at]
  <2>1. v = w(a.world) /\ ds = <<>> /\ err = None
    BY <1>4, <1>9 DEF DoesBasic, s
  <2>2. Settle(w(world), <<>>, cursor, None)
    BY <1>2, <1>9 DEF BasicStep, RandU64, Sleep, Advance, Freeze, Unfreeze, SetKv,
       GetKvAssert, Fail, Doing, Succeed
  <2>3. Alike(setup, w(world), v)
    BY <1>2, <2>1 DEF Alike, Fields
  <2> HIDE DEF w
  <2>4. QED BY <1>6, <2>1, <2>2, <2>3
<1>10. CASE s.op = "unfreeze"
  <2> DEFINE w(u) == [u EXCEPT !.frozen = FALSE]
  <2>1. v = w(a.world) /\ ds = <<>> /\ err = None
    BY <1>4, <1>10 DEF DoesBasic, s
  <2>2. Settle(w(world), <<>>, cursor, None)
    BY <1>2, <1>10 DEF BasicStep, RandU64, Sleep, Advance, Freeze, Unfreeze, SetKv,
       GetKvAssert, Fail, Doing, Succeed
  <2>3. Alike(setup, w(world), v)
    BY <1>2, <2>1 DEF Alike, Fields
  <2> HIDE DEF w
  <2>4. QED BY <1>6, <2>1, <2>2, <2>3
<1>11. CASE s.op = "set"
  <2>1. v = Put(a.world, s.key, s.value) /\ ds = <<>> /\ err = None
    BY <1>4, <1>11 DEF DoesBasic, s
  <2>2. Settle(Put(world, s.key, s.value), <<>>, cursor, None)
    BY <1>2, <1>11 DEF BasicStep, RandU64, Sleep, Advance, Freeze, Unfreeze, SetKv,
       GetKvAssert, Fail, Doing, Succeed
  <2>3. Alike(setup, Put(world, s.key, s.value), v)
    BY <1>2, <2>1, AlikeFacts
  <2>4. QED BY <1>6, <2>1, <2>2, <2>3
<1>12. CASE s.op = "get"
  <2> DEFINE ok(u) == s.is_null = (Lookup(u, s.key) = None)
                      /\ s.equals \in {None, Lookup(u, s.key)}
  <2>1. v = a.world /\ ds = <<>> /\ IF ok(a.world) THEN err = None ELSE err = "get_kv_assert"
    BY <1>4, <1>12 DEF DoesBasic, s
  <2>2. IF ok(world) THEN Settle(world, <<>>, cursor, None)
        ELSE Settle(world, <<>>, cursor, "get_kv_assert")
    BY <1>2, <1>12 DEF BasicStep, RandU64, Sleep, Advance, Freeze, Unfreeze, SetKv,
       GetKvAssert, Fail, Doing, Succeed, Refuse
  <2>3. Lookup(world, s.key) = Lookup(a.world, s.key)
    BY <1>2 DEF Alike, Lookup
  <2>4. ok(world) <=> ok(a.world)
    BY <2>3
  <2> HIDE DEF ok
  <2>5. Settle(world, <<>>, cursor, err)
    BY <2>1, <2>2, <2>4
  <2>6. QED BY <1>2, <1>6, <2>1, <2>5
<1>13. CASE s.op = "fail"
  <2>1. v = a.world /\ ds = <<>> /\ err = "fail"
    BY <1>4, <1>13 DEF DoesBasic, s
  <2>2. Settle(world, <<>>, cursor, "fail")
    BY <1>2, <1>13 DEF BasicStep, RandU64, Sleep, Advance, Freeze, Unfreeze, SetKv,
       GetKvAssert, Fail, Doing, Refuse
  <2>3. QED BY <1>2, <1>6, <2>1, <2>2
<1>14. QED BY <1>3, <1>7, <1>8, <1>9, <1>10, <1>11, <1>12, <1>13

LEMMA RepeatProc ==
  ASSUME NEW a, NEW b, Replaying(a, b), ProcStep,
         NEW v, NEW ds, NEW err, Does(setup, a, v, ds, err), b.log = a.log \o ds
  PROVE  Follows(b, v, err)
<1>1. phase = "step"
  BY DEF ProcStep, ProcWhen, SpawnReplayed, SpawnScripted, SpawnHost, SpawnLive, Doing
<1> DEFINE s == setup.program[a.pc]
<1>2. /\ CurrentStep = s /\ a.phase = "step"
      /\ Alike(setup, world, a.world) /\ IsSeq(a.log)
  BY <1>1, RepeatFacts
<1>3. s.op \in {"when", "spawn"}
  BY <1>2 DEF ProcStep, ProcWhen, SpawnReplayed, SpawnScripted, SpawnHost, SpawnLive, Doing
<1>4. DoesProc(setup, a, v, ds, err)
  BY <1>2, <1>3 DEF Does, DoesBasic, DoesNet, DoesPoll
<1> HIDE DEF s
<1>5. CASE s.op = "when"
  <2>1. v = a.world /\ ds = <<>> /\ err = None
    BY <1>4, <1>5 DEF DoesProc, s
  <2>2. PICK rules : Succeed([world EXCEPT !.rules = rules])
    BY <1>2, <1>5 DEF ProcStep, ProcWhen, SpawnReplayed, SpawnScripted, SpawnHost, SpawnLive, Doing
  <2>3. Alike(setup, [world EXCEPT !.rules = rules], v)
    BY <1>2, <2>1 DEF Alike, Fields
  <2>4. cursor = Len(b.log) + 1
    BY <2>1, CursorFacts
  <2>5. QED BY <2>1, <2>2, <2>3, <2>4 DEF Follows, Succeed
<1>6. CASE s.op = "spawn"
  <2>1. PICK d : ds = <<d>> /\ d.kind \in {"spawn", "spawn_timeout"}
    BY <1>4, <1>6 DEF DoesProc, s
  <2>2. b.log = Append(a.log, d)
    BY <1>2, <2>1, AppendFacts
  <2>3. /\ Past(cursor) = Len(b.log) + 1 /\ Peek(cursor) = d
        /\ NextIs(cursor, "spawn") \/ NextIs(cursor, "spawn_timeout")
    BY <2>1, <2>2, CursorFacts
  <2>4. SpawnReplayed
    BY <1>2, <1>6, <2>3 DEF ProcStep, ProcWhen, SpawnScripted, SpawnHost, SpawnLive, Doing
  <2>5. d.cmd = s.cmd
    <3>1. ds[1] = d /\ ds[1].cmd = s.cmd
      BY <1>4, <1>6, <2>1 DEF DoesProc, s
    <3>2. QED BY <3>1
  <2>6. IF d.kind = "spawn"
        THEN CheckExit(Advanced(world, d.ms), <<>>, Past(cursor), d.exit)
        ELSE Settle(Advanced(world, d.ms), <<>>, Past(cursor), "proc_timeout")
    BY <1>2, <2>3, <2>4, <2>5 DEF SpawnReplayed
  <2>7. Alike(setup, Advanced(world, d.ms), Advanced(a.world, d.ms))
    BY <1>2, AlikeFacts
  <2>8. CASE d.kind = "spawn_timeout"
    <3>1. ds[1] = d /\ v = Advanced(a.world, ds[1].ms) /\ err = "proc_timeout"
      BY <1>4, <1>6, <2>1, <2>8 DEF DoesProc, s
    <3>2. QED BY <2>3, <2>6, <2>7, <2>8, <3>1 DEF Follows
  <2>9. CASE d.kind = "spawn"
    <3> DEFINE saved(u) == IF s.save = None THEN u ELSE Put(u, s.save, d.exit)
    <3>1. /\ ds[1] = d
          /\ IF s.expect \notin {None, ds[1].exit}
             THEN v = Advanced(a.world, ds[1].ms) /\ err = "proc_exit"
             ELSE /\ err = None
                  /\ v = IF s.save = None THEN Advanced(a.world, ds[1].ms)
                         ELSE Put(Advanced(a.world, ds[1].ms), s.save, ds[1].exit)
      BY <1>4, <1>6, <2>1, <2>9 DEF DoesProc, s
    <3>2. IF s.expect \notin {None, d.exit}
          THEN v = Advanced(a.world, d.ms) /\ err = "proc_exit"
          ELSE err = None /\ v = saved(Advanced(a.world, d.ms))
      BY <3>1
    <3>3. IF s.expect \notin {None, d.exit}
          THEN Settle(Advanced(world, d.ms), <<>>, Past(cursor), "proc_exit")
          ELSE Settle(saved(Advanced(world, d.ms)), <<>>, Past(cursor), None)
      BY <1>2, <2>6, <2>9 DEF CheckExit
    <3>4. Alike(setup, saved(Advanced(world, d.ms)), saved(Advanced(a.world, d.ms)))
      BY <2>7, AlikeFacts
    <3> HIDE DEF saved
    <3>5. QED BY <2>3, <2>7, <3>2, <3>3, <3>4 DEF Follows
  <2>10. QED BY <2>1, <2>8, <2>9
<1>7. QED BY <1>3, <1>5, <1>6

LEMMA RepeatPoll ==
  ASSUME NEW a, NEW b, Replaying(a, b), PollEnds,
         NEW v, NEW ds, NEW err, Does(setup, a, v, ds, err), b.log = a.log \o ds
  PROVE  Follows(b, v, err)
<1>1. phase = "polling"
  BY DEF PollEnds
<1> DEFINE s == setup.program[a.pc]
           seen(w) == Lookup(w, s.key) = s.value
           wanted == s.op = "eventually"
<1>2. /\ CurrentStep = s /\ a.phase = "polling" /\ a.deadline = deadline
      /\ Alike(setup, world, a.world)
  BY <1>1, RepeatFacts
<1>3. /\ v = a.world /\ ds = <<>>
      /\ \/ seen(a.world) /\ IF wanted THEN err = None ELSE err = "assert_never_kv"
         \/ ~ seen(a.world) /\ IF wanted THEN err = "assert_eventually_kv" ELSE err = None
  BY <1>2 DEF Does, DoesPoll
<1>4. \/ /\ seen(world)
         /\ IF wanted THEN Settle(world, <<>>, cursor, None)
            ELSE Settle(world, <<>>, cursor, "assert_never_kv")
      \/ /\ ~ seen(world)
         /\ IF wanted THEN Settle(world, <<>>, cursor, "assert_eventually_kv")
            ELSE Settle(world, <<>>, cursor, None)
  BY <1>2 DEF PollEnds, Succeed, Refuse
<1>5. seen(world) <=> seen(a.world)
  BY <1>2 DEF Alike, Lookup
<1>6. cursor = Len(b.log) + 1
  BY <1>3, CursorFacts
<1> HIDE DEF seen, wanted
<1>7. Settle(world, <<>>, cursor, err)
  BY <1>3, <1>4, <1>5
<1>8. QED BY <1>2, <1>3, <1>6, <1>7 DEF Follows

LEMMA RepeatNet ==
  ASSUME NEW a, NEW b, Replaying(a, b), NetStep, IsSeq(world.queue), NoIdTwice(world.queue),
         NEW v, NEW ds, NEW err, Does(setup, a, v, ds, err), b.log = a.log \o ds
  PROVE  Follows(b, v, err)
<1>1. phase = "step"
  BY DEF NetStep, NetPartition, NetHeal, NetSetDropRate, NetSetReorder, NetSend, NetDeliverOne,
         NetRecvAssert, Doing
<1> DEFINE s == setup.program[a.pc]
<1>2. /\ CurrentStep = s /\ a.phase = "step"
      /\ Alike(setup, world, a.world) /\ IsSeq(a.log)
  BY <1>1, RepeatFacts
<1>3. s.op \in {"partition", "heal", "rate", "reorder", "send", "deliver", "recv"}
  BY <1>2 DEF NetStep, NetPartition, NetHeal, NetSetDropRate, NetSetReorder, NetSend,
              NetDeliverOne, NetRecvAssert, Doing
<1>4. DoesNet(setup, a, v, ds, err)
  BY <1>2, <1>3 DEF Does, DoesBasic, DoesProc, DoesPoll
<1> HIDE DEF s
<1>5. ASSUME NEW w, ds = <<>>, Settle(w, <<>>, cursor, err), Alike(setup, w, v)
      PROVE  Follows(b, v, err)
  <2>1. cursor = Len(b.log) + 1
    BY <1>5, CursorFacts
  <2>2. QED BY <1>5, <2>1 DEF Follows
<1>6. /\ s.op = "partition" => NetPartition
      /\ s.op = "heal" => NetHeal
      /\ s.op = "rate" => NetSetDropRate
      /\ s.op = "reorder" => NetSetReorder
      /\ s.op = "send" => NetSend
      /\ s.op = "deliver" => NetDeliverOne
      /\ s.op = "recv" => NetRecvAssert
  BY <1>2 DEF NetStep, NetPartition, NetHeal, NetSetDropRate, NetSetReorder, NetSend,
              NetDeliverOne, NetRecvAssert, Doing
<1>7. CASE s.op \in {"partition", "heal"}
  <2> DEFINE cut(u) == IF s.op = "partition" THEN u.cut \cup {s.pair} ELSE u.cut \ {s.pair}
             w(u) == [u EXCEPT !.cut = cut(u)]
  <2>1. v = w(a.world) /\ ds = <<>> /\ err = None
    BY <1>4, <1>7 DEF DoesNet, s
  <2>2. Settle(w(world), <<>>, cursor, None)
    BY <1>2, <1>6, <1>7 DEF NetPartition, NetHeal, Succeed
  <2>3. cut(world) = cut(a.world)
    BY <1>2 DEF Alike
  <2> HIDE DEF cut
  <2>4. Alike(setup, w(world), v)
    BY <1>2, <2>1, <2>3 DEF Alike, Fields
  <2> HIDE DEF w
  <2>5. QED BY <1>5, <2>1, <2>2, <2>4
<1>8. CASE s.op = "rate"
  <2> DEFINE w(u) == [u EXCEPT !.rate = s.rate]
  <2>1. CASE s.rate \in 0..MaxDraw
    <3>1. v = w(a.world) /\ ds = <<>> /\ err = None
      BY <1>4, <1>8, <2>1 DEF DoesNet, s
    <3>2. Settle(w(world), <<>>, cursor, None)
      BY <1>2, <1>6, <1>8, <2>1 DEF NetSetDropRate, Succeed
    <3>3. Alike(setup, w(world), v)
      BY <1>2, <3>1 DEF Alike, Fields
    <3> HIDE DEF w
    <3>4. QED BY <1>5, <3>1, <3>2, <3>3
  <2>2. CASE s.rate \notin 0..MaxDraw
    <3>1. v = a.world /\ ds = <<>> /\ err = "net_drop_rate"
      BY <1>4, <1>8, <2>2 DEF DoesNet, s
    <3>2. Settle(world, <<>>, cursor, "net_drop_rate")
      BY <1>2, <1>6, <1>8, <2>2 DEF NetSetDropRate, Refuse
    <3>3. QED BY <1>2, <1>5, <3>1, <3>2
  <2>3. QED BY <2>1, <2>2
<1>9. CASE s.op = "reorder"
  <2> DEFINE w(u) == [u EXCEPT !.reorder = s.on]
  <2>1. v = w(a.world) /\ ds = <<>> /\ err = None
    BY <1>4, <1>9 DEF DoesNet, s
  <2>2. Settle(w(world), <<>>, cursor, None)
    BY <1>2, <1>6, <1>9 DEF NetSetReorder, Succeed
  <2>3. Alike(setup, w(world), v)
    BY <1>2, <2>1 DEF Alike, Fields
  <2> HIDE DEF w
  <2>4. QED BY <1>5, <2>1, <2>2, <2>3
<1>10. CASE s.op = "send"
  <2> DEFINE m(u) == [id |-> u.next_id, from |-> s.from, to |-> s.to, payload |-> s.payload]
             w(u) == [u EXCEPT !.next_id = @ + 1, !.queue = Append(@, m(u))]
  <2>1. v = w(a.world) /\ ds = <<>> /\ err = None
    BY <1>4, <1>10 DEF DoesNet, s
  <2>2. Settle(w(world), <<>>, cursor, None)
    BY <1>2, <1>6, <1>10 DEF NetSend, Succeed
  <2>3. m(world) = m(a.world)
    BY <1>2 DEF Alike
  <2> HIDE DEF m
  <2>4. Alike(setup, w(world), v)
    BY <1>2, <2>1, <2>3 DEF Alike, Fields
  <2> HIDE DEF w
  <2>5. QED BY <1>5, <2>1, <2>2, <2>4
<1>11. CASE s.op = "recv"
  <2> DEFINE found(u) == {i \in DOMAIN u.inbox[s.node] :
                            /\ s.from \in {None, u.inbox[s.node][i].from}
                            /\ u.inbox[s.node][i].payload = s.payload}
             w(u) == [u EXCEPT !.inbox[s.node] = RemoveAt(@, Min(found(u)))]
  <2>1. found(world) = found(a.world)
    BY <1>2 DEF Alike
  <2>2. CASE found(world) = {}
    <3>1. v = a.world /\ ds = <<>> /\ err = "net_recv_assert"
      BY <1>4, <1>11, <2>1, <2>2 DEF DoesNet, s
    <3>2. Settle(world, <<>>, cursor, "net_recv_assert")
      BY <1>2, <1>6, <1>11, <2>2 DEF NetRecvAssert, Refuse
    <3>3. QED BY <1>2, <1>5, <3>1, <3>2
  <2>3. CASE found(world) # {}
    <3>1. v = w(a.world) /\ ds = <<>> /\ err = None
      BY <1>4, <1>11, <2>1, <2>3 DEF DoesNet, s
    <3>2. Settle(w(world), <<>>, cursor, None)
      BY <1>2, <1>6, <1>11, <2>3 DEF NetRecvAssert, Succeed
    <3> HIDE DEF found
    <3>3. Alike(setup, w(world), v)
      BY <1>2, <2>1, <3>1 DEF Alike, Fields
    <3> HIDE DEF w
    <3>4. QED BY <1>5, <3>1, <3>2, <3>3
  <2>4. QED BY <2>2, <2>3
<1>12. CASE s.op = "deliver"
  <2> DEFINE ready == Deliverable(world)
  <2>1. Deliverable(a.world) = ready /\ a.world.queue = world.queue
    BY <1>2 DEF Alike, Deliverable
  <2>2. CASE ready = {}
    <3>1. v = a.world /\ ds = <<>> /\ err = "net_deliver"
      BY <1>4, <1>12, <2>1, <2>2 DEF DoesNet, s
    <3>2. Settle(world, <<>>, cursor, "net_deliver")
      BY <1>6, <1>12, <2>2 DEF NetDeliverOne, Refuse
    <3>3. QED BY <1>2, <1>5, <3>1, <3>2
  <2>3. CASE ready # {}
    <3>1. PICK i, dropped :
            /\ i \in ready
            /\ v = Given([a.world EXCEPT !.queue = Without(@, i)], world.queue[i], dropped)
            /\ ds = <<[kind |-> "deliver", id |-> world.queue[i].id],
                      DropDecision(world.queue[i].id, dropped)>>
            /\ err = None
      BY <1>4, <1>12, <2>1, <2>3 DEF DoesNet, s
    <3> DEFINE m == world.queue[i]
               d == [kind |-> "deliver", id |-> m.id]
               e == DropDecision(m.id, dropped)
               taken(u) == [u EXCEPT !.queue = Without(@, i)]
    <3>2. d.kind = "deliver" /\ d.id = m.id
      OBVIOUS
    <3>3. e.kind = "drop" /\ e.id = m.id /\ e.dropped = dropped
      BY DEF DropDecision
    <3>4. b.log = a.log \o <<d, e>>
      BY <3>1
    <3> HIDE DEF d, e
    <3>5. /\ Past(Past(cursor)) = Len(b.log) + 1
          /\ Peek(cursor) = d /\ NextIs(cursor, "deliver")
          /\ Peek(Past(cursor)) = e /\ NextIs(Past(cursor), "drop")
      BY <3>2, <3>3, <3>4, CursorFacts
    <3>6. {j \in ready : world.queue[j].id = Peek(cursor).id} = {i}
      <4>1. \A j \in ready : world.queue[j].id = m.id => j = i
        BY <3>1 DEF NoIdTwice, Deliverable
      <4>2. QED BY <3>1, <3>2, <3>5, <4>1
    <3>7. DropOrDeliver(world, Past(cursor), i)
      <4>1. i \in Nat
        <5>1. DOMAIN world.queue = 1..Len(world.queue) /\ Len(world.queue) \in Nat
          BY IsSeqFacts
        <5>2. QED BY <3>1, <5>1 DEF Deliverable
      <4>2. Min({i}) = i
        <5>1. {i} \subseteq Nat /\ {i} # {}
          BY <4>1
        <5>2. Min({i}) \in {i}
          BY <5>1, MinIsOne
        <5>3. QED BY <5>2
      <4>3. QED BY <1>6, <1>12, <2>3, <3>5, <3>6, <4>2 DEF NetDeliverOne
    <3>8. PICK es : Settle(Given(taken(world), m, dropped), es, Past(Past(cursor)), None)
      BY <3>3, <3>5, <3>7 DEF DropOrDeliver, Given
    <3>9. Alike(setup, taken(world), taken(a.world))
      BY <1>2, AlikeFacts
    <3>10. v = Given(taken(a.world), m, dropped)
      BY <3>1
    <3> HIDE DEF taken, m
    <3>11. Alike(setup, Given(taken(world), m, dropped), v)
      BY <3>9, <3>10, AlikeFacts
    <3>12. QED BY <3>1, <3>5, <3>8, <3>11 DEF Follows
  <2>4. QED BY <2>2, <2>3
<1>13. QED BY <1>3, <1>7, <1>8, <1>9, <1>10, <1>11, <1>12

(* The step of the replay that follows the step from a to b of the         *)
(* recording.                                                              *)
LEMMA RepeatedNext ==
  ASSUME NEW a, NEW b, Replaying(a, b), NetInv, Next, Did(setup, a, b),
         b.phase = "over" => b.log = recorded.trace
  PROVE  LooksLike(b)'
<1>1. /\ phase = a.phase /\ pc = a.pc /\ deadline = a.deadline /\ status = a.status
      /\ findings = a.findings /\ executed = a.executed /\ mode = "replay"
      /\ cursor = Len(a.log) + 1 /\ Alike(setup, world, a.world) /\ IsSeq(a.log)
      /\ nest = None /\ Typed /\ ~ HasBlocks /\ ~ setup.until
  BY DEF Replaying, LooksLike, Reliable
<1>2. IsSeq(world.queue) /\ NoIdTwice(world.queue)
  BY <1>1 DEF NetInv, Leaves, Told
<1>3. /\ phase \in {"step", "polling"} => CurrentStep = setup.program[pc]
      /\ phase = "polling" => CurrentStep.op \in {"eventually", "never"}
  BY <1>1, StepInHand DEF Typed
<1>4. CASE BasicStep \/ ProcStep \/ NetStep \/ PollEnds
  <2>1. phase \in {"step", "polling"}
    BY <1>4, StepsSettle
  <2>2. \E v, ds, err : Does(setup, a, v, ds, err) /\ Settles(setup, a, b, v, ds, err)
    <3>1. ~ DidPick(setup, a, b) /\ ~ DidEnd(setup, a, b)
      BY <1>1, <2>1 DEF DidPick, DidEnd
    <3>2. ~ DidPoll(setup, a, b)
      <4>1. CASE BasicStep \/ ProcStep \/ NetStep
        <5>1. phase = "step" /\ CurrentStep.op \notin {"eventually", "never"}
          BY <4>1 DEF BasicStep, RandU64, Sleep, Advance, Freeze, Unfreeze, SetKv, GetKvAssert,
             Fail, ProcStep, ProcWhen, SpawnReplayed, SpawnScripted, SpawnHost, SpawnLive,
             NetStep, NetPartition, NetHeal, NetSetDropRate, NetSetReorder, NetSend,
             NetDeliverOne, NetRecvAssert, Doing
        <5>2. QED BY <1>1, <1>3, <5>1 DEF DidPoll
      <4>2. CASE PollEnds
        <5>1. /\ phase = "polling"
              /\ \/ Lookup(world, CurrentStep.key) = CurrentStep.value
                 \/ world.clock >= deadline
          BY <4>2 DEF PollEnds
        <5>2. Lookup(world, CurrentStep.key) = Lookup(a.world, CurrentStep.key)
              /\ world.clock = a.world.clock
          BY <1>1 DEF Lookup, Alike
        <5>3. QED BY <1>1, <1>3, <5>1, <5>2 DEF DidPoll
      <4>3. QED BY <1>4, <4>1, <4>2
    <3>3. QED BY <3>1, <3>2 DEF Did
  <2>3. PICK v, ds, err : Does(setup, a, v, ds, err) /\ Settles(setup, a, b, v, ds, err)
    BY <2>2
  <2>4. b.log = a.log \o ds
    BY <2>3 DEF Settles
  <2>5. Follows(b, v, err)
    BY <1>2, <1>4, <2>3, <2>4, RepeatBasic, RepeatProc, RepeatNet, RepeatPoll
  <2>6. QED BY <2>1, <2>3, <2>5, RepeatSettles
<1>5. CASE PickStep
  <2>1. DidPick(setup, a, b)
    <3>1. a.phase = "head" /\ ~ (a.pc > Len(setup.program))
      <4>1. Len(setup.program) \in Nat /\ pc \in Nat
        BY <1>1 DEF Program, Typed
      <4>2. phase = "head" /\ pc <= Len(setup.program)
        BY <1>5 DEF PickStep, Program
      <4>3. ~ (pc > Len(setup.program))
        BY <4>1, <4>2
      <4>4. QED BY <1>1, <4>2, <4>3
    <3>2. QED BY <3>1 DEF Did, DidEnd, DidPoll, Does, DoesPoll
  <2> DEFINE d == [kind |-> "pick", id |-> a.pc]
  <2>2. b.log = Append(a.log, d) /\ d.kind = "pick" /\ d.id = a.pc
    BY <2>1 DEF DidPick
  <2> HIDE DEF d
  <2>3. Past(cursor) = Len(b.log) + 1 /\ Peek(cursor) = d /\ NextIs(cursor, "pick")
    BY <2>2, CursorFacts
  <2>4. /\ cursor' = Past(cursor) /\ phase' = "step"
        /\ UNCHANGED <<status, findings, deadline, pc, world, executed, setup>>
    BY <1>1, <1>5, <2>2, <2>3 DEF PickStep
  <2>5. QED BY <1>1, <2>1, <2>3, <2>4 DEF LooksLike, DidPick, Stays
<1>6. CASE EndOfSteps
  <2>1. DidEnd(setup, a, b)
    BY <1>1, <1>6 DEF EndOfSteps, Program, Did, DidPick, DidPoll, Does, DoesPoll, Typed
  <2>2. b.log = a.log /\ b.log = recorded.trace
    BY <2>1 DEF DidEnd
  <2>3. ~ (cursor <= Len(recorded.trace))
    <3>1. Len(a.log) \in Nat
      BY <1>1, IsSeqFacts
    <3>2. QED BY <1>1, <2>2, <3>1
  <2>4. /\ phase' = "over" /\ deadline' = None
        /\ UNCHANGED <<pc, world, executed, cursor, setup>>
        /\ IF a.executed = 0 /\ \E i \in DOMAIN setup.program : IsDeclaration(setup.program[i])
           THEN status' = "fail" /\ findings' = a.findings \cup {"no_steps_executed"}
           ELSE status' = "pass" /\ findings' = a.findings
    BY <1>1, <1>6, <2>3 DEF EndOfSteps, End, Program
  <2>5. QED BY <1>1, <2>1, <2>2, <2>4 DEF LooksLike, DidEnd
<1>7. CASE AssertThrows
  <2>1. phase = "step" /\ CurrentStep.op = "throws"
    BY <1>7 DEF AssertThrows, Doing
  <2>2. pc \in DOMAIN Program /\ CurrentStep = Program[pc]
    BY <1>1, <2>1, StepInHand DEF Program
  <2>3. QED BY <1>1, <2>1, <2>2 DEF HasBlocks
<1>8. CASE StartPolling
  <2>1. phase = "step" /\ setup.program[a.pc].op \in {"eventually", "never"}
    BY <1>1, <1>3, <1>8 DEF StartPolling
  <2>2. DidPoll(setup, a, b)
    <3>1. a.phase = "step"
      BY <1>1, <2>1
    <3>2. ASSUME NEW v, NEW ds, NEW err PROVE ~ Does(setup, a, v, ds, err)
      BY <2>1, <3>1 DEF Does, DoesPoll, DoesBasic, DoesProc, DoesNet
    <3>3. QED BY <3>1, <3>2 DEF Did, DidPick, DidEnd
  <2>3. /\ b.phase = "polling" /\ b.log = a.log /\ Stays(a, b) /\ b.world = a.world
        /\ b.deadline = a.world.clock + setup.program[a.pc].within
    BY <1>1, <2>1, <2>2 DEF DidPoll
  <2>4. /\ phase' = "polling" /\ deadline' = a.world.clock + setup.program[a.pc].within
        /\ UNCHANGED <<pc, world, executed, cursor, setup, findings, status>>
    BY <1>1, <1>3, <1>8, <2>1 DEF StartPolling, Alike
  <2>5. QED BY <1>1, <2>3, <2>4 DEF LooksLike, Stays
<1>9. CASE PollSleeps
  <2> DEFINE s == setup.program[a.pc]
  <2>1. /\ phase = "polling" /\ Lookup(world, s.key) # s.value /\ ~ (world.clock >= deadline)
        /\ world' = Advanced(world, s.poll)
        /\ UNCHANGED <<setup, phase, pc, deadline, findings, executed, cursor, status>>
    BY <1>1, <1>3, <1>9 DEF PollSleeps, Det
  <2>2. Lookup(a.world, s.key) # s.value /\ ~ (a.world.clock >= a.deadline)
    BY <1>1, <2>1 DEF Lookup, Alike
  <2>3. DidPoll(setup, a, b)
    BY <1>1, <2>1, <2>2 DEF Did, DidPick, DidEnd, Does, DoesPoll
  <2>4. /\ b.phase = "polling" /\ b.log = a.log /\ Stays(a, b) /\ b.deadline = a.deadline
        /\ b.world = Advanced(a.world, s.poll)
    BY <1>1, <2>1, <2>3 DEF DidPoll
  <2>5. Alike(setup, Advanced(world, s.poll), b.world)
    <3>1. \A ms : Alike(setup, Advanced(world, ms), Advanced(a.world, ms))
      BY <1>1, AlikeFacts
    <3>2. QED BY <2>4, <3>1
  <2> HIDE DEF s
  <2>6. QED BY <1>1, <2>1, <2>4, <2>5 DEF LooksLike, Stays
<1>10. CASE StartReplay
  BY <1>1, <1>10 DEF StartReplay
<1>11. QED BY <1>4, <1>5, <1>6, <1>7, <1>8, <1>9, <1>10 DEF Next, BlockStep

LEMMA ModeChanges ==
  ASSUME [Next]_vars
  PROVE  UNCHANGED <<mode, recorded>> \/ StartReplay
<1>1. CASE UNCHANGED vars
  BY <1>1 DEF vars
<1>2. CASE BasicStep \/ ProcStep \/ NetStep \/ PollEnds
  <2>1. PICK w, ds, c, err : Settle(w, ds, c, err)
    BY <1>2, StepsSettle
  <2>2. QED BY <2>1 DEF Settle
<1>3. CASE PickStep \/ EndOfSteps \/ AssertThrows \/ StartPolling \/ PollSleeps
  BY <1>3 DEF PickStep, EndOfSteps, AssertThrows, StartPolling, PollSleeps
<1>4. QED BY <1>1, <1>2, <1>3 DEF Next, BlockStep

(* The replay begins where the recording began, and has its history ahead. *)
LEMMA ReplayStarts ==
  ASSUME Reliable, RecordInv, StartReplay
  PROVE  ReplayInv'
<1>1. /\ mode = "record" /\ phase = "over" /\ UNCHANGED setup /\ Fine(world)
      /\ recorded' = [trace |-> log, status |-> status, findings |-> findings, world |-> world]
  BY DEF StartReplay, RecordInv
<1>2. /\ recorded'.trace = log /\ recorded'.status = status /\ recorded'.findings = findings
      /\ recorded'.world = world
  BY <1>1
<1> SUFFICES ASSUME findings \cap Unlogged = {}
             PROVE  ReplayInv'
  BY <1>2 DEF ReplayInv
<1>3. PICK h, n : History(setup, h, n, log) /\ h[n] = Moment
  BY <1>1 DEF RecordInv
<1>4. /\ h[n].phase = "over" /\ h[n].status = status /\ h[n].findings = findings
      /\ h[n].world = world /\ Alike(setup, world, world)
  BY <1>1, <1>3, FineFacts DEF Moment
<1>5. 0 \in 0..n /\ h[0] = Start
  BY <1>3 DEF History
<1>6. PICK a : a = Start
  OBVIOUS
<1>7. /\ a.phase = "head" /\ a.pc = 1 /\ a.deadline = None /\ a.status = None /\ a.findings = {}
      /\ a.executed = 0 /\ a.log = <<>> /\ a.world = EmptyWorld
  BY <1>6 DEF Start
<1>8. Len(a.log) + 1 = 1
  BY <1>7
<1>9. Alike(setup, EmptyWorld, EmptyWorld)
  BY DEF Alike, EmptyWorld, Fields
<1>10. LooksLike(a)'
  BY <1>1, <1>7, <1>8, <1>9 DEF StartReplay, LooksLike
<1>11. LooksLike(h[0])'
  BY <1>5, <1>6, <1>10
<1>12. QED BY <1>1, <1>2, <1>3, <1>4, <1>5, <1>11 DEF ReplayInv

(* A replay that is not over has a next moment of its recording ahead, and *)
(* comes to it.                                                            *)
LEMMA ReplayGoesOn ==
  ASSUME EarnedInv, NetInv, Reliable, ReplayInv, mode = "replay", [Next]_vars
  PROVE  ReplayInv'
<1>1. UNCHANGED <<setup, mode, recorded>>
  BY SetupKept, ModeChanges DEF StartReplay
<1> SUFFICES ASSUME recorded.findings \cap Unlogged = {}
             PROVE  ReplayInv'
  BY <1>1 DEF ReplayInv
<1>2. PICK h, n : /\ History(setup, h, n, recorded.trace)
                  /\ h[n].phase = "over" /\ h[n].status = recorded.status
                  /\ h[n].findings = recorded.findings
                  /\ Alike(setup, h[n].world, recorded.world)
                  /\ \E k \in 0..n : LooksLike(h[k])
  BY DEF ReplayInv
<1>3. PICK k \in 0..n : LooksLike(h[k])
  BY <1>2
<1>4. n \in Nat /\ k \in Nat
  BY <1>2 DEF History
<1>5. SUFFICES \E j \in 0..n : LooksLike(h[j])'
  BY <1>1, <1>2 DEF ReplayInv
<1>6. CASE UNCHANGED vars
  <2>1. LooksLike(h[k])'
    BY <1>3, <1>6 DEF LooksLike, vars, run
  <2>2. QED BY <2>1
<1>7. CASE Next /\ k < n
  <2>1. k + 1 \in 1..n /\ k + 1 \in 0..n /\ (k + 1) - 1 = k
    BY <1>3, <1>4, <1>7
  <2>2. PICK a, b : a = h[k] /\ b = h[k + 1]
    OBVIOUS
  <2>3. /\ Did(setup, a, b) /\ Begins(a.log, recorded.trace) /\ Begins(b.log, recorded.trace)
        /\ LooksLike(a)
    BY <1>2, <1>3, <2>1, <2>2 DEF History
  <2>4. IsSeq(a.log) /\ IsSeq(b.log)
    BY <2>3 DEF Begins
  <2>5. ASSUME b.phase = "over"
        PROVE  b.log = recorded.trace
    <3>1. CASE k + 1 = n
      BY <1>2, <2>2, <3>1 DEF History
    <3>2. CASE k + 1 < n
      <4>1. k + 2 \in 1..n /\ (k + 2) - 1 = k + 1
        BY <1>3, <1>4, <3>2
      <4>2. Did(setup, b, h[k + 2])
        BY <1>2, <2>2, <4>1 DEF History
      <4>3. QED BY <2>4, <2>5, <4>2, DidBegins
    <3>3. QED BY <1>4, <1>7, <3>1, <3>2
  <2>6. nest = None /\ Typed
    BY DEF NetInv, EarnedInv, Reliable
  <2>7. Replaying(a, b)
    BY <2>3, <2>4, <2>6 DEF Replaying
  <2>8. LooksLike(b)'
    BY <1>7, <2>3, <2>5, <2>7, RepeatedNext
  <2>9. QED BY <2>1, <2>2, <2>8
<1>8. CASE Next /\ k = n
  <2>1. phase = "over"
    BY <1>2, <1>3, <1>8 DEF LooksLike
  <2>2. ~ (BasicStep \/ ProcStep \/ NetStep \/ PollEnds)
    BY <2>1, StepsSettle
  <2>3. QED BY <1>8, <2>1, <2>2 DEF Next, BlockStep, PickStep, EndOfSteps, AssertThrows,
               StartPolling, PollSleeps, StartReplay, Doing
<1>9. QED BY <1>3, <1>4, <1>6, <1>7, <1>8

-----------------------------------------------------------------------------
LEMMA InitRepeats == Init => RepeatInv
<1> SUFFICES ASSUME Init PROVE RepeatInv
  OBVIOUS
<1>1. PICK m \in Menus : \E n \in 0..m.max : setup \in
        [program : [1..n -> m.steps], det : m.dets, timeout : m.timeouts,
         backend : m.backends, until : m.untils, stream : m.streams]
  BY DEF Init
<1>2. StepsTyped
  <2>1. \A i \in DOMAIN Program : Program[i] \in m.steps
    BY <1>1 DEF Program
  <2>2. QED BY <2>1, MenuAssumption DEF StepsTyped
<1>3. /\ mode = "record" /\ phase = "head" /\ pc = 1 /\ deadline = None /\ world = EmptyWorld
      /\ log = <<>> /\ findings = {} /\ executed = 0 /\ cursor = None /\ status = None
  BY DEF Init
<1>4. ReplayInv
  BY <1>3 DEF ReplayInv
<1>5. Fine(EmptyWorld)
  BY DEF Fine, EmptyWorld, Fields
<1>6. Moment = Start
  BY <1>3 DEF Moment, Start
<1> DEFINE h == [k \in {0} |-> Start]
<1>7. h[0] = Start /\ Start.log = <<>>
  BY DEF Start
<1>8. Begins(<<>>, <<>>)
  <2>1. IsSeq(<<>>)
    BY EmptySeq DEF IsSeq
  <2>2. QED BY <2>1 DEF Begins
<1>9. History(setup, h, 0, <<>>)
  <2>1. \A k \in 0..0 : k = 0
    OBVIOUS
  <2>2. \A k \in 1..0 : FALSE
    OBVIOUS
  <2> HIDE DEF h
  <2>3. \A k \in 0..0 : Begins(h[k].log, <<>>)
    BY <1>7, <1>8, <2>1
  <2>4. QED BY <1>7, <2>2, <2>3 DEF History
<1>10. RecordInv
  BY <1>3, <1>5, <1>6, <1>7, <1>9 DEF RecordInv
<1>11. QED BY <1>2, <1>4, <1>10 DEF RepeatInv

LEMMA RepeatNext ==
  ASSUME EarnedInv, NetInv, RepeatInv, [Next]_vars
  PROVE  RepeatInv'
<1>1. UNCHANGED setup
  BY SetupKept
<1>2. StepsTyped' /\ (Reliable' <=> Reliable)
  BY <1>1 DEF RepeatInv, StepsTyped, Reliable, HasBlocks, Ops, DeliverMayDraw, Program
<1>3. ASSUME Reliable
      PROVE  RecordInv' /\ ReplayInv'
  <2>1. RecordInv /\ ReplayInv /\ StepsTyped
    BY <1>3 DEF RepeatInv
  <2>2. mode \in {"record", "replay"}
    BY DEF EarnedInv, Typed
  <2>3. CASE StartReplay
    <3>1. mode' = "replay"
      BY <2>3 DEF StartReplay
    <3>2. QED BY <1>3, <2>1, <2>3, <3>1, ReplayStarts DEF RecordInv
  <2>4. CASE UNCHANGED <<mode, recorded>> /\ mode = "record"
    <3>1. RecordInv'
      BY <1>3, <2>1, <2>4, RecordInvNext
    <3>2. QED BY <2>4, <3>1 DEF ReplayInv
  <2>5. CASE UNCHANGED <<mode, recorded>> /\ mode = "replay"
    <3>1. ReplayInv'
      BY <1>3, <2>1, <2>5, ReplayGoesOn
    <3>2. QED BY <2>5, <3>1 DEF RecordInv
  <2>6. QED BY <2>2, <2>3, <2>4, <2>5, ModeChanges
<1>4. QED BY <1>2, <1>3 DEF RepeatInv

LEMMA RepeatsReproduce ==
  ASSUME NetInv, RepeatInv
  PROVE  ReplayableReproduces
<1> SUFFICES ASSUME mode = "replay", Replayable, phase = "over"
             PROVE  Outcome(status, findings, world)
                      = Outcome(recorded.status, recorded.findings, recorded.world)
  BY DEF ReplayableReproduces, ReplayReproduces
<1>1. Reliable /\ recorded.findings \cap Unlogged = {}
  BY DEF Replayable, Reliable
<1>2. PICK h, n : /\ History(setup, h, n, recorded.trace)
                  /\ h[n].phase = "over" /\ h[n].status = recorded.status
                  /\ h[n].findings = recorded.findings
                  /\ Alike(setup, h[n].world, recorded.world)
                  /\ \E k \in 0..n : LooksLike(h[k])
  BY <1>1 DEF RepeatInv, ReplayInv
<1>3. PICK k \in 0..n : LooksLike(h[k])
  BY <1>2
<1>4. k = n
  <2>1. SUFFICES ASSUME k < n PROVE FALSE
    BY <1>2, <1>3 DEF History
  <2>2. n \in Nat /\ k + 1 \in 1..n /\ (k + 1) - 1 = k
    BY <1>2, <1>3, <2>1 DEF History
  <2>3. Did(setup, h[k], h[k + 1]) /\ IsSeq(h[k].log)
    BY <1>2, <1>3, <2>2 DEF History, Begins
  <2>4. h[k].phase # "over"
    BY <2>3, DidBegins
  <2>5. QED BY <1>3, <2>4 DEF LooksLike
<1>5. /\ status = recorded.status /\ findings = recorded.findings
      /\ Alike(setup, world, recorded.world)
  <2>1. LooksLike(h[n])
    BY <1>3, <1>4
  <2>2. QED BY <1>2, <2>1, AlikeTransitive DEF LooksLike
<1> DEFINE bare(w) == [w EXCEPT !.rng = 0, !.rules = <<>>]
<1>6. bare(world) = bare(recorded.world)
  BY <1>5 DEF Alike, Fields
<1> HIDE DEF bare
<1>7. \A s, f, w : Outcome(s, f, w) = [status |-> s, findings |-> f, world |-> bare(w)]
  BY DEF Outcome, bare
<1>8. QED BY <1>5, <1>6, <1>7

(***************************************************************************)
(* A replay ends with the status, the findings, the key-value store, the   *)
(* clock and the network of its recording, host processes included: for    *)
(* any scenario without assert_throws blocks, without sleeps outside det,  *)
(* without random deliveries beside random steps, replayed without --until,*)
(* whose recording did not end in one of the failures of Unlogged          *)
(* (run_embedded_scenario_inner, run_scenario_replay_inner).               *)
(***************************************************************************)
THEOREM ReplaysReproduceRecordings == Spec => []ReplayableReproduces
<1>1. Init => EarnedInv /\ NetInv /\ RepeatInv
  BY InitEarned, InitTells, InitRepeats
<1>2. EarnedInv /\ NetInv /\ RepeatInv /\ [Next]_vars => (EarnedInv /\ NetInv /\ RepeatInv)'
  BY EarnedNext, NextTells, RepeatNext DEF EarnedInv
<1>3. EarnedInv /\ NetInv /\ RepeatInv => ReplayableReproduces
  BY RepeatsReproduce
<1>4. QED BY <1>1, <1>2, <1>3, PTL DEF Spec

=============================================================================
