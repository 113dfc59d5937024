----------------------------- MODULE FuzzProofs -----------------------------
(***************************************************************************)
(* ShrinkIsSound for every list of items, every class of results and every *)
(* order in which the runs reveal them, for `fozzy shrink` and for the     *)
(* minimization inside a session of `fozzy fuzz`; and FuzzKeepsCrashes for *)
(* every corpus, every mix of options and any number of sessions.          *)
(*                                                                         *)
(* Behind the first: in the pass over single items, every item before the  *)
(* index is needed as long as nothing was dropped, because what a sequence *)
(* ran to is never forgotten; dropping one begins another pass.            *)
(*                                                                         *)
(* Behind the second: the place a session is at tells which of its crashes *)
(* still lacks a trace (the last one at most), and a path is free, or is   *)
(* the session's to replace, when a trace is written to it; and a file     *)
(* that lacks its input is one some session was killed in.                 *)
(***************************************************************************)
EXTENDS Fuzz, FiniteSetTheorems, SequenceTheorems, WellFoundedInduction, TLAPS

AnyJob ==
  [kind : {"input", "steps", "schedule", "setup"}, items : Seq(Items), status : Statuses,
   max : Nat, fixed : SUBSET Items, judged : BOOLEAN, timed : BOOLEAN,
   all : BOOLEAN, script : Seq(Items)]

Typed ==
  /\ candidate \in Seq(Items)
  /\ job \in AnyJob
  /\ index \in Nat /\ chunk \in Nat \ {0} /\ improved \in BOOLEAN
  /\ job.kind = "setup" => job.items = job.script

(* The pass over single items so far. *)
NeededSoFar ==
  at = "trial" /\ chunk = 1 /\ ~improved /\ ~slow =>
    \A i \in Nat : i < index /\ i < Len(candidate) => Needed(i)

(* A scenario's best run is that of its candidate. *)
BestIsKept ==
  job.kind = "steps" /\ at \notin {"baseline", "refused"} =>
    /\ candidate \in DOMAIN verdicts
    /\ best = verdicts[candidate]
    /\ Same(best.status)

NotWritten == at # "done" => out = Nothing

IInv ==
  /\ Typed /\ NeededSoFar /\ BestIsKept /\ NotWritten
  /\ ShrunkIsMinimal /\ ShrunkIsKept /\ ShrunkIsWritten

-----------------------------------------------------------------------------
(* A run adds its verdict and changes none. *)
LEMMA RunsRemember ==
  ASSUME NEW s, NEW v, Runs(s, v)
  PROVE  /\ v \in Verdicts
         /\ s \in DOMAIN verdicts' /\ verdicts'[s] = v
         /\ \A t \in DOMAIN verdicts : t \in DOMAIN verdicts' /\ verdicts'[t] = verdicts[t]
BY DEF Runs

(* Dropping a chunk leaves a sequence. *)
LEMMA CutIsSeq ==
  ASSUME NEW s \in Seq(Items), NEW i \in Nat, NEW c \in Nat, i < Len(s)
  PROVE  Cut(s, i, c) \in Seq(Items)
<1>1. SubSeq(s, 1, i) \in Seq(Items)
  <2>1. \A j \in 1..i : s[j] \in Items
    OBVIOUS
  <2>2. QED BY <2>1, SubSeqProperties
<1>2. SubSeq(s, i + c + 1, Len(s)) \in Seq(Items)
  <2>1. \A j \in (i + c + 1)..Len(s) : s[j] \in Items
    OBVIOUS
  <2>2. QED BY <2>1, SubSeqProperties
<1>3. QED BY <1>1, <1>2, ConcatProperties DEF Cut

(* The only item of a sequence is not dropped. *)
LEMMA OnlyItemIsBarred ==
  ASSUME NEW s \in Seq(Items), Len(s) = 1
  PROVE  Barred(s, 0, 1)
<1>1. SubSeq(s, 1, 0) = <<>> /\ SubSeq(s, 2, 1) = <<>>
  BY SubSeqEmpty
<1>2. Cut(s, 0, 1) = <<>> \o <<>>
  BY <1>1 DEF Cut
<1>3. <<>> \o <<>> = <<>>
  <2>1. <<>> \in Seq(Items)
    OBVIOUS
  <2>2. QED BY <2>1, ConcatEmptySeq
<1>4. QED BY <1>2, <1>3 DEF Barred

LEMMA FirstChunkIsPositive ==
  ASSUME NEW s \in Seq(Items)
  PROVE  FirstChunk(s) \in Nat \ {0}
<1>1. s # <<>> => Len(s) \in Nat \ {0}
  OBVIOUS
<1>2. \A n \in Nat \ {0} : Half(n) \in Nat \ {0}
  BY DEF Half
<1>3. QED BY <1>1, <1>2 DEF FirstChunk

(* What is needed stays so when verdicts are only added. *)
LEMMA NeededIsStable ==
  ASSUME NEW i, Needed(i), UNCHANGED <<job, candidate>>,
         \A t \in DOMAIN verdicts : t \in DOMAIN verdicts' /\ verdicts'[t] = verdicts[t]
  PROVE  Needed(i)'
BY DEF Needed, Barred, Keeps, Same

-----------------------------------------------------------------------------
LEMMA InitHolds == ShrinkInit => IInv
<1> SUFFICES ASSUME ShrinkInit PROVE IInv
  OBVIOUS
<1>1. PICK j \in Jobs : Started(j)
  BY DEF ShrinkInit
<1>2. j \in JobRecords
  BY <1>1, JobsAssumption
<1>3. Typed
  BY <1>1, <1>2, FirstChunkIsPositive DEF Started, JobRecords, AnyJob, Typed
<1>4. QED
  BY <1>1, <1>2, <1>3 DEF Started, IInv, NeededSoFar, BestIsKept, NotWritten,
     ShrunkIsMinimal, ShrunkIsKept, ShrunkIsWritten, JobRecords

(* A step of the loop that runs nothing and keeps the candidate.           *)
LEMMA StutterHolds == IInv /\ UNCHANGED svars => IInv'
BY DEF IInv, svars, loop, Typed, NeededSoFar, BestIsKept, NotWritten, ShrunkIsMinimal,
   ShrunkIsKept, ShrunkIsWritten, Needed, Barred, Keeps, Same

LEMMA BaselineHolds == IInv /\ Baseline => IInv'
<1> SUFFICES ASSUME IInv, Baseline PROVE IInv'
  OBVIOUS
<1>1. PICK v \in Verdicts :
        /\ Runs(candidate, v)
        /\ best' = v
        /\ at' = IF Same(v.status) THEN "pass" ELSE "refused"
  BY DEF Baseline
<1>2. /\ candidate \in DOMAIN verdicts' /\ verdicts'[candidate] = v
      /\ \A t \in DOMAIN verdicts : t \in DOMAIN verdicts' /\ verdicts'[t] = verdicts[t]
  BY <1>1, RunsRemember
<1>3. ShrunkIsKept'
  BY <1>2 DEF IInv, ShrunkIsKept, Baseline, Keeps, Same
<1>4. BestIsKept'
  BY <1>1, <1>2 DEF IInv, BestIsKept, Baseline, Same
<1>5. QED
  BY <1>1, <1>3, <1>4 DEF IInv, Baseline, Typed, NeededSoFar, NotWritten,
     ShrunkIsMinimal, ShrunkIsWritten

LEMMA StartPassHolds == IInv /\ StartPass => IInv'
<1> SUFFICES ASSUME IInv, StartPass PROVE IInv'
  OBVIOUS
<1>1. ShrunkIsMinimal'
  <2> SUFFICES ASSUME at' = "ended", ~expired, NEW i \in 0..(Len(candidate) - 1)
               PROVE  Needed(i)'
    BY DEF ShrunkIsMinimal, StartPass
  <2>1. Len(candidate) <= 1
    BY DEF StartPass, More, IInv, Typed
  <2>2. candidate \in Seq(Items)
    BY DEF IInv, Typed
  <2>3. Len(candidate) \in Nat
    BY <2>2
  <2>4. i = 0 /\ Len(candidate) = 1
    <3>1. \A n \in Nat : n <= 1 => \A j \in 0..(n - 1) : j = 0 /\ n = 1
      OBVIOUS
    <3>2. QED BY <2>1, <2>3, <3>1
  <2>5. Needed(0)
    BY <2>4, OnlyItemIsBarred DEF Needed, IInv, Typed
  <2>6. QED BY <2>4, <2>5, NeededIsStable DEF StartPass
<1>2. ShrunkIsKept' /\ BestIsKept'
  BY DEF IInv, ShrunkIsKept, BestIsKept, StartPass, Keeps, Same
<1>3. NeededSoFar'
  BY DEF NeededSoFar, StartPass
<1>4. Typed'
  BY DEF IInv, Typed, StartPass
<1>5. NotWritten' /\ ShrunkIsWritten'
  BY DEF IInv, StartPass, NotWritten, ShrunkIsWritten
<1>6. QED
  BY <1>1, <1>2, <1>3, <1>4, <1>5 DEF IInv

LEMMA SkipHolds == IInv /\ Skip => IInv'
<1> SUFFICES ASSUME IInv, Skip PROVE IInv'
  OBVIOUS
<1>1. NeededSoFar'
  <2> SUFFICES ASSUME chunk = 1, ~improved, ~slow, NEW i \in Nat, i < index',
                      i < Len(candidate)
               PROVE  Needed(i)'
    BY DEF NeededSoFar, Skip
  <2>1. Needed(i)
    <3>1. CASE i < index
      BY <3>1 DEF IInv, NeededSoFar, Skip, InPass
    <3>2. CASE i = index
      BY <3>2 DEF Skip, Needed
    <3>3. QED BY <3>1, <3>2 DEF Skip, IInv, Typed
  <2>2. QED BY <2>1, NeededIsStable DEF Skip
<1>2. ShrunkIsKept' /\ BestIsKept'
  BY DEF IInv, ShrunkIsKept, BestIsKept, Skip, Keeps, Same
<1>3. QED
  BY <1>1, <1>2 DEF IInv, Skip, InPass, Typed, NotWritten, ShrunkIsMinimal, ShrunkIsWritten

(* A trial that is kept, however it was run. *)
LEMMA AcceptHolds ==
  ASSUME IInv, InPass, NEW v, Accept(v), Keeps(v), UNCHANGED <<job, decisions, expired, out>>,
         slow' \/ (slow' = slow /\ candidate' \in DOMAIN verdicts'
                                /\ verdicts'[candidate'] = v),
         job.kind = "setup" \/ ~slow' \/ (candidate' \in DOMAIN verdicts'
                                /\ verdicts'[candidate'] = v)
  PROVE  IInv'
<1>1. Typed'
  BY CutIsSeq DEF IInv, Typed, InPass, Accept
<1>2. BestIsKept'
  BY DEF IInv, BestIsKept, Accept, Keeps, Same
<1>3. ShrunkIsKept'
  BY DEF ShrunkIsKept, Accept, Keeps, Same
<1>4. QED
  BY <1>1, <1>2, <1>3 DEF IInv, InPass, Accept, NeededSoFar, NotWritten, ShrunkIsMinimal,
     ShrunkIsWritten

LEMMA TryHolds == IInv /\ Try => IInv'
<1> SUFFICES ASSUME IInv, Try PROVE IInv'
  OBVIOUS
<1>1. PICK v \in Verdicts :
        /\ Runs(Cut(candidate, index, chunk), v)
        /\ IF Keeps(v) THEN Accept(v) ELSE Reject
  BY DEF Try
<1>2. /\ Cut(candidate, index, chunk) \in DOMAIN verdicts'
      /\ verdicts'[Cut(candidate, index, chunk)] = v
      /\ \A t \in DOMAIN verdicts : t \in DOMAIN verdicts' /\ verdicts'[t] = verdicts[t]
  BY <1>1, RunsRemember
<1>3. CASE Keeps(v)
  <2>1. Accept(v) /\ candidate' \in DOMAIN verdicts' /\ verdicts'[candidate'] = v
    BY <1>1, <1>2, <1>3 DEF Accept
  <2>2. QED BY <1>3, <2>1, AcceptHolds DEF Try
<1>4. CASE ~Keeps(v)
  <2>1. Reject
    BY <1>1, <1>4
  <2>2. NeededSoFar'
    <3> SUFFICES ASSUME chunk = 1, ~improved, ~slow, NEW i \in Nat, i < index',
                        i < Len(candidate)
                 PROVE  Needed(i)'
      BY <2>1 DEF NeededSoFar, Try, Reject
    <3>1. CASE i < index
      <4>1. Needed(i)
        BY <3>1 DEF IInv, NeededSoFar, Try, InPass
      <4>2. QED BY <1>2, <2>1, <4>1, NeededIsStable DEF Try, Reject
    <3>2. CASE i = index
      BY <1>2, <1>4, <2>1, <3>2 DEF Needed, Keeps, Same, Try, Reject
    <3>3. QED BY <2>1, <3>1, <3>2 DEF Reject, IInv, Typed
  <2>3. ShrunkIsKept'
    BY <1>2, <2>1 DEF IInv, ShrunkIsKept, Try, Reject, Keeps, Same
  <2>4. BestIsKept'
    BY <1>2, <2>1 DEF IInv, BestIsKept, Try, Reject, InPass, Same
  <2>5. QED
    BY <2>1, <2>2, <2>3, <2>4 DEF IInv, Try, Reject, InPass, Typed, NotWritten,
       ShrunkIsMinimal, ShrunkIsWritten
<1>5. QED BY <1>3, <1>4

LEMMA TrySlowlyHolds == IInv /\ TrySlowly => IInv'
<1> SUFFICES ASSUME IInv, TrySlowly PROVE IInv'
  OBVIOUS
<1>1. CASE Keeps(CutOff)
  <2>1. Accept(CutOff) /\ slow' /\ job.kind = "setup"
    BY <1>1 DEF TrySlowly
  <2>2. QED BY <1>1, <2>1, AcceptHolds DEF TrySlowly
<1>2. CASE ~Keeps(CutOff)
  BY <1>2 DEF IInv, TrySlowly, Reject, InPass, Typed, NeededSoFar, BestIsKept, NotWritten,
     ShrunkIsMinimal, ShrunkIsKept, ShrunkIsWritten
<1>3. QED BY <1>1, <1>2

LEMMA EndPassHolds == IInv /\ EndPass => IInv'
<1> SUFFICES ASSUME IInv, EndPass PROVE IInv'
  OBVIOUS
<1>1. ShrunkIsMinimal'
  <2> SUFFICES ASSUME at' = "ended", ~expired, ~slow, NEW i \in 0..(Len(candidate) - 1)
               PROVE  Needed(i)'
    BY DEF ShrunkIsMinimal, EndPass
  <2>1. ~improved /\ chunk = 1 /\ index >= Len(candidate) /\ at = "trial"
    BY DEF EndPass, NextChunk
  <2>2. i \in Nat /\ i < index /\ i < Len(candidate)
    BY <2>1 DEF IInv, Typed
  <2>3. Needed(i)
    BY <2>1, <2>2 DEF IInv, NeededSoFar
  <2>4. QED BY <2>3, NeededIsStable DEF EndPass
<1>2. ShrunkIsKept' /\ BestIsKept'
  BY DEF IInv, ShrunkIsKept, BestIsKept, EndPass, NextChunk, Keeps, Same
<1>3. Typed'
  BY DEF IInv, Typed, EndPass, NextChunk, Half
<1>4. QED
  BY <1>1, <1>2, <1>3 DEF IInv, EndPass, NextChunk, NeededSoFar, NotWritten, ShrunkIsWritten

LEMMA ExpireHolds == IInv /\ Expire => IInv'
BY DEF IInv, Expire, loop, Typed, NeededSoFar, BestIsKept, NotWritten, ShrunkIsMinimal,
   ShrunkIsKept, ShrunkIsWritten, Needed, Barred, Keeps, Same

-----------------------------------------------------------------------------
(* The steps that write set at to "done", where only ShrunkIsWritten has   *)
(* something to say of out.                                                *)
LEMMA WriteStepsHolds == IInv /\ WriteSteps => IInv'
<1> SUFFICES ASSUME IInv, WriteSteps PROVE IInv'
  OBVIOUS
<1>1. Same(best.status)
  BY DEF IInv, BestIsKept, WriteSteps, Ended
<1>2. ShrunkIsWritten'
  BY <1>1 DEF ShrunkIsWritten, WriteSteps, Same
<1>3. QED
  BY <1>2 DEF IInv, WriteSteps, Ended, Typed, NeededSoFar, BestIsKept, NotWritten,
     ShrunkIsMinimal, ShrunkIsKept, Keeps, Same

(* Running the candidate again gives a result of the class asked for, if   *)
(* the original does.                                                      *)
LEMMA RerunIsSame ==
  ASSUME IInv, ~slow, NEW v, Runs(candidate, v), UNCHANGED <<job, candidate>>,
         candidate # job.items \/
           (\E w \in {verdicts'[s] : s \in DOMAIN verdicts' \cap {job.items}} : Same(w.status))
  PROVE  Same(v.status)
<1>1. /\ candidate \in DOMAIN verdicts' /\ verdicts'[candidate] = v
      /\ \A t \in DOMAIN verdicts : t \in DOMAIN verdicts' /\ verdicts'[t] = verdicts[t]
  BY RunsRemember
<1>2. CASE candidate = job.items
  BY <1>1, <1>2
<1>3. CASE candidate # job.items
  BY <1>1, <1>3 DEF IInv, ShrunkIsKept, Keeps
<1>4. QED BY <1>2, <1>3

LEMMA RunKeepsKept ==
  ASSUME IInv, NEW v, Runs(candidate, v), UNCHANGED <<job, candidate>>, slow' \/ slow' = slow
  PROVE  ShrunkIsKept'
<1>1. \A t \in DOMAIN verdicts : t \in DOMAIN verdicts' /\ verdicts'[t] = verdicts[t]
  BY RunsRemember
<1>2. QED BY <1>1 DEF IInv, ShrunkIsKept, Keeps, Same

LEMMA WriteRerunHolds == IInv /\ WriteRerun => IInv'
<1> SUFFICES ASSUME IInv, WriteRerun PROVE IInv'
  OBVIOUS
<1>1. PICK v \in Verdicts :
        /\ Runs(candidate, v)
        /\ out' = [items |-> candidate, ran |-> candidate, status |-> v.status]
  BY DEF WriteRerun
<1>2. ShrunkIsKept'
  BY <1>1, RunKeepsKept DEF WriteRerun
<1>3. ShrunkIsWritten'
  <2> SUFFICES ASSUME ~slow,
                 \E w \in {verdicts'[s] : s \in DOMAIN verdicts' \cap {job.items}} : Same(w.status)
               PROVE  Same(v.status)
    BY <1>1 DEF ShrunkIsWritten, WriteRerun, Same
  <2>1. QED BY <1>1, RerunIsSame DEF WriteRerun
<1>4. QED
  BY <1>2, <1>3 DEF IInv, WriteRerun, Ended, Typed, NeededSoFar, BestIsKept, NotWritten,
     ShrunkIsMinimal

LEMMA ShrinkSetupHolds == IInv /\ ShrinkSetup => IInv'
<1> SUFFICES ASSUME IInv, ShrinkSetup PROVE IInv'
  OBVIOUS
<1>1. job \in AnyJob
  BY DEF IInv, Typed
<1>2. job' = [job EXCEPT !.kind = "setup", !.items = job.script, !.max = Len(job.script)]
  BY DEF ShrinkSetup
<1>3. /\ job'.kind = "setup" /\ job'.items = job.script /\ job'.script = job.script
      /\ job.script \in Seq(Items)
  BY <1>1, <1>2 DEF AnyJob
<1>4. job' \in AnyJob
  <2>1. Len(job.script) \in Nat
    BY <1>3
  <2>2. QED BY <1>1, <1>2, <1>3, <2>1 DEF AnyJob
<1>5. Typed'
  BY <1>3, <1>4, FirstChunkIsPositive DEF Typed, ShrinkSetup
<1>6. QED
  BY <1>3, <1>5 DEF IInv, ShrinkSetup, Ended, NeededSoFar, BestIsKept, NotWritten, ShrunkIsMinimal,
     ShrunkIsKept, ShrunkIsWritten

LEMMA WriteSetupHolds == IInv /\ WriteSetup => IInv'
<1> SUFFICES ASSUME IInv, WriteSetup PROVE IInv'
  OBVIOUS
<1>1. PICK v \in Verdicts \cup {CutOff} :
        /\ \/ Runs(candidate, v) /\ UNCHANGED slow
           \/ v = CutOff /\ slow' = TRUE /\ UNCHANGED verdicts
        /\ \/ /\ Same(v.status)
              /\ out' = [items |-> candidate, ran |-> candidate, status |-> v.status]
           \/ /\ ~Same(v.status)
              /\ \E r \in Replays :
                   out' = [items |-> candidate, ran |-> job.script, status |-> r.status]
  BY DEF WriteSetup
<1>2. ShrunkIsKept'
  <2>1. CASE Runs(candidate, v) /\ UNCHANGED slow
    BY <2>1, RunKeepsKept DEF WriteSetup
  <2>2. CASE slow' = TRUE
    BY <2>2 DEF ShrunkIsKept
  <2>3. QED BY <1>1, <2>1, <2>2
<1>3. ShrunkIsWritten'
  <2> SUFFICES ASSUME slow' # TRUE
               PROVE  /\ out'.ran = out'.items
                      /\ (\E w \in {verdicts'[s] : s \in DOMAIN verdicts' \cap {job.items}} :
                            Same(w.status)) => Same(out'.status)
    BY DEF ShrunkIsWritten, WriteSetup, Same
  <2>1. Runs(candidate, v) /\ UNCHANGED slow
    BY <1>1
  <2>2. CASE Same(v.status)
    BY <1>1, <2>2
  <2>3. CASE ~Same(v.status)
    <3>1. candidate = job.items
      BY <2>1, <2>3, RerunIsSame DEF WriteSetup
    <3>2. job.items = job.script
      BY DEF IInv, Typed, WriteSetup, Ended
    <3>3. ~\E w \in {verdicts'[s] : s \in DOMAIN verdicts' \cap {job.items}} : Same(w.status)
      BY <2>1, <2>3, RerunIsSame DEF WriteSetup
    <3>4. QED BY <1>1, <2>3, <3>1, <3>2, <3>3
  <2>4. QED BY <2>2, <2>3
<1>4. job.kind = "setup" /\ at' = "done"
      /\ UNCHANGED <<job, candidate, chunk, index, improved, best>>
  BY DEF WriteSetup, Ended
<1>5. Typed' /\ NeededSoFar' /\ NotWritten' /\ ShrunkIsMinimal'
  BY <1>4 DEF IInv, Typed, NeededSoFar, NotWritten, ShrunkIsMinimal
<1>6. BestIsKept'
  BY <1>4 DEF BestIsKept
<1>7. QED
  BY <1>2, <1>3, <1>5, <1>6 DEF IInv

(* A shrink that fails leaves what it had.                                 *)
LEMMA RunFailsHolds == IInv /\ RunFails => IInv'
BY DEF IInv, RunFails, RunIsDue, InPass, Typed, NeededSoFar, BestIsKept, NotWritten,
   ShrunkIsMinimal, ShrunkIsKept, ShrunkIsWritten, Keeps, Same

LEMMA IInvHolds == IInv /\ [ShrinkNext]_svars => IInv'
BY StutterHolds, RunFailsHolds, BaselineHolds, StartPassHolds, SkipHolds, TryHolds,
   TrySlowlyHolds, EndPassHolds, ExpireHolds, WriteStepsHolds, WriteRerunHolds, ShrinkSetupHolds,
   WriteSetupHolds DEF ShrinkNext, Loop, Write

-----------------------------------------------------------------------------
(* Whatever a shrink leaves is kept, minimal and what the trace written    *)
(* says it is, for any items and any results (util.rs, run_flow.rs and     *)
(* flows.rs share the loop).                                               *)
THEOREM ShrinkCorrect == ShrinkSpec => []ShrinkIsSound
<1>1. IInv => ShrinkIsSound
  BY DEF IInv, ShrinkIsSound
<1>2. QED BY InitHolds, IInvHolds, <1>1, PTL DEF ShrinkSpec

-----------------------------------------------------------------------------
(* Sequences and sets of numbers. *)
IsSeq(s) == s \in Seq(Range(s))

LEMMA IsSeqFacts ==
  ASSUME NEW s, IsSeq(s)
  PROVE  Len(s) \in Nat /\ DOMAIN s = 1..Len(s)
BY LenProperties DEF IsSeq

LEMMA SeqIsSeq ==
  ASSUME NEW S, NEW s \in Seq(S)
  PROVE  IsSeq(s)
<1>1. Len(s) \in Nat /\ DOMAIN s = 1..Len(s) /\ s \in [1..Len(s) -> S]
  BY LenProperties
<1>2. s = [i \in 1..Len(s) |-> s[i]] /\ \A i \in 1..Len(s) : s[i] \in Range(s)
  BY <1>1 DEF Range
<1>3. s \in [1..Len(s) -> Range(s)]
  BY <1>1, <1>2
<1>4. QED BY <1>1, <1>3 DEF IsSeq

LEMMA AppendFacts ==
  ASSUME NEW s, IsSeq(s), NEW x
  PROVE  /\ IsSeq(Append(s, x)) /\ Len(Append(s, x)) = Len(s) + 1
         /\ DOMAIN Append(s, x) = 1..(Len(s) + 1)
         /\ \A i \in 1..Len(s) : Append(s, x)[i] = s[i]
         /\ Append(s, x)[Len(s) + 1] = x
<1> DEFINE S == Range(s) \cup {x}
<1>1. s \in Seq(S) /\ x \in S
  BY SeqMonotonic DEF IsSeq
<1>2. /\ Append(s, x) \in Seq(S) /\ Len(Append(s, x)) = Len(s) + 1
      /\ \A i \in 1..Len(s) : Append(s, x)[i] = s[i]
      /\ Append(s, x)[Len(s) + 1] = x
  BY <1>1, AppendProperties
<1>3. IsSeq(Append(s, x))
  BY <1>2, SeqIsSeq
<1>4. QED BY <1>2, <1>3, IsSeqFacts

(* Changing an element leaves a sequence. *)
LEMMA ExceptIsSeq ==
  ASSUME NEW s, IsSeq(s), NEW i \in DOMAIN s, NEW x
  PROVE  /\ IsSeq([s EXCEPT ![i] = x]) /\ DOMAIN [s EXCEPT ![i] = x] = DOMAIN s
         /\ Len([s EXCEPT ![i] = x]) = Len(s)
         /\ [s EXCEPT ![i] = x][i] = x
         /\ \A j \in DOMAIN s \ {i} : [s EXCEPT ![i] = x][j] = s[j]
<1> DEFINE S == Range(s) \cup {x}
<1>1. s \in Seq(S) /\ x \in S /\ Len(s) \in Nat /\ DOMAIN s = 1..Len(s)
  BY SeqMonotonic, IsSeqFacts DEF IsSeq
<1>2. [s EXCEPT ![i] = x] \in Seq(S) /\ Len([s EXCEPT ![i] = x]) = Len(s)
  BY <1>1, ExceptSeq
<1>3. IsSeq([s EXCEPT ![i] = x])
  BY <1>2, SeqIsSeq
<1>4. QED BY <1>1, <1>2, <1>3

(* The least number of a set: the library's well-founded induction, which  *)
(* takes sets and not operators.                                           *)
LEMMA Least ==
  ASSUME NEW S, S \subseteq Nat, S # {}
  PROVE  \E x \in S : \A y \in S : x <= y
<1> DEFINE R == {ss \in Nat \X Nat : ss[1] < ss[2]}
<1>1. IsWellFoundedOn(R, Nat)
  BY NatLessThanWellFounded DEF OpToRel
<1> HIDE DEF R
<1>2. PICK x \in S : \A y \in S : ~ (<<y, x>> \in R)
  BY <1>1, WFMin
<1>3. ASSUME NEW y \in S, ~ (x <= y) PROVE FALSE
  <2>1. y < x /\ <<y, x>> \in Nat \X Nat
    BY <1>3
  <2>2. <<y, x>> \in R
    BY <2>1 DEF R
  <2>3. QED BY <1>2, <2>2
<1>4. QED BY <1>3

(* A bounded set of numbers has a largest, its least upper bound. *)
LEMMA MaxFacts ==
  ASSUME NEW S, S \subseteq Nat, S # {}, NEW b \in Nat, \A y \in S : y <= b
  PROVE  Max(S) \in S /\ \A y \in S : Max(S) >= y
<1> DEFINE B == {c \in Nat : \A y \in S : y <= c}
<1>1. PICK m \in B : \A c \in B : m <= c
  <2>1. B \subseteq Nat /\ b \in B
    OBVIOUS
  <2>2. QED BY <2>1, Least
<1>2. m \in Nat /\ \A y \in S : y <= m
  BY <1>1
<1>3. m \in S
  <2>1. SUFFICES ASSUME m \notin S PROVE FALSE
    OBVIOUS
  <2>2. PICK z \in S : TRUE
    OBVIOUS
  <2>3. m > 0 /\ m - 1 \in Nat
    BY <1>2, <2>1, <2>2
  <2>4. \A y \in S : y <= m - 1
    BY <1>2, <2>1, <2>3
  <2>5. m - 1 \in B
    BY <2>3, <2>4
  <2>6. QED BY <1>1, <1>2, <2>5
<1>4. QED BY <1>2, <1>3 DEF Max

-----------------------------------------------------------------------------
(***************************************************************************)
(* The sessions.  What is found on the disk depends on where the session   *)
(* is: while a crash is Pending its trace is not written, and all others   *)
(* of the session are.                                                     *)
(***************************************************************************)
Stages == {"loop", "cover", "input", "trace", "report", "minimize", "end", "stopped", "none"}
Paths == Seq(Nat) \ {<<>>}

IsEntry(c) == c = [session |-> c.session, run |-> c.run, path |-> c.path, file |-> c.file]
IsDisk(d) ==
  d = [inputs |-> d.inputs, crashes |-> d.crashes, mins |-> d.mins,
       traces |-> d.traces, locks |-> d.locks, reports |-> d.reports]

FTyped ==
  /\ setup \in Setups /\ session \in Nat \ {0} /\ stage \in Stages
  /\ IsSeq(log)
  /\ \A i \in DOMAIN log : /\ IsEntry(log[i]) /\ log[i].session \in 1..session
                           /\ log[i].path \in Paths \cup {Nothing}
                           /\ log[i].file \in {"whole", "torn"}
  /\ IsDisk(disk)
  /\ Exists \subseteq Paths
  /\ \E b \in Nat : \A p \in Exists : Last(p) <= b
  /\ DOMAIN disk.reports \subseteq 1..session
  /\ stage = "none" => log = <<>> /\ DOMAIN disk.reports = {}

Mine(i) == log[i].session = session
Pending == stage \in {"input", "trace"}

SessionsInv == \A i, j \in DOMAIN log : i <= j => log[i].session <= log[j].session

PathlessInv ==
  \A i \in DOMAIN log : log[i].path = Nothing =>
    /\ \A j \in DOMAIN log : log[j].session = log[i].session => j <= i
    /\ Mine(i) => Pending \/ stage = "stopped"

(* The run of an input fails whenever it is run. *)
Fails(run) ==
  run.refused \/ (run.input \in DOMAIN verdicts /\ verdicts[run.input].status # "pass")

LastInv ==
  /\ stage \in {"input", "trace", "report"} =>
       /\ log # <<>> /\ Mine(Len(log)) /\ log[Len(log)].run = last
       /\ Pending => log[Len(log)].path = Nothing
  /\ stage = "trace" => last.input \in DOMAIN disk.crashes
  /\ stage = "cover" => last.status = "pass" \/ Fails(last)
  /\ stage \in {"loop", "end"} /\ last # Nothing =>
       last.status = "pass" \/ \E i \in DOMAIN log : Mine(i)
  /\ stage = "minimize" => \E i \in DOMAIN log : Mine(i)

CrashInv == \A i \in DOMAIN log : log[i].run.status # "pass" /\ Fails(log[i].run)

(* A file that does not hold its input was being written when a session    *)
(* was killed, which that session did not outlive.                         *)
TornFiles ==
  \A b \in DOMAIN disk.crashes :
    disk.crashes[b] = b \/ \E j \in DOMAIN log : log[j].file = "torn" /\ log[j].run.input = b
TornInv ==
  /\ TornFiles
  /\ \A j \in DOMAIN log : log[j].file = "torn" /\ Mine(j) => stage = "stopped"

KeptInv ==
  \A i \in DOMAIN log : log[i].path # Nothing =>
    /\ Whole(log[i]) \/ CutBefore(i)
    /\ ~ Replaced(log[i].session) =>
         /\ log[i].path \in Exists
         /\ disk.traces[log[i].path].input = log[i].run.input
         /\ disk.traces[log[i].path].status = log[i].run.status

(* With the policy overwrite nothing but the number keeps the crashes of a *)
(* session apart.                                                          *)
Numbered(k) == IF k <= 1 THEN Base ELSE Append(Base, k - 1)
Settled == IF Pending THEN Crashes - 1 ELSE Crashes
NumberedInv ==
  setup.policy = "overwrite" /\ stage \notin {"stopped", "none"} =>
    \A i \in DOMAIN log : Mine(i) /\ log[i].path # Nothing =>
      \E k \in 1..Settled : log[i].path = Numbered(k)

ReportsInv ==
  \A s \in DOMAIN disk.reports :
    LET r == disk.reports[s]
    IN  /\ r.path # Nothing /\ ~ Replaced(s) =>
             /\ r.path \in Exists
             /\ disk.traces[r.path].status = "pass" <=> r.status = "pass"
        /\ r.status = "pass" => \A i \in DOMAIN log : log[i].session # s
        /\ s = session /\ stage # "stopped" =>
             /\ r.status # "pass" /\ r.path # Nothing
             /\ \E i \in DOMAIN log : Mine(i) /\ log[i].path = r.path

FInv == /\ FTyped /\ SessionsInv /\ PathlessInv /\ LastInv /\ CrashInv /\ TornInv
        /\ KeptInv /\ NumberedInv /\ ReportsInv

(* The invariant says what the property says, of the crash by KeptInv and  *)
(* CrashInv, of the reports by ReportsInv.                                 *)
LEMMA KeepsCrashes == FInv => FuzzKeepsCrashes
<1> SUFFICES ASSUME FInv PROVE FuzzKeepsCrashes
  OBVIOUS
<1>1. ASSUME NEW i \in DOMAIN log, log[i].path # Nothing, ~ Replaced(log[i].session)
      PROVE  log[i].run.refused \/ ReplayStatus(disk.traces[log[i].path]) # "pass"
  <2>1. disk.traces[log[i].path].input = log[i].run.input /\ Fails(log[i].run)
    BY <1>1 DEF FInv, KeptInv, CrashInv
  <2>2. QED BY <2>1 DEF Fails, ReplayStatus
<1>2. CrashesAreKept
  BY <1>1 DEF FInv, KeptInv, PathlessInv, CrashesAreKept
<1>3. ReportsNameTraces
  BY DEF FInv, ReportsInv, ReportsNameTraces
<1>4. QED BY <1>2, <1>3 DEF FuzzKeepsCrashes

-----------------------------------------------------------------------------
(* Paths. *)
LEMMA PathFacts ==
  ASSUME NEW p \in Paths, NEW k \in Nat
  PROVE  /\ Append(p, k) \in Paths /\ Len(Append(p, k)) = Len(p) + 1
         /\ Last(Append(p, k)) = k /\ Front(Append(p, k)) = p
<1> DEFINE q == Append(p, k)
<1>1. p \in Seq(Nat) /\ Len(p) \in Nat \ {0}
  <2>1. p \in Seq(Nat) /\ p # <<>>
    BY DEF Paths
  <2>2. QED BY <2>1, EmptySeq, LenProperties
<1>2. /\ q \in Seq(Nat) /\ Len(q) = Len(p) + 1 /\ q[Len(p) + 1] = k
      /\ \A i \in 1..Len(p) : q[i] = p[i]
  BY <1>1, AppendProperties
<1>3. q # <<>>
  BY <1>1, <1>2, EmptySeq
<1> HIDE DEF q
<1>4. SubSeq(q, 1, Len(p)) = p
  <2>1. SubSeq(q, 1, Len(p)) \in Seq(Nat) /\ Len(SubSeq(q, 1, Len(p))) = Len(p)
    BY <1>1, <1>2, SubSeqProperties
  <2>2. \A i \in 1..Len(p) : SubSeq(q, 1, Len(p))[i] = q[i]
    BY <1>1, <1>2, SubSeqProperties
  <2>3. QED BY <1>1, <1>2, <2>1, <2>2, SeqEqual
<1>5. Front(q) = p /\ Last(q) = k
  BY <1>1, <1>2, <1>4 DEF Front, Last
<1>6. q \in Paths
  BY <1>2, <1>3 DEF Paths
<1>7. QED BY <1>2, <1>5, <1>6 DEF q

LEMMA PathIsNotNothing == Nothing \notin Paths
BY NothingAssumption DEF Paths

LEMMA BaseFacts ==
  ASSUME session \in Nat
  PROVE  Base \in Paths /\ Len(Base) = 1
BY DEF Base, Paths

(* The crashes of a session do not share a number.                         *)
LEMMA NumberedFacts ==
  ASSUME session \in Nat, NEW k \in Nat
  PROVE  /\ Numbered(k) \in Paths
         /\ \A j \in 1..(k - 1) : Numbered(j) # Numbered(k)
<1>1. \A n \in Nat : n > 1 => /\ Append(Base, n - 1) \in Paths
                              /\ Len(Append(Base, n - 1)) = 2
                              /\ Last(Append(Base, n - 1)) = n - 1
  <2> TAKE n \in Nat
  <2>1. CASE n > 1
    <3>1. n - 1 \in Nat
      BY <2>1
    <3>2. Base \in Paths /\ Len(Base) = 1
      BY BaseFacts
    <3>3. Len(Base) + 1 = 2
      BY <3>2
    <3>4. QED BY <3>1, <3>2, <3>3, PathFacts
  <2>2. QED BY <2>1
<1>2. Numbered(k) \in Paths
  BY <1>1, BaseFacts DEF Numbered
<1>3. ASSUME NEW j \in 1..(k - 1), Numbered(j) = Numbered(k) PROVE FALSE
  <2>1. k \in Nat /\ k > 1 /\ j \in Nat /\ j < k
    OBVIOUS
  <2>2. Numbered(k) = Append(Base, k - 1) /\ Len(Numbered(k)) = 2 /\ Last(Numbered(k)) = k - 1
    BY <1>1, <2>1 DEF Numbered
  <2>3. CASE j <= 1
    <3>1. Len(Numbered(j)) = 1
      BY <2>3, BaseFacts DEF Numbered
    <3>2. QED BY <1>3, <2>2, <3>1
  <2>4. CASE j > 1
    <3>1. Numbered(j) = Append(Base, j - 1) /\ Last(Numbered(j)) = j - 1
      BY <1>1, <2>1, <2>4 DEF Numbered
    <3>2. QED BY <1>3, <2>1, <2>2, <3>1
  <2>5. QED BY <2>1, <2>3, <2>4
<1>4. QED BY <1>2, <1>3

LEMMA LastIsNat ==
  ASSUME NEW p \in Paths
  PROVE  Last(p) \in Nat
<1>1. p \in Seq(Nat) /\ p # <<>>
  BY DEF Paths
<1>2. Len(p) \in Nat \ {0}
  BY <1>1, EmptySeq, LenProperties
<1>3. QED BY <1>1, <1>2, ElementOfSeq DEF Last

(* resolve_record_target gives a path that is free, or is allowed to be    *)
(* overwritten.                                                            *)
LEMMA TargetFacts ==
  ASSUME FTyped, NEW q \in Paths, NEW p \in Target(q)
  PROVE  /\ p \in Paths /\ Last(p) \in Nat
         /\ setup.policy = "overwrite" => p = q
         /\ setup.policy # "overwrite" => p \notin Exists
<1>1. \A r \in Paths : Last(r) \in Nat
  BY LastIsNat
<1>2. CASE p = q /\ (q \notin Exists \/ setup.policy = "overwrite")
  BY <1>1, <1>2
<1>3. CASE q \in Exists /\ setup.policy # "overwrite"
  <2> DEFINE S == Numbers(q) \cup {0}
  <2>1. S \subseteq Nat
    BY <1>1 DEF Numbers, FTyped
  <2>2. PICK b \in Nat : \A e \in Exists : Last(e) <= b
    BY DEF FTyped
  <2>3. \A y \in S : y <= b
    BY <2>2 DEF Numbers
  <2>4. Max(S) \in Nat /\ \A y \in S : Max(S) >= y
    BY <2>1, <2>2, <2>3, MaxFacts
  <2> HIDE DEF S
  <2>5. p = Append(q, Max(S) + 1)
    BY <1>3 DEF Target, S
  <2>6. /\ p \in Paths /\ Last(p) = Max(S) + 1 /\ Front(p) = q
        /\ Len(p) = Len(q) + 1
    BY <2>4, <2>5, PathFacts
  <2>7. p \notin Exists
    <3>1. SUFFICES ASSUME p \in Exists PROVE FALSE
      OBVIOUS
    <3>2. Len(q) \in Nat \ {0}
      <4>1. q \in Seq(Nat) /\ q # <<>>
        BY DEF Paths
      <4>2. QED BY <4>1, EmptySeq, LenProperties
    <3>3. Len(p) > 1
      BY <2>6, <3>2
    <3>4. Max(S) + 1 \in S
      BY <2>6, <3>1, <3>3 DEF Numbers, S
    <3>5. QED BY <2>4, <3>4
  <2>8. QED BY <1>3, <2>4, <2>6, <2>7
<1>4. QED BY <1>2, <1>3 DEF Target

-----------------------------------------------------------------------------
(* How many crashes the session has had. *)
LEMMA CrashesFacts ==
  ASSUME IsSeq(log)
  PROVE  Crashes \in Nat /\ (Crashes = 0 <=> \A i \in DOMAIN log : ~ Mine(i))
<1> DEFINE C == {i \in DOMAIN log : log[i].session = session}
<1>1. IsFiniteSet(C)
  <2>1. Len(log) \in Nat /\ DOMAIN log = 1..Len(log)
    BY IsSeqFacts
  <2>2. IsFiniteSet(DOMAIN log)
    BY <2>1, FS_Interval
  <2>3. QED BY <2>2, FS_Subset
<1>2. Cardinality(C) \in Nat /\ (Cardinality(C) = 0 <=> C = {})
  BY <1>1, FS_CardinalityType, FS_EmptySet
<1>3. QED BY <1>2 DEF Crashes, Mine

LEMMA OneCrashMore ==
  ASSUME IsSeq(log), UNCHANGED session, NEW c, c.session = session, log' = Append(log, c)
  PROVE  Crashes' = Crashes + 1
<1> DEFINE C == {i \in DOMAIN log : log[i].session = session}
           n == Len(log)
<1>1. n \in Nat /\ DOMAIN log = 1..n
  BY IsSeqFacts
<1>2. /\ DOMAIN log' = 1..(n + 1) /\ log'[n + 1] = c
      /\ \A i \in 1..n : log'[i] = log[i]
  BY AppendFacts
<1>3. 1..(n + 1) = 1..n \cup {n + 1} /\ n + 1 \notin 1..n
  BY <1>1
<1>4. IsFiniteSet(C)
  <2>1. IsFiniteSet(1..n)
    BY <1>1, FS_Interval
  <2>2. QED BY <1>1, <2>1, FS_Subset
<1> HIDE DEF n
<1>5. {i \in DOMAIN log' : log'[i].session = session'} = C \cup {n + 1}
  BY <1>1, <1>2, <1>3
<1>6. n + 1 \notin C
  BY <1>1, <1>3
<1>7. Cardinality(C \cup {n + 1}) = Cardinality(C) + 1
  BY <1>4, <1>6, FS_AddElement
<1>8. QED BY <1>5, <1>7 DEF Crashes

LEMMA SameCrashes ==
  ASSUME UNCHANGED session, DOMAIN log' = DOMAIN log,
         \A i \in DOMAIN log : log'[i].session = log[i].session
  PROVE  Crashes' = Crashes
<1>1. {i \in DOMAIN log' : log'[i].session = session'} =
      {i \in DOMAIN log : log[i].session = session}
  OBVIOUS
<1>2. QED BY <1>1 DEF Crashes

(* The last crash, of a session that had one. *)
LEMMA LastIsMine ==
  ASSUME FInv, NEW i \in DOMAIN log, Mine(i)
  PROVE  Len(log) \in DOMAIN log /\ Mine(Len(log))
<1>1. Len(log) \in Nat /\ DOMAIN log = 1..Len(log) /\ i \in 1..Len(log)
  BY IsSeqFacts DEF FInv, FTyped
<1>2. Len(log) \in DOMAIN log /\ i <= Len(log)
  BY <1>1
<1>3. log[i].session <= log[Len(log)].session
  BY <1>2 DEF FInv, SessionsInv
<1>4. log[Len(log)].session \in 1..session /\ log[i].session = session /\ session \in Nat
  BY <1>2 DEF FInv, FTyped, Mine
<1>5. QED BY <1>2, <1>3, <1>4 DEF Mine

LEMMA SetupFacts ==
  ASSUME NEW s \in Setups
  PROVE  s \in SetupRecords
BY SetupsAssumption

-----------------------------------------------------------------------------
VerdictsGrow == \A s \in DOMAIN verdicts : s \in DOMAIN verdicts' /\ verdicts'[s] = verdicts[s]

LEMMA LoopGrows == Loop => VerdictsGrow
<1>1. Try => VerdictsGrow
  BY RunsRemember DEF Try, VerdictsGrow
<1>2. QED BY <1>1 DEF Loop, StartPass, Skip, EndPass, VerdictsGrow

LEMMA FailsStays ==
  ASSUME VerdictsGrow, NEW run, Fails(run)
  PROVE  Fails(run)'
BY DEF VerdictsGrow, Fails

LEMMA FInitHolds == FInit => FInv
<1> SUFFICES ASSUME FInit PROVE FInv
  OBVIOUS
<1>1. /\ session = 1 /\ log = <<>> /\ last = Nothing /\ stage \in {"loop", "none"}
      /\ disk = [inputs |-> [b \in setup.corpus |-> b], crashes |-> <<>>, mins |-> <<>>,
                 traces |-> <<>>, locks |-> {}, reports |-> <<>>]
  BY DEF FInit
<1>2. setup \in Setups
  BY SetupsAssumption DEF FInit
<1>3. /\ DOMAIN log = {} /\ DOMAIN disk.traces = {} /\ DOMAIN disk.reports = {}
      /\ DOMAIN disk.crashes = {}
  BY <1>1
<1>4. IsSeq(log)
  BY <1>1, EmptySeq DEF IsSeq
<1>5. IsDisk(disk)
  BY <1>1 DEF IsDisk
<1>6. FTyped
  <2>1. 0 \in Nat /\ \A p \in Exists : Last(p) <= 0
    BY <1>3 DEF Exists
  <2>2. QED BY <1>1, <1>2, <1>3, <1>4, <1>5, <2>1 DEF FTyped, Exists, Stages
<1>7. LastInv
  BY <1>1 DEF LastInv, Pending
<1>8. QED
  BY <1>3, <1>6, <1>7 DEF FInv, SessionsInv, PathlessInv, CrashInv, TornInv, TornFiles,
     KeptInv, NumberedInv, ReportsInv

-----------------------------------------------------------------------------
(* No file of a crash is removed or changed. *)
CrashesStay ==
  \A b \in DOMAIN disk.crashes : b \in DOMAIN disk'.crashes
                                 /\ disk'.crashes[b] = disk.crashes[b]

LEMMA PersistFacts ==
  ASSUME NEW f, NEW b
  PROVE  /\ DOMAIN Persist(f, b) = DOMAIN f \cup {b}
         /\ DOMAIN Tear(f, b) = DOMAIN f \cup {b}
         /\ \A a \in DOMAIN f : Persist(f, b)[a] = f[a] /\ Tear(f, b)[a] = f[a]
         /\ b \notin DOMAIN f => Persist(f, b)[b] = b /\ Tear(f, b)[b] = <<>>
BY DEF Persist, Tear, Put

(* What a crash has, it keeps. *)
LEMMA InputStays ==
  ASSUME CrashesStay, UNCHANGED log, NEW i \in DOMAIN log, Whole(log[i]) \/ CutBefore(i)
  PROVE  Whole(log[i])' \/ CutBefore(i)'
BY DEF CrashesStay, Whole, CutBefore

(* A step that writes neither a trace nor a report nor the log.            *)
LEMMA QuietStep ==
  ASSUME FInv, UNCHANGED <<setup, session, log>>, IsDisk(disk'),
         disk'.traces = disk.traces, disk'.reports = disk.reports,
         CrashesStay, disk'.crashes = disk.crashes \/ TornFiles',
         log = <<>> \/ VerdictsGrow,
         stage' \in Stages, stage' = "none" => stage = "none",
         stage = "stopped" => stage' = "stopped",
         Pending' = Pending \/ stage' = "stopped",
         LastInv'
  PROVE  FInv'
<1>1. Exists' = Exists /\ log' = log
  BY DEF Exists
<1>2. FTyped'
  BY <1>1 DEF FInv, FTyped
<1>3. SessionsInv' /\ PathlessInv'
  BY <1>1 DEF FInv, SessionsInv, PathlessInv, Mine
<1>4. CrashInv'
  <2>1. CASE log = <<>>
    BY <1>1, <2>1 DEF CrashInv
  <2>2. CASE VerdictsGrow
    BY <1>1, <2>2, FailsStays DEF FInv, CrashInv
  <2>3. QED BY <2>1, <2>2
<1>5. KeptInv'
  <2>1. \A i \in DOMAIN log : log[i].path # Nothing => Whole(log[i])' \/ CutBefore(i)'
    BY <1>1, InputStays DEF FInv, KeptInv
  <2>2. QED BY <1>1, <2>1 DEF FInv, KeptInv, Replaced
<1>9. TornInv'
  <2>1. TornFiles'
    BY <1>1 DEF FInv, TornInv, TornFiles
  <2>2. QED BY <1>1, <2>1 DEF FInv, TornInv, Mine
<1>6. NumberedInv'
  <2>1. CASE stage' \in {"stopped", "none"}
    BY <2>1 DEF NumberedInv
  <2>2. CASE stage' \notin {"stopped", "none"}
    <3>1. stage = "none" => DOMAIN log = {}
      BY DEF FInv, FTyped
    <3>2. Crashes' = Crashes /\ Settled' = Settled
      BY <1>1, <2>2, SameCrashes DEF Settled
    <3>3. \A k : Numbered(k)' = Numbered(k)
      BY DEF Numbered, Base
    <3>4. stage # "stopped"
      BY <2>2
    <3>5. QED BY <1>1, <3>1, <3>2, <3>3, <3>4 DEF FInv, NumberedInv, Mine
  <2>3. QED BY <2>1, <2>2
<1>7. ReportsInv'
  <2>1. stage' # "stopped" => stage # "stopped"
    OBVIOUS
  <2>2. QED BY <1>1, <2>1 DEF FInv, ReportsInv, Replaced, Mine
<1>8. QED BY <1>2, <1>3, <1>4, <1>5, <1>6, <1>7, <1>9 DEF FInv

-----------------------------------------------------------------------------
LEMMA ExecuteHolds == FInv /\ Execute => FInv'
<1> SUFFICES ASSUME FInv, Execute PROVE FInv'
  OBVIOUS
<1>1. PICK input : \E v \in Verdicts, refused \in MayRefuse :
        /\ Runs(input, v)
        /\ last' = [input |-> input, refused |-> refused,
                    status |-> IF refused THEN "fail" ELSE v.status,
                    covers |-> Coverage(input, v.status)]
  BY ZenonT(30) DEF Execute
<1> PICK v \in Verdicts, refused \in MayRefuse :
        /\ Runs(input, v)
        /\ last' = [input |-> input, refused |-> refused,
                    status |-> IF refused THEN "fail" ELSE v.status,
                    covers |-> Coverage(input, v.status)]
  BY <1>1
<1>2. VerdictsGrow
  BY RunsRemember DEF VerdictsGrow
<1>3. /\ stage = "loop" /\ stage' = "cover" /\ UNCHANGED <<setup, session, log, disk>>
  BY DEF Execute
<1>4. last'.status = "pass" \/ Fails(last)'
  <2>1. input \in DOMAIN verdicts' /\ verdicts'[input] = v
    BY RunsRemember
  <2>2. last'.input = input /\ last'.refused = refused
        /\ last'.status = IF refused THEN "fail" ELSE v.status
    OBVIOUS
  <2>3. CASE refused
    BY <2>2, <2>3 DEF Fails
  <2>4. CASE ~ refused
    BY <2>1, <2>2, <2>4 DEF Fails
  <2>5. QED BY <2>3, <2>4
<1>5. LastInv'
  BY <1>3, <1>4 DEF LastInv, Pending
<1>6. IsDisk(disk')
  BY <1>3 DEF FInv, FTyped
<1>7. QED
  BY <1>2, <1>3, <1>5, <1>6, QuietStep DEF Stages, Pending, CrashesStay

LEMMA CoverHolds == FInv /\ Cover => FInv'
<1> SUFFICES ASSUME FInv, Cover PROVE FInv'
  OBVIOUS
<1> DEFINE c == [session |-> session, run |-> last, path |-> Nothing, file |-> "whole"]
<1>1. /\ stage = "cover" /\ UNCHANGED <<setup, session, last, verdicts>>
      /\ stage' = (IF Crashed THEN "input" ELSE "loop")
      /\ log' = IF Crashed THEN Append(log, c) ELSE log
  BY DEF Cover, svars
<1>2. /\ IsDisk(disk') /\ disk'.traces = disk.traces /\ disk'.reports = disk.reports
      /\ disk'.crashes = disk.crashes
  <2>1. IsDisk(disk)
    BY DEF FInv, FTyped
  <2>2. CASE UNCHANGED disk
    BY <2>1, <2>2
  <2>3. CASE disk' = [disk EXCEPT !.inputs = Persist(@, last.input)]
    BY <2>1, <2>3 DEF IsDisk
  <2>4. QED BY <2>2, <2>3 DEF Cover
<1>3. VerdictsGrow
  BY <1>1 DEF VerdictsGrow
<1>4. CASE ~ Crashed
  <2>1. LastInv'
    BY <1>1, <1>4 DEF LastInv, Crashed, Pending
  <2>2. QED
    BY <1>1, <1>2, <1>3, <1>4, <2>1, QuietStep DEF Stages, Pending, CrashesStay
<1>5. CASE Crashed
  <2> DEFINE n == Len(log)
  <2>1. /\ IsSeq(log) /\ n \in Nat /\ DOMAIN log = 1..n
    BY IsSeqFacts DEF FInv, FTyped
  <2>2. log' = Append(log, c) /\ stage' = "input"
    BY <1>1, <1>5
  <2>3. /\ IsSeq(log') /\ Len(log') = n + 1 /\ DOMAIN log' = 1..(n + 1)
        /\ \A i \in 1..n : log'[i] = log[i]
        /\ log'[n + 1] = c
    BY <2>1, <2>2, AppendFacts
  <2> HIDE DEF n
  <2>4. \A i \in DOMAIN log' : \/ i \in DOMAIN log /\ log'[i] = log[i]
                               \/ i = n + 1 /\ log'[i] = c
    <3>1. 1..(n + 1) = 1..n \cup {n + 1}
      BY <2>1
    <3>2. QED BY <2>1, <2>3, <3>1
  <2>5. c.session = session /\ c.run = last /\ c.path = Nothing /\ c.file = "whole"
    OBVIOUS
  <2> HIDE DEF c
  <2>6. session \in Nat \ {0} /\ \A i \in DOMAIN log : log[i].session \in 1..session
    BY DEF FInv, FTyped
  <2>7. FTyped'
    <3>1. IsEntry(c)
      BY DEF IsEntry, c
    <3>2. \A i \in DOMAIN log' : /\ IsEntry(log'[i]) /\ log'[i].session \in 1..session'
                                 /\ log'[i].path \in Paths \cup {Nothing}
                                 /\ log'[i].file \in {"whole", "torn"}
      BY <1>1, <2>4, <2>5, <2>6, <3>1 DEF FInv, FTyped
    <3>3. Exists' = Exists
      BY <1>2 DEF Exists
    <3>4. QED BY <1>1, <1>2, <2>2, <2>3, <3>2, <3>3 DEF FInv, FTyped, Stages
  <2>8. SessionsInv'
    <3> SUFFICES ASSUME NEW i \in DOMAIN log', NEW j \in DOMAIN log', i <= j
                 PROVE  log'[i].session <= log'[j].session
      BY DEF SessionsInv
    <3>1. CASE i \in DOMAIN log /\ j \in DOMAIN log
      BY <2>1, <2>3, <3>1 DEF FInv, SessionsInv
    <3>2. CASE j = n + 1
      BY <2>3, <2>4, <2>5, <2>6, <3>2
    <3>3. CASE i = n + 1 /\ j \in DOMAIN log
      BY <2>1, <3>3
    <3>4. QED BY <2>4, <3>1, <3>2, <3>3
  <2>9. \A i \in DOMAIN log : Mine(i) => log[i].path # Nothing
    BY <1>1 DEF FInv, PathlessInv, Pending
  <2>10. PathlessInv'
    <3> SUFFICES ASSUME NEW i \in DOMAIN log', log'[i].path = Nothing
                 PROVE  /\ \A j \in DOMAIN log' : log'[j].session = log'[i].session => j <= i
                        /\ Mine(i)' => Pending' \/ stage' = "stopped"
      BY DEF PathlessInv
    <3>1. Pending'
      BY <2>2 DEF Pending
    <3>2. CASE i = n + 1
      BY <2>1, <2>3, <3>1, <3>2
    <3>3. CASE i \in DOMAIN log /\ log'[i] = log[i]
      <4>1. log[i].session # session
        BY <2>9, <3>3 DEF Mine
      <4>2. \A j \in DOMAIN log' : log'[j].session = log'[i].session => j <= i
        BY <2>4, <2>5, <3>3, <4>1 DEF FInv, PathlessInv
      <4>3. QED BY <3>1, <4>2
    <3>4. QED BY <2>4, <3>2, <3>3
  <2>11. LastInv'
    <3>1. log' # <<>>
      BY <2>1, <2>3
    <3>2. Mine(Len(log))'
      BY <1>1, <2>3, <2>5 DEF Mine
    <3>3. log'[Len(log')].run = last' /\ log'[Len(log')].path = Nothing
      BY <1>1, <2>3, <2>5
    <3>4. QED BY <2>2, <3>1, <3>2, <3>3 DEF LastInv
  <2>12. CrashInv'
    <3>1. last.status # "pass" /\ Fails(last)
      BY <1>1, <1>5 DEF Crashed, FInv, LastInv
    <3>2. Fails(last)'
      BY <1>1, <3>1 DEF Fails
    <3>3. SUFFICES ASSUME NEW i \in DOMAIN log'
                   PROVE  (log[i].run.status # "pass" /\ Fails(log[i].run))'
      BY DEF CrashInv
    <3>4. CASE i = n + 1
      BY <1>1, <2>3, <2>5, <3>1, <3>2, <3>4 DEF Fails
    <3>5. CASE i \in DOMAIN log /\ log'[i] = log[i]
      <4>1. log[i].run.status # "pass" /\ Fails(log[i].run)
        BY <3>5 DEF FInv, CrashInv
      <4>2. QED BY <1>3, <3>5, <4>1 DEF Fails, VerdictsGrow
    <3>6. QED BY <2>4, <3>4, <3>5
  <2>13. KeptInv'
    <3>1. \A i \in DOMAIN log' : log'[i].path # Nothing => i \in DOMAIN log /\ log'[i] = log[i]
      BY <2>4, <2>5
    <3>2. Exists' = Exists
      BY <1>2 DEF Exists
    <3>3. ASSUME NEW i \in DOMAIN log, log[i].path # Nothing
          PROVE  Whole(log[i])' \/ CutBefore(i)'
      <4>1. log'[i] = log[i] /\ i \in 1..n
        BY <2>1, <2>3
      <4>2. Whole(log[i]) \/ CutBefore(i)
        BY <3>3 DEF FInv, KeptInv
      <4>3. \A j \in 1..(i - 1) : log'[j] = log[j]
        BY <2>1, <2>3, <4>1
      <4>4. QED BY <1>2, <4>1, <4>2, <4>3 DEF Whole, CutBefore
    <3>4. QED BY <1>1, <1>2, <3>1, <3>2, <3>3 DEF FInv, KeptInv, Replaced
  <2>17. TornInv'
    <3>1. \A i \in DOMAIN log : i \in DOMAIN log' /\ log'[i] = log[i]
      BY <2>1, <2>3
    <3>2. TornFiles'
      BY <1>2, <3>1 DEF FInv, TornInv, TornFiles
    <3>3. \A j \in DOMAIN log' : log'[j].file = "torn" => j \in DOMAIN log /\ log'[j] = log[j]
      BY <2>4, <2>5
    <3>4. \A j \in DOMAIN log' : ~ (log'[j].file = "torn" /\ log'[j].session = session)
      BY <1>1, <3>3 DEF FInv, TornInv, Mine
    <3>5. QED BY <1>1, <3>2, <3>4 DEF TornInv, Mine
  <2>14. NumberedInv'
    <3>1. \A i \in DOMAIN log' : log'[i].path # Nothing => i \in DOMAIN log /\ log'[i] = log[i]
      BY <2>4, <2>5
    <3>2. Settled' = Settled
      <4>1. Crashes' = Crashes + 1 /\ Crashes \in Nat
        BY <1>1, <2>1, <2>2, <2>5, OneCrashMore, CrashesFacts
      <4>2. QED BY <1>1, <2>2, <4>1 DEF Settled, Pending
    <3>3. \A k : Numbered(k)' = Numbered(k)
      BY <1>1 DEF Numbered, Base
    <3>4. QED BY <1>1, <3>1, <3>2, <3>3 DEF FInv, NumberedInv, Mine
  <2>15. ReportsInv'
    <3> SUFFICES ASSUME NEW s \in DOMAIN disk.reports
                 PROVE  LET r == disk.reports[s]
                        IN  /\ r.path # Nothing /\ ~ Replaced(s) =>
                                 /\ r.path \in Exists
                                 /\ disk.traces[r.path].status = "pass" <=> r.status = "pass"
                            /\ r.status = "pass" => \A i \in DOMAIN log' : log'[i].session # s
                            /\ s = session =>
                                 /\ r.status # "pass" /\ r.path # Nothing
                                 /\ \E i \in DOMAIN log' :
                                      log'[i].session = session /\ log'[i].path = r.path
      BY <1>1, <1>2 DEF ReportsInv, Replaced, Exists, Mine
    <3> DEFINE r == disk.reports[s]
    <3>1. /\ r.path # Nothing /\ ~ Replaced(s) =>
               /\ r.path \in Exists
               /\ disk.traces[r.path].status = "pass" <=> r.status = "pass"
          /\ r.status = "pass" => \A i \in DOMAIN log : log[i].session # s
          /\ s = session =>
               /\ r.status # "pass" /\ r.path # Nothing
               /\ \E i \in DOMAIN log : Mine(i) /\ log[i].path = r.path
      BY <1>1 DEF FInv, ReportsInv
    <3>2. \A i \in DOMAIN log : i \in DOMAIN log' /\ log'[i] = log[i]
      BY <2>1, <2>3
    <3>3. r.status = "pass" => \A i \in DOMAIN log' : log'[i].session # s
      BY <2>4, <2>5, <3>1
    <3>4. QED BY <3>1, <3>2, <3>3 DEF Mine
  <2>16. QED BY <2>7, <2>8, <2>10, <2>11, <2>12, <2>13, <2>14, <2>15, <2>17 DEF FInv
<1>6. QED BY <1>4, <1>5

LEMMA KeepInputHolds == FInv /\ KeepInput => FInv'
<1> SUFFICES ASSUME FInv, KeepInput PROVE FInv'
  OBVIOUS
<1>1. /\ stage = "input" /\ stage' = "trace"
      /\ UNCHANGED <<setup, session, last, log, verdicts>>
      /\ disk' = [disk EXCEPT !.crashes = Persist(@, last.input)]
  BY DEF KeepInput, svars, session_state
<1>2. /\ IsDisk(disk') /\ disk'.traces = disk.traces /\ disk'.reports = disk.reports
      /\ disk'.crashes = Persist(disk.crashes, last.input)
  <2>1. IsDisk(disk)
    BY DEF FInv, FTyped
  <2>2. QED BY <1>1, <2>1 DEF IsDisk
<1>3. /\ DOMAIN disk'.crashes = DOMAIN disk.crashes \cup {last.input}
      /\ \A b \in DOMAIN disk.crashes : disk'.crashes[b] = disk.crashes[b]
      /\ last.input \notin DOMAIN disk.crashes => disk'.crashes[last.input] = last.input
  <2> DEFINE f == disk.crashes
             b == last.input
  <2>1. /\ DOMAIN Persist(f, b) = DOMAIN f \cup {b}
        /\ \A a \in DOMAIN f : Persist(f, b)[a] = f[a]
        /\ b \notin DOMAIN f => Persist(f, b)[b] = b
    <3> HIDE DEF f, b
    <3>1. QED BY DEF Persist, Tear, Put
  <2>2. QED BY <1>2, <2>1
<1>4. CrashesStay
  BY <1>3 DEF CrashesStay
<1>5. TornFiles'
  BY <1>1, <1>3 DEF FInv, TornInv, TornFiles
<1>6. LastInv'
  BY <1>1, <1>3 DEF FInv, LastInv, Pending, Mine
<1>7. QED BY <1>1, <1>2, <1>4, <1>5, <1>6, QuietStep DEF Stages, Pending, VerdictsGrow

(* A step that changes the stage only, or what was run and minimized.      *)
LEMMA StageStep ==
  ASSUME FInv, UNCHANGED <<setup, session, log, disk, last>>, VerdictsGrow,
         \/ stage' = "stopped"
         \/ stage = "minimize" /\ stage' = "minimize"
         \/ stage = "loop" /\ stage' = "end"
  PROVE  FInv'
<1>1. IsDisk(disk')
  BY DEF FInv, FTyped
<1>2. stage' \in Stages /\ (Pending' = Pending \/ stage' = "stopped") /\ stage' # "none"
  BY DEF Stages, Pending
<1>3. stage = "stopped" => stage' = "stopped"
  OBVIOUS
<1>4. LastInv'
  BY DEF FInv, LastInv, Pending, Mine
<1>5. QED BY <1>1, <1>2, <1>3, <1>4, QuietStep DEF CrashesStay

(* A minimization ends, after a crash. *)
LEMMA KeepMinHolds == FInv /\ KeepMin => FInv'
<1> SUFFICES ASSUME FInv, KeepMin PROVE FInv'
  OBVIOUS
<1>1. /\ stage = "minimize" /\ stage' \in {"loop", "end"}
      /\ UNCHANGED <<setup, session, last, log, verdicts>>
      /\ disk' = [disk EXCEPT !.mins = Persist(@, candidate)]
  BY DEF KeepMin, session_state
<1>2. /\ IsDisk(disk') /\ disk'.traces = disk.traces /\ disk'.reports = disk.reports
      /\ disk'.crashes = disk.crashes
  <2>1. IsDisk(disk)
    BY DEF FInv, FTyped
  <2>2. QED BY <1>1, <2>1 DEF IsDisk
<1>3. LastInv'
  BY <1>1 DEF FInv, LastInv, Pending, Mine
<1>4. QED BY <1>1, <1>2, <1>3, QuietStep DEF Stages, Pending, VerdictsGrow, CrashesStay

(* `fozzy shrink` has no sessions. *)
LEMMA ShrinkAloneHolds == FInv /\ ShrinkAlone => FInv'
<1> SUFFICES ASSUME FInv, ShrinkAlone PROVE FInv'
  OBVIOUS
<1>1. stage = "none" /\ UNCHANGED <<setup, session, stage, last, log, disk>>
  BY DEF ShrinkAlone, session_state
<1>2. log = <<>> /\ IsDisk(disk')
  BY <1>1 DEF FInv, FTyped
<1>3. LastInv'
  BY <1>1 DEF LastInv, Pending
<1>4. QED BY <1>1, <1>2, <1>3, QuietStep DEF Stages, Pending, CrashesStay

(* A new session has had no crash: every trace there is is of an earlier one. *)
LEMMA AgainHolds == FInv /\ Again => FInv'
<1> SUFFICES ASSUME FInv, Again PROVE FInv'
  OBVIOUS
<1>1. /\ stage = "stopped" /\ stage' = "loop" /\ session' = session + 1
      /\ last' = Nothing /\ UNCHANGED <<setup, log, disk, verdicts>>
  BY DEF Again, svars
<1>2. Exists' = Exists
  BY <1>1 DEF Exists
<1>3. session \in Nat \ {0} /\ \A i \in DOMAIN log : log[i].session \in 1..session
  BY DEF FInv, FTyped
<1>4. 1..session \subseteq 1..session' /\ session' \in Nat \ {0}
  BY <1>1, <1>3
<1>5. \A i \in DOMAIN log : log[i].session # session'
  BY <1>1, <1>3
<1>6. FTyped'
  <2>1. \A i \in DOMAIN log : log[i].session \in 1..session'
    BY <1>3, <1>4
  <2>2. DOMAIN disk.reports \subseteq 1..session'
    BY <1>4 DEF FInv, FTyped
  <2>3. QED BY <1>1, <1>2, <1>4, <2>1, <2>2 DEF FInv, FTyped, Stages
<1>7. SessionsInv' /\ PathlessInv'
  BY <1>1, <1>5 DEF FInv, SessionsInv, PathlessInv, Mine
<1>8. LastInv' /\ CrashInv'
  BY <1>1 DEF FInv, LastInv, Pending, CrashInv, Fails
<1>9. \A s \in 1..session : Replaced(s) => Replaced(s)'
  BY <1>1, <1>3 DEF Replaced
<1>10. KeptInv'
  <2>1. \A i \in DOMAIN log : log[i].path # Nothing => Whole(log[i])' \/ CutBefore(i)'
    BY <1>1, InputStays DEF CrashesStay, FInv, KeptInv
  <2>2. QED BY <1>1, <1>2, <1>3, <1>9, <2>1 DEF FInv, KeptInv
<1>14. TornInv'
  BY <1>1, <1>5 DEF FInv, TornInv, TornFiles, Mine
<1>11. NumberedInv'
  BY <1>1, <1>5 DEF NumberedInv, Mine
<1>12. ReportsInv'
  <2>1. DOMAIN disk.reports \subseteq 1..session
    BY DEF FInv, FTyped
  <2>2. session' \notin DOMAIN disk.reports
    BY <1>1, <1>3, <2>1
  <2>3. QED BY <1>1, <1>2, <1>9, <2>1, <2>2 DEF FInv, ReportsInv
<1>13. QED BY <1>6, <1>7, <1>8, <1>10, <1>11, <1>12, <1>14 DEF FInv

-----------------------------------------------------------------------------
(* A trace that is written takes the place of none that is to be kept: a   *)
(* session overwrites those of earlier sessions, and its own crashes have  *)
(* their numbers.                                                          *)
LEMMA FreshPath ==
  ASSUME FInv, NEW q \in Paths, NEW p \in Target(q), stage \notin {"stopped", "none"},
         setup.policy = "overwrite" =>
           \A i \in DOMAIN log : Mine(i) /\ log[i].path # Nothing => log[i].path # q
  PROVE  /\ p \in Paths /\ p # Nothing
         /\ \A i \in DOMAIN log : log[i].path # Nothing /\ ~ Replaced(log[i].session) =>
              log[i].path \in Exists /\ log[i].path # p
         /\ \A s \in DOMAIN disk.reports :
              disk.reports[s].path # Nothing /\ ~ Replaced(s) =>
                disk.reports[s].path \in Exists /\ disk.reports[s].path # p
<1>1. /\ p \in Paths /\ Last(p) \in Nat
      /\ setup.policy = "overwrite" => p = q
      /\ setup.policy # "overwrite" => p \notin Exists
  BY TargetFacts DEF FInv
<1>2. p # Nothing
  BY <1>1, PathIsNotNothing
<1>3. ASSUME NEW i \in DOMAIN log, log[i].path # Nothing, ~ Replaced(log[i].session)
      PROVE  log[i].path \in Exists /\ log[i].path # p
  <2>1. log[i].path \in Exists
    BY <1>3 DEF FInv, KeptInv
  <2>2. CASE setup.policy = "overwrite"
    <3>1. log[i].session \in 1..session /\ session \in Nat
      BY DEF FInv, FTyped
    <3>2. Mine(i)
      BY <1>3, <2>2, <3>1 DEF Replaced, Mine
    <3>3. QED BY <1>1, <1>3, <2>1, <2>2, <3>2
  <2>3. QED BY <1>1, <2>1, <2>2
<1>4. ASSUME NEW s \in DOMAIN disk.reports, disk.reports[s].path # Nothing, ~ Replaced(s)
      PROVE  disk.reports[s].path \in Exists /\ disk.reports[s].path # p
  <2>1. disk.reports[s].path \in Exists
    BY <1>4 DEF FInv, ReportsInv
  <2>2. CASE setup.policy = "overwrite"
    <3>1. s \in 1..session /\ session \in Nat
      BY DEF FInv, FTyped
    <3>2. s = session
      BY <1>4, <2>2, <3>1 DEF Replaced
    <3>3. \E i \in DOMAIN log : Mine(i) /\ log[i].path = disk.reports[s].path
      BY <3>2 DEF FInv, ReportsInv
    <3>4. QED BY <1>1, <1>4, <2>1, <2>2, <3>3
  <2>3. QED BY <1>1, <2>1, <2>2
<1>5. QED BY <1>1, <1>2, <1>3, <1>4

(* The traces with the one that is written.                                *)
LEMMA TracesPut ==
  ASSUME FTyped, NEW p \in Paths, Last(p) \in Nat, NEW t,
         disk'.traces = Put(disk.traces, p, t)
  PROVE  /\ Exists' \subseteq Paths
         /\ \E b \in Nat : \A e \in Exists' : Last(e) <= b
         /\ p \in Exists' /\ disk'.traces[p] = t
         /\ \A e \in Exists \ {p} : e \in Exists' /\ disk'.traces[e] = disk.traces[e]
<1>0. disk'.traces = [n \in Exists \cup {p} |-> IF n = p THEN t ELSE disk.traces[n]]
  BY DEF Put, Exists
<1>1. Exists' = Exists \cup {p}
  BY <1>0 DEF Exists
<1>2. disk'.traces[p] = t /\ \A e \in Exists \ {p} : disk'.traces[e] = disk.traces[e]
  BY <1>0 DEF Exists
<1>3. \E b \in Nat : \A e \in Exists' : Last(e) <= b
  <2>1. PICK b \in Nat : \A e \in Exists : Last(e) <= b
    BY DEF FTyped
  <2>2. PICK c \in Nat : c >= b /\ c >= Last(p)
    <3>1. CASE b >= Last(p)
      BY <3>1
    <3>2. CASE b < Last(p)
      BY <3>2
    <3>3. QED BY <3>1, <3>2
  <2>3. ASSUME NEW e \in Exists PROVE Last(e) <= c
    <3>1. e \in Paths
      BY DEF FTyped
    <3>2. Last(e) \in Nat
      BY <3>1, LastIsNat
    <3>3. QED BY <2>1, <2>2, <3>2
  <2>4. QED BY <1>1, <2>2, <2>3
<1>4. QED BY <1>1, <1>2, <1>3 DEF FTyped

(* What WriteTrace and a kill while it writes have in common.              *)
LEMMA AtTrace ==
  ASSUME FInv, stage = "trace"
  PROVE  /\ Len(log) \in DOMAIN log /\ Mine(Len(log)) /\ Crashes \in Nat \ {0}
         /\ log[Len(log)] = [session |-> session, run |-> last, path |-> Nothing,
                              file |-> "whole"]
         /\ CrashPath = Numbered(Crashes) /\ CrashPath \in Paths
         /\ setup.policy = "overwrite" =>
              \A i \in DOMAIN log : Mine(i) /\ log[i].path # Nothing => log[i].path # CrashPath
<1>1. IsSeq(log) /\ session \in Nat
  BY DEF FInv, FTyped
<1>2. log # <<>> /\ Mine(Len(log)) /\ log[Len(log)].run = last /\ log[Len(log)].path = Nothing
  BY DEF FInv, LastInv, Pending
<1>3. Len(log) \in DOMAIN log
  <2>1. Len(log) \in Nat /\ DOMAIN log = 1..Len(log)
    BY <1>1, IsSeqFacts
  <2>2. Len(log) # 0
    BY <1>1, <1>2, EmptySeq DEF IsSeq
  <2>3. QED BY <2>1, <2>2
<1>4. log[Len(log)] = [session |-> session, run |-> last, path |-> Nothing,
                              file |-> "whole"]
  <2>1. log[Len(log)].file = "whole"
    BY <1>2, <1>3 DEF FInv, FTyped, TornInv
  <2>2. QED BY <1>2, <1>3, <2>1 DEF FInv, FTyped, IsEntry, Mine
<1>5. Crashes \in Nat \ {0}
  BY <1>1, <1>2, <1>3, CrashesFacts
<1>6. CrashPath = Numbered(Crashes)
  BY DEF CrashPath, Numbered
<1>7. CrashPath \in Paths /\ \A k \in 1..(Crashes - 1) : Numbered(k) # CrashPath
  BY <1>1, <1>5, <1>6, NumberedFacts
<1>8. ASSUME setup.policy = "overwrite", NEW i \in DOMAIN log, Mine(i), log[i].path # Nothing
      PROVE  log[i].path # CrashPath
  <2>1. Settled = Crashes - 1
    BY DEF Settled, Pending
  <2>2. \E k \in 1..(Crashes - 1) : log[i].path = Numbered(k)
    BY <1>8, <2>1 DEF FInv, NumberedInv
  <2>3. QED BY <1>7, <2>2
<1>9. QED BY <1>2, <1>3, <1>4, <1>5, <1>6, <1>7, <1>8

LEMMA WriteTraceHolds == FInv /\ WriteTrace => FInv'
<1> SUFFICES ASSUME FInv, WriteTrace PROVE FInv'
  OBVIOUS
<1>1. PICK p \in Target(CrashPath) :
        /\ Written(p, last)
        /\ log' = [log EXCEPT ![Len(log)].path = p]
  BY DEF WriteTrace
<1>2. /\ stage = "trace" /\ stage' = "report" /\ UNCHANGED <<setup, session, last, verdicts>>
  BY DEF WriteTrace, svars, session_state
<1> DEFINE n == Len(log)
           c == [session |-> session, run |-> last, path |-> p, file |-> "whole"]
<1>3. /\ n \in DOMAIN log /\ Mine(n) /\ Crashes \in Nat \ {0}
      /\ log[n] = [session |-> session, run |-> last, path |-> Nothing, file |-> "whole"]
      /\ CrashPath = Numbered(Crashes) /\ CrashPath \in Paths
      /\ setup.policy = "overwrite" =>
           \A i \in DOMAIN log : Mine(i) /\ log[i].path # Nothing => log[i].path # CrashPath
  BY <1>2, AtTrace
<1>4. /\ p \in Paths /\ p # Nothing
      /\ \A i \in DOMAIN log : log[i].path # Nothing /\ ~ Replaced(log[i].session) =>
           log[i].path \in Exists /\ log[i].path # p
      /\ \A s \in DOMAIN disk.reports :
           disk.reports[s].path # Nothing /\ ~ Replaced(s) =>
             disk.reports[s].path \in Exists /\ disk.reports[s].path # p
  BY <1>2, <1>3, FreshPath
<1>5. /\ IsDisk(disk') /\ disk'.traces = Put(disk.traces, p, TraceOf(last))
      /\ disk'.reports = disk.reports /\ disk'.crashes = disk.crashes
  <2>1. IsDisk(disk)
    BY DEF FInv, FTyped
  <2>2. QED BY <1>1, <2>1 DEF Written, IsDisk
<1>6. /\ Exists' \subseteq Paths
      /\ \E b \in Nat : \A e \in Exists' : Last(e) <= b
      /\ p \in Exists' /\ disk'.traces[p] = TraceOf(last)
      /\ \A e \in Exists \ {p} : e \in Exists' /\ disk'.traces[e] = disk.traces[e]
  BY <1>4, <1>5, LastIsNat, TracesPut DEF FInv
<1>7. /\ IsSeq(log') /\ DOMAIN log' = DOMAIN log /\ Len(log') = n /\ log'[n] = c
      /\ \A i \in DOMAIN log \ {n} : log'[i] = log[i]
  <2>1. IsSeq(log)
    BY DEF FInv, FTyped
  <2>2. log' = [log EXCEPT ![n] = [log[n] EXCEPT !.path = p]]
    BY <1>1
  <2>3. [log[n] EXCEPT !.path = p] = c
    BY <1>3
  <2>4. n \in DOMAIN log /\ log' = [log EXCEPT ![n] = c]
    BY <1>3, <2>2, <2>3
  <2> HIDE DEF c
  <2>5. /\ IsSeq([log EXCEPT ![n] = c]) /\ DOMAIN [log EXCEPT ![n] = c] = DOMAIN log
        /\ Len([log EXCEPT ![n] = c]) = Len(log) /\ [log EXCEPT ![n] = c][n] = c
        /\ \A j \in DOMAIN log \ {n} : [log EXCEPT ![n] = c][j] = log[j]
    BY <2>1, <2>4, ExceptIsSeq
  <2>6. QED BY <2>4, <2>5
<1>8. c.session = session /\ c.run = last /\ c.path = p /\ c.file = "whole" /\ IsEntry(c)
  BY DEF IsEntry
<1> HIDE DEF n, c
<1>9. \A i \in DOMAIN log : /\ log'[i].session = log[i].session /\ log'[i].run = log[i].run
                            /\ log'[i].file = log[i].file
                            /\ i # n => log'[i].path = log[i].path
  BY <1>3, <1>7, <1>8
<1>10. FTyped'
  <2>1. \A i \in DOMAIN log' : /\ IsEntry(log'[i]) /\ log'[i].session \in 1..session'
                               /\ log'[i].path \in Paths \cup {Nothing}
                               /\ log'[i].file \in {"whole", "torn"}
    <3> SUFFICES ASSUME NEW i \in DOMAIN log
                 PROVE  /\ IsEntry(log'[i]) /\ log'[i].session \in 1..session
                        /\ log'[i].path \in Paths \cup {Nothing}
                        /\ log'[i].file \in {"whole", "torn"}
      BY <1>2, <1>7
    <3>1. /\ IsEntry(log[i]) /\ log[i].session \in 1..session
          /\ log[i].path \in Paths \cup {Nothing} /\ log[i].file \in {"whole", "torn"}
      BY DEF FInv, FTyped
    <3>2. QED BY <1>4, <1>7, <1>8, <1>9, <3>1
  <2>2. QED BY <1>2, <1>5, <1>6, <1>7, <2>1 DEF FInv, FTyped, Stages
<1>11. SessionsInv'
  BY <1>7, <1>9 DEF FInv, SessionsInv
<1>12. \A i \in DOMAIN log : Mine(i) => log'[i].path # Nothing
  <2> SUFFICES ASSUME NEW i \in DOMAIN log, Mine(i), log'[i].path = Nothing PROVE FALSE
    OBVIOUS
  <2>1. i # n /\ log[i].path = Nothing
    BY <1>4, <1>7, <1>8, <1>9
  <2>2. log[n].session = log[i].session
    BY <1>3 DEF Mine
  <2>3. n <= i
    BY <1>3, <2>1, <2>2 DEF FInv, PathlessInv
  <2>4. Len(log) \in Nat /\ DOMAIN log = 1..Len(log)
    BY IsSeqFacts DEF FInv, FTyped
  <2>5. QED BY <2>1, <2>3, <2>4 DEF n
<1>13. PathlessInv'
  BY <1>2, <1>7, <1>8, <1>9, <1>12, <1>4 DEF FInv, PathlessInv, Mine
<1>14. LastInv'
  <2>1. log' # <<>>
    BY <1>3, <1>7
  <2>2. QED BY <1>2, <1>3, <1>7, <1>8, <2>1 DEF LastInv, Mine, Pending
<1>15. CrashInv'
  BY <1>2, <1>7, <1>9 DEF FInv, CrashInv, Fails
<1>16. KeptInv'
  <2> SUFFICES ASSUME NEW i \in DOMAIN log, log'[i].path # Nothing
               PROVE  /\ Whole(log[i]) \/ CutBefore(i)
                      /\ ~ Replaced(log[i].session) =>
                           /\ log'[i].path \in Exists'
                           /\ disk'.traces[log'[i].path].input = log[i].run.input
                           /\ disk'.traces[log'[i].path].status = log[i].run.status
    <3>1. \A i \in DOMAIN log' : /\ Whole(log[i])' <=> Whole(log[i])
                                 /\ CutBefore(i)' <=> CutBefore(i)
      <4> SUFFICES ASSUME NEW i \in DOMAIN log
                   PROVE  /\ Whole(log[i])' <=> Whole(log[i])
                          /\ CutBefore(i)' <=> CutBefore(i)
        BY <1>7
      <4>1. Whole(log[i])' <=> Whole(log[i])
        BY <1>5, <1>9 DEF Whole
      <4>2. \A j \in 1..(i - 1) : j \in DOMAIN log
        <5>1. Len(log) \in Nat /\ DOMAIN log = 1..Len(log)
          BY IsSeqFacts DEF FInv, FTyped
        <5>2. QED BY <5>1
      <4>3. QED BY <1>9, <4>1, <4>2 DEF CutBefore
    <3>2. QED BY <1>2, <1>7, <1>9, <3>1 DEF KeptInv, Replaced
  <2>1. CASE i = n
    <3>1. last.input \in DOMAIN disk.crashes
      BY <1>2 DEF FInv, LastInv
    <3>2. log[i].run = last /\ log'[i].path = p
      BY <1>3, <1>7, <1>8, <2>1
    <3>3. Whole(log[i]) \/ CutBefore(i)
      <4> SUFFICES ASSUME ~ Whole(log[i]) PROVE CutBefore(i)
        OBVIOUS
      <4>1. PICK j \in DOMAIN log : log[j].file = "torn" /\ log[j].run.input = last.input
        BY <3>1, <3>2 DEF FInv, TornInv, TornFiles, Whole
      <4>2. j # n
        BY <1>3, <4>1
      <4>3. Len(log) \in Nat /\ DOMAIN log = 1..Len(log)
        BY IsSeqFacts DEF FInv, FTyped
      <4>4. j \in 1..(i - 1)
        BY <2>1, <4>2, <4>3 DEF n
      <4>5. QED BY <3>2, <4>1, <4>4 DEF CutBefore
    <3>4. QED BY <1>6, <3>2, <3>3 DEF TraceOf
  <2>2. CASE i # n
    <3>1. log'[i].path = log[i].path /\ log[i].path # Nothing
      BY <1>9, <2>2
    <3>2. QED BY <1>4, <1>6, <3>1 DEF FInv, KeptInv
  <2>3. QED BY <2>1, <2>2
<1>20. TornInv'
  BY <1>2, <1>5, <1>7, <1>9 DEF FInv, TornInv, TornFiles, Mine
<1>17. NumberedInv'
  <2> SUFFICES ASSUME setup.policy = "overwrite", NEW i \in DOMAIN log, Mine(i),
                      log'[i].path # Nothing
               PROVE  \E k \in 1..Crashes : log'[i].path = Numbered(k)
    <3>1. Settled' = Crashes
      BY <1>2, <1>7, <1>9, SameCrashes DEF Settled, Pending
    <3>2. \A k : Numbered(k)' = Numbered(k)
      BY <1>2 DEF Numbered, Base
    <3>3. QED BY <1>2, <1>7, <1>9, <3>1, <3>2 DEF NumberedInv, Mine
  <2>1. CASE i = n
    <3>1. log'[i].path = Numbered(Crashes)
      <4>1. p = CrashPath
        BY <1>3, TargetFacts DEF FInv
      <4>2. QED BY <1>3, <1>7, <1>8, <2>1, <4>1
    <3>2. Crashes \in 1..Crashes
      BY <1>3
    <3>3. QED BY <3>1, <3>2
  <2>2. CASE i # n
    <3>1. Settled = Crashes - 1
      BY <1>2 DEF Settled, Pending
    <3>2. \E k \in 1..(Crashes - 1) : log[i].path = Numbered(k)
      BY <1>2, <1>9, <2>2, <3>1 DEF FInv, NumberedInv
    <3>3. 1..(Crashes - 1) \subseteq 1..Crashes
      BY <1>3
    <3>4. QED BY <1>9, <2>2, <3>2, <3>3
  <2>3. QED BY <2>1, <2>2
<1>18. ReportsInv'
  <2> SUFFICES ASSUME NEW s \in DOMAIN disk.reports
               PROVE  LET r == disk.reports[s]
                      IN  /\ r.path # Nothing /\ ~ Replaced(s) =>
                               /\ r.path \in Exists'
                               /\ disk'.traces[r.path].status = "pass" <=> r.status = "pass"
                          /\ r.status = "pass" => \A i \in DOMAIN log : log[i].session # s
                          /\ s = session =>
                               /\ r.status # "pass" /\ r.path # Nothing
                               /\ \E i \in DOMAIN log : Mine(i) /\ log'[i].path = r.path
    BY <1>2, <1>5, <1>7, <1>9 DEF ReportsInv, Replaced, Mine
  <2> DEFINE r == disk.reports[s]
  <2>1. /\ r.path # Nothing /\ ~ Replaced(s) =>
               /\ r.path \in Exists
               /\ disk.traces[r.path].status = "pass" <=> r.status = "pass"
        /\ r.status = "pass" => \A i \in DOMAIN log : log[i].session # s
        /\ s = session =>
               /\ r.status # "pass" /\ r.path # Nothing
               /\ \E i \in DOMAIN log : Mine(i) /\ log[i].path = r.path
    BY <1>2 DEF FInv, ReportsInv
  <2>2. s = session => \E i \in DOMAIN log : Mine(i) /\ log'[i].path = r.path
    BY <1>3, <1>9, <2>1
  <2>3. QED BY <1>4, <1>6, <2>1, <2>2
<1>19. QED BY <1>10, <1>11, <1>13, <1>14, <1>15, <1>16, <1>17, <1>18, <1>20 DEF FInv

-----------------------------------------------------------------------------
(* The session stops after a trace that the log does not tell of.          *)
LEMMA StopWithTrace ==
  ASSUME FInv, UNCHANGED <<setup, session, log, last, verdicts>>, stage' = "stopped",
         IsDisk(disk'), disk'.crashes = disk.crashes,
         DOMAIN disk'.reports \subseteq 1..session,
         NEW p \in Paths, NEW t, disk'.traces = Put(disk.traces, p, t),
         \A i \in DOMAIN log : log[i].path # Nothing /\ ~ Replaced(log[i].session) =>
           log[i].path \in Exists /\ log[i].path # p,
         ReportsInv'
  PROVE  FInv'
<1>1. /\ Exists' \subseteq Paths
      /\ \E b \in Nat : \A e \in Exists' : Last(e) <= b
      /\ \A e \in Exists \ {p} : e \in Exists' /\ disk'.traces[e] = disk.traces[e]
  BY LastIsNat, TracesPut DEF FInv
<1>2. FTyped'
  BY <1>1 DEF FInv, FTyped, Stages
<1>3. SessionsInv' /\ PathlessInv' /\ CrashInv' /\ LastInv' /\ NumberedInv'
  BY DEF FInv, SessionsInv, PathlessInv, Mine, CrashInv, Fails, LastInv, Pending, NumberedInv
<1>4. KeptInv'
  <2>1. \A i \in DOMAIN log : log[i].path # Nothing => Whole(log[i])' \/ CutBefore(i)'
    BY InputStays DEF CrashesStay, FInv, KeptInv
  <2>2. QED BY <1>1, <2>1 DEF FInv, KeptInv, Replaced
<1>5. TornInv'
  BY DEF FInv, TornInv, TornFiles, Mine
<1>6. QED BY <1>2, <1>3, <1>4, <1>5 DEF FInv

(* A kill while the input of a crash is written is remembered.             *)
LEMMA KillTears ==
  ASSUME FInv, UNCHANGED <<setup, session, last, verdicts>>,
         stage = "input", stage' = "stopped", last.input \notin DOMAIN disk.crashes,
         disk' = [disk EXCEPT !.crashes = Tear(@, last.input)],
         log' = [log EXCEPT ![Len(log)].file = "torn"]
  PROVE  FInv'
<1> DEFINE n == Len(log)
           c == [session |-> session, run |-> last, path |-> Nothing, file |-> "torn"]
<1>1. IsSeq(log) /\ IsDisk(disk) /\ n \in Nat /\ DOMAIN log = 1..n
  BY IsSeqFacts DEF FInv, FTyped
<1>2. log # <<>> /\ Mine(n) /\ log[n].run = last /\ log[n].path = Nothing
  BY DEF FInv, LastInv, Pending
<1>3. n \in DOMAIN log
  <2>1. n # 0
    BY <1>1, <1>2, EmptySeq DEF IsSeq
  <2>2. QED BY <1>1, <2>1
<1>4. /\ IsDisk(disk') /\ disk'.traces = disk.traces /\ disk'.reports = disk.reports
      /\ disk'.crashes = Tear(disk.crashes, last.input)
  BY <1>1 DEF IsDisk
<1>5. /\ DOMAIN disk'.crashes = DOMAIN disk.crashes \cup {last.input}
      /\ \A b \in DOMAIN disk.crashes : disk'.crashes[b] = disk.crashes[b]
  <2> DEFINE f == disk.crashes
             b == last.input
  <2>1. /\ DOMAIN Tear(f, b) = DOMAIN f \cup {b}
        /\ \A a \in DOMAIN f : Tear(f, b)[a] = f[a]
    <3> HIDE DEF f, b
    <3>1. QED BY DEF Persist, Tear, Put
  <2>2. QED BY <1>4, <2>1
<1>6. /\ IsSeq(log') /\ DOMAIN log' = DOMAIN log /\ log'[n] = c
      /\ \A i \in DOMAIN log \ {n} : log'[i] = log[i]
  <2>1. log' = [log EXCEPT ![n] = [log[n] EXCEPT !.file = "torn"]]
    OBVIOUS
  <2>2. [log[n] EXCEPT !.file = "torn"] = c
    BY <1>2, <1>3 DEF FInv, FTyped, IsEntry, Mine
  <2>3. log' = [log EXCEPT ![n] = c]
    BY <2>1, <2>2
  <2> HIDE DEF c
  <2>4. /\ IsSeq([log EXCEPT ![n] = c]) /\ DOMAIN [log EXCEPT ![n] = c] = DOMAIN log
        /\ [log EXCEPT ![n] = c][n] = c
        /\ \A i \in DOMAIN log \ {n} : [log EXCEPT ![n] = c][i] = log[i]
    BY <1>1, <1>3, ExceptIsSeq
  <2>5. QED BY <2>3, <2>4
<1>7. c.session = session /\ c.run = last /\ c.path = Nothing /\ c.file = "torn" /\ IsEntry(c)
  BY DEF IsEntry
<1> HIDE DEF n, c
<1>8. \A i \in DOMAIN log : /\ log'[i].session = log[i].session /\ log'[i].run = log[i].run
                            /\ log'[i].path = log[i].path
                            /\ log[i].file = "torn" => log'[i].file = "torn"
  BY <1>2, <1>3, <1>6, <1>7 DEF Mine
<1>9. Exists' = Exists
  BY <1>4 DEF Exists
<1>10. FTyped'
  <2>1. \A i \in DOMAIN log' : /\ IsEntry(log'[i]) /\ log'[i].session \in 1..session
                               /\ log'[i].path \in Paths \cup {Nothing}
                               /\ log'[i].file \in {"whole", "torn"}
    <3> SUFFICES ASSUME NEW i \in DOMAIN log
                 PROVE  IsEntry(log'[i]) /\ log'[i].file \in {"whole", "torn"}
      BY <1>6, <1>8 DEF FInv, FTyped
    <3>1. CASE i = n
      BY <1>6, <1>7, <3>1
    <3>2. CASE i # n
      BY <1>6, <3>2 DEF FInv, FTyped
    <3>3. QED BY <3>1, <3>2
  <2>2. QED BY <1>4, <1>6, <1>9, <2>1 DEF FInv, FTyped, Stages
<1>11. SessionsInv' /\ PathlessInv' /\ CrashInv' /\ NumberedInv'
  BY <1>6, <1>8 DEF FInv, SessionsInv, PathlessInv, Mine, CrashInv, Fails, NumberedInv
<1>12. LastInv'
  BY DEF LastInv, Pending
<1>13. TornInv'
  <2>1. ASSUME NEW b \in DOMAIN disk'.crashes
        PROVE  \/ disk'.crashes[b] = b
               \/ \E j \in DOMAIN log' : log'[j].file = "torn" /\ log'[j].run.input = b
    <3>1. CASE b = last.input
      BY <1>3, <1>6, <1>7, <3>1
    <3>2. CASE b # last.input
      <4>1. b \in DOMAIN disk.crashes /\ disk'.crashes[b] = disk.crashes[b]
        BY <1>5, <3>2
      <4>2. \/ disk.crashes[b] = b
            \/ \E j \in DOMAIN log : log[j].file = "torn" /\ log[j].run.input = b
        BY <4>1 DEF FInv, TornInv, TornFiles
      <4>3. QED BY <1>6, <1>8, <4>1, <4>2
    <3>3. QED BY <3>1, <3>2
  <2>2. QED BY <2>1 DEF TornInv, TornFiles
<1>14. KeptInv'
  <2> SUFFICES ASSUME NEW i \in DOMAIN log, log[i].path # Nothing
               PROVE  Whole(log[i])' \/ CutBefore(i)'
    BY SMTT(30), <1>4, <1>6, <1>8, <1>9 DEF FInv, KeptInv, Replaced
  <2>1. Whole(log[i]) => Whole(log[i])'
    BY <1>5, <1>8 DEF Whole
  <2>2. \A j \in 1..(i - 1) : j \in DOMAIN log
    BY <1>1 DEF n
  <2>3. CutBefore(i) => CutBefore(i)'
    BY <1>8, <2>2 DEF CutBefore
  <2>4. QED BY <2>1, <2>3 DEF FInv, KeptInv
<1>15. ReportsInv'
  <2> SUFFICES ASSUME NEW s \in DOMAIN disk.reports
               PROVE  LET r == disk.reports[s]
                      IN  /\ r.path # Nothing /\ ~ Replaced(s) =>
                               /\ r.path \in Exists
                               /\ disk.traces[r.path].status = "pass" <=> r.status = "pass"
                          /\ r.status = "pass" => \A i \in DOMAIN log' : log'[i].session # s
    BY <1>4, <1>9 DEF ReportsInv, Replaced
  <2>1. QED BY <1>6, <1>8 DEF FInv, ReportsInv
<1>16. QED BY <1>10, <1>11, <1>12, <1>13, <1>14, <1>15 DEF FInv

LEMMA KillHolds == FInv /\ Kill => FInv'
<1> SUFFICES ASSUME FInv, Kill PROVE FInv'
  OBVIOUS
<1>1. /\ stage \notin {"stopped", "none"} /\ stage' = "stopped"
      /\ UNCHANGED <<setup, session, last, verdicts>>
  BY DEF Kill, session_state
<1>2. IsDisk(disk)
  BY DEF FInv, FTyped
<1>3. ASSUME UNCHANGED log, IsDisk(disk'), disk'.traces = disk.traces,
             disk'.reports = disk.reports, disk'.crashes = disk.crashes
      PROVE  FInv'
  <2>1. LastInv'
    BY <1>1 DEF LastInv, Pending
  <2>2. QED BY <1>1, <1>3, <2>1, QuietStep DEF Stages, VerdictsGrow, CrashesStay
<1>4. CASE UNCHANGED <<log, disk>>
  BY <1>2, <1>3, <1>4
<1>5. CASE UNCHANGED log /\ disk' = [disk EXCEPT !.inputs = Tear(@, last.input)]
  <2>1. /\ IsDisk(disk') /\ disk'.traces = disk.traces /\ disk'.reports = disk.reports
        /\ disk'.crashes = disk.crashes
    BY <1>2, <1>5 DEF IsDisk
  <2>2. QED BY <1>3, <1>5, <2>1
<1>6. CASE /\ stage = "input" /\ last.input \notin DOMAIN disk.crashes
           /\ disk' = [disk EXCEPT !.crashes = Tear(@, last.input)]
           /\ log' = [log EXCEPT ![Len(log)].file = "torn"]
  BY <1>1, <1>6, KillTears
<1>9. CASE UNCHANGED log /\ disk' = [disk EXCEPT !.mins = Tear(@, candidate)]
  <2>1. /\ IsDisk(disk') /\ disk'.traces = disk.traces /\ disk'.reports = disk.reports
        /\ disk'.crashes = disk.crashes
    BY <1>2, <1>9 DEF IsDisk
  <2>2. QED BY <1>3, <1>9, <2>1
<1>7. ASSUME stage = "trace", UNCHANGED log, NEW p \in Target(CrashPath),
             NEW written \in BOOLEAN,
             disk' = [disk EXCEPT !.locks = @ \cup {p},
                        !.traces = IF written THEN Put(@, p, TraceOf(last)) ELSE @]
      PROVE  FInv'
  <2>1. /\ IsDisk(disk') /\ disk'.reports = disk.reports /\ disk'.crashes = disk.crashes
        /\ disk'.traces = IF written THEN Put(disk.traces, p, TraceOf(last)) ELSE disk.traces
    BY <1>2, <1>7 DEF IsDisk
  <2>2. CASE ~ written
    BY <1>3, <1>7, <2>1, <2>2
  <2>3. CASE written
    <3>1. /\ p \in Paths
          /\ \A i \in DOMAIN log : log[i].path # Nothing /\ ~ Replaced(log[i].session) =>
               log[i].path \in Exists /\ log[i].path # p
          /\ \A s \in DOMAIN disk.reports :
               disk.reports[s].path # Nothing /\ ~ Replaced(s) =>
                 disk.reports[s].path \in Exists /\ disk.reports[s].path # p
      BY <1>7, AtTrace, FreshPath
    <3>2. disk'.traces = Put(disk.traces, p, TraceOf(last))
      BY <2>1, <2>3
    <3>3. \A e \in Exists \ {p} : e \in Exists' /\ disk'.traces[e] = disk.traces[e]
      BY <3>1, <3>2, LastIsNat, TracesPut DEF FInv
    <3>4. ReportsInv'
      BY <1>1, <1>7, <2>1, <3>1, <3>3 DEF FInv, ReportsInv, Replaced
    <3>5. DOMAIN disk'.reports \subseteq 1..session
      BY <2>1 DEF FInv, FTyped
    <3>6. QED BY <1>1, <1>7, <2>1, <3>1, <3>2, <3>4, <3>5, StopWithTrace
  <2>4. QED BY <2>2, <2>3
<1>8. QED BY <1>4, <1>5, <1>6, <1>7, <1>9 DEF Kill

-----------------------------------------------------------------------------
LEMMA WriteReportHolds == FInv /\ WriteReport => FInv'
<1> SUFFICES ASSUME FInv, WriteReport PROVE FInv'
  OBVIOUS
<1> DEFINE n == Len(log)
           new == [status |-> last.status, path |-> log[n].path]
<1>1. /\ stage = "report" /\ stage' \in {"minimize", "end", "loop"}
      /\ UNCHANGED <<setup, session, last, log, verdicts>>
      /\ disk' = ReportWith(disk, last.status, log[n].path)
  BY DEF WriteReport, session_state, svars
<1>2. /\ IsDisk(disk') /\ disk'.traces = disk.traces /\ disk'.crashes = disk.crashes
      /\ disk'.reports = Put(disk.reports, session, new)
  <2>1. IsDisk(disk)
    BY DEF FInv, FTyped
  <2>2. QED BY <1>1, <2>1 DEF ReportWith, IsDisk
<1>3. /\ DOMAIN disk'.reports = DOMAIN disk.reports \cup {session}
      /\ disk'.reports[session] = new
      /\ \A s \in DOMAIN disk.reports \ {session} : disk'.reports[s] = disk.reports[s]
  BY <1>2 DEF Put
<1>4. n \in DOMAIN log /\ Mine(n) /\ log[n].run = last
  <2>1. Len(log) \in Nat /\ DOMAIN log = 1..Len(log) /\ log # <<>>
    BY <1>1, IsSeqFacts DEF FInv, FTyped, LastInv
  <2>2. Len(log) # 0
    BY <2>1, EmptySeq DEF FInv, FTyped, IsSeq
  <2>3. QED BY <1>1, <2>1, <2>2 DEF FInv, LastInv
<1> HIDE DEF n
<1>5. log[n].path # Nothing /\ last.status # "pass"
  BY <1>1, <1>4 DEF FInv, PathlessInv, Pending, CrashInv
<1>6. /\ log[n].path \in Exists /\ disk.traces[log[n].path].status = last.status
  <2>1. ~ Replaced(log[n].session)
    <3>1. session \in Nat
      BY DEF FInv, FTyped
    <3>2. QED BY <1>4, <3>1 DEF Replaced, Mine
  <2>2. QED BY <1>4, <1>5, <2>1 DEF FInv, KeptInv
<1>7. new.status = last.status /\ new.path = log[n].path
  OBVIOUS
<1> HIDE DEF new
<1>8. Exists' = Exists
  BY <1>2 DEF Exists
<1>9. FTyped'
  <2>1. session \in 1..session
    BY DEF FInv, FTyped
  <2>2. DOMAIN disk'.reports \subseteq 1..session'
    BY <1>1, <1>3, <2>1 DEF FInv, FTyped
  <2>3. QED BY <1>1, <1>2, <1>8, <2>2 DEF FInv, FTyped, Stages
<1>10. SessionsInv' /\ CrashInv' /\ PathlessInv'
  BY <1>1 DEF FInv, SessionsInv, CrashInv, Fails, PathlessInv, Mine, Pending
<1>11. LastInv'
  <2>1. \E i \in DOMAIN log : Mine(i)
    BY <1>4
  <2>2. QED BY <1>1, <2>1 DEF LastInv, Pending, Mine
<1>12. KeptInv' /\ TornInv'
  <2>1. \A i \in DOMAIN log : log[i].path # Nothing => Whole(log[i])' \/ CutBefore(i)'
    BY <1>1, <1>2, InputStays DEF CrashesStay, FInv, KeptInv
  <2>2. KeptInv'
    BY <1>1, <1>2, <1>8, <2>1 DEF FInv, KeptInv, Replaced
  <2>3. QED BY <1>1, <1>2, <2>2 DEF FInv, TornInv, TornFiles, Mine
<1>13. NumberedInv'
  <2>1. Settled' = Settled /\ \A k : Numbered(k)' = Numbered(k)
    BY <1>1, SameCrashes DEF Settled, Pending, Numbered, Base
  <2>2. QED BY <1>1, <2>1 DEF FInv, NumberedInv, Mine
<1>14. ReportsInv'
  <2> SUFFICES ASSUME NEW s \in DOMAIN disk'.reports
               PROVE  LET r == disk'.reports[s]
                      IN  /\ r.path # Nothing /\ ~ Replaced(s) =>
                               /\ r.path \in Exists
                               /\ disk.traces[r.path].status = "pass" <=> r.status = "pass"
                          /\ r.status = "pass" => \A i \in DOMAIN log : log[i].session # s
                          /\ s = session =>
                               /\ r.status # "pass" /\ r.path # Nothing
                               /\ \E i \in DOMAIN log : Mine(i) /\ log[i].path = r.path
    BY <1>1, <1>2, <1>8 DEF ReportsInv, Replaced, Mine
  <2>2. CASE s = session
    BY <1>3, <1>4, <1>5, <1>6, <1>7, <2>2
  <2>3. CASE s # session
    BY <1>3, <2>3 DEF FInv, ReportsInv
  <2>4. QED BY <2>2, <2>3
<1>15. QED BY <1>9, <1>10, <1>11, <1>12, <1>13, <1>14 DEF FInv

LEMMA FinishHolds == FInv /\ Finish => FInv'
<1> SUFFICES ASSUME FInv, Finish PROVE FInv'
  OBVIOUS
<1>1. /\ stage = "end" /\ stage' = "stopped"
      /\ UNCHANGED <<setup, session, last, log, verdicts>>
  BY DEF Finish, session_state, svars
<1>2. IsDisk(disk) /\ session \in Nat \ {0} /\ IsSeq(log)
  BY DEF FInv, FTyped
<1>3. session \in 1..session /\ ~ Replaced(session)
  BY <1>2 DEF Replaced
<1>4. Crashes \in Nat /\ (Crashes = 0 <=> \A i \in DOMAIN log : ~ Mine(i))
  BY <1>2, CrashesFacts
<1>5. CASE /\ Crashes > 0 \/ ~ setup.record
           /\ disk' = ReportWith(disk, IF Crashes = 0 THEN "pass" ELSE "fail", LastPath)
  <2> DEFINE new == [status |-> IF Crashes = 0 THEN "pass" ELSE "fail", path |-> LastPath]
  <2>1. /\ IsDisk(disk') /\ disk'.traces = disk.traces /\ disk'.crashes = disk.crashes
        /\ disk'.reports = Put(disk.reports, session, new)
    BY <1>2, <1>5 DEF ReportWith, IsDisk
  <2>2. new.status = (IF Crashes = 0 THEN "pass" ELSE "fail") /\ new.path = LastPath
    OBVIOUS
  <2> HIDE DEF new
  <2>3. /\ DOMAIN disk'.reports = DOMAIN disk.reports \cup {session}
        /\ disk'.reports[session] = new
        /\ \A s \in DOMAIN disk.reports \ {session} : disk'.reports[s] = disk.reports[s]
    BY <2>1 DEF Put
  <2>4. Exists' = Exists
    BY <2>1 DEF Exists
  <2>5. FTyped'
    <3>1. DOMAIN disk'.reports \subseteq 1..session'
      BY <1>1, <1>3, <2>3 DEF FInv, FTyped
    <3>2. QED BY <1>1, <2>1, <2>4, <3>1 DEF FInv, FTyped, Stages
  <2>6. SessionsInv' /\ CrashInv' /\ PathlessInv' /\ LastInv' /\ NumberedInv'
    BY <1>1 DEF FInv, SessionsInv, CrashInv, Fails, PathlessInv, Mine, LastInv, Pending,
                NumberedInv
  <2>7. KeptInv' /\ TornInv'
    <3>1. \A i \in DOMAIN log : log[i].path # Nothing => Whole(log[i])' \/ CutBefore(i)'
      BY <1>1, <2>1, InputStays DEF CrashesStay, FInv, KeptInv
    <3>2. KeptInv'
      BY <1>1, <2>1, <2>4, <3>1 DEF FInv, KeptInv, Replaced
    <3>3. QED BY <1>1, <2>1, <3>2 DEF FInv, TornInv, TornFiles, Mine
  <2>8. /\ new.path # Nothing =>
             /\ new.path \in Exists
             /\ disk.traces[new.path].status = "pass" <=> new.status = "pass"
        /\ new.status = "pass" => \A i \in DOMAIN log : log[i].session # session
    <3>1. CASE Crashes = 0
      BY <1>4, <2>2, <3>1 DEF LastPath, Mine
    <3>2. CASE Crashes # 0
      <4>1. Len(log) \in DOMAIN log /\ Mine(Len(log))
        BY <1>4, <3>2, LastIsMine
      <4>2. new.status = "fail" /\ new.path = log[Len(log)].path
        BY <2>2, <3>2 DEF LastPath
      <4>3. ~ Replaced(log[Len(log)].session)
        BY <1>3, <4>1 DEF Mine
      <4>4. QED BY <4>1, <4>2, <4>3 DEF FInv, KeptInv, CrashInv
    <3>3. QED BY <3>1, <3>2
  <2>9. ReportsInv'
    <3> SUFFICES ASSUME NEW s \in DOMAIN disk'.reports
                 PROVE  LET r == disk'.reports[s]
                        IN  /\ r.path # Nothing /\ ~ Replaced(s) =>
                                 /\ r.path \in Exists
                                 /\ disk.traces[r.path].status = "pass" <=> r.status = "pass"
                            /\ r.status = "pass" => \A i \in DOMAIN log : log[i].session # s
      BY <1>1, <2>1, <2>4 DEF ReportsInv, Replaced
    <3>1. CASE s = session
      BY <2>3, <2>8, <3>1
    <3>2. CASE s # session
      BY <2>3, <3>2 DEF FInv, ReportsInv
    <3>3. QED BY <3>1, <3>2
  <2>10. QED BY <2>5, <2>6, <2>7, <2>9 DEF FInv
<1>6. ASSUME Crashes = 0, NEW p \in Target(Base),
             disk' = [ReportWith(disk, "pass", p) EXCEPT
                        !.traces = Put(@, p, TraceOf(Recorded)), !.locks = @ \ {p}]
      PROVE  FInv'
  <2> DEFINE new == [status |-> "pass", path |-> p]
  <2>1. /\ IsDisk(disk') /\ disk'.crashes = disk.crashes
        /\ disk'.traces = Put(disk.traces, p, TraceOf(Recorded))
        /\ disk'.reports = Put(disk.reports, session, new)
    BY <1>2, <1>6 DEF ReportWith, IsDisk
  <2>2. new.status = "pass" /\ new.path = p
    OBVIOUS
  <2> HIDE DEF new
  <2>3. /\ DOMAIN disk'.reports = DOMAIN disk.reports \cup {session}
        /\ disk'.reports[session] = new
        /\ \A s \in DOMAIN disk.reports \ {session} : disk'.reports[s] = disk.reports[s]
    BY <2>1 DEF Put
  <2>4. \A i \in DOMAIN log : ~ Mine(i)
    BY <1>4, <1>6
  <2>5. /\ p \in Paths
        /\ \A i \in DOMAIN log : log[i].path # Nothing /\ ~ Replaced(log[i].session) =>
             log[i].path \in Exists /\ log[i].path # p
        /\ \A s \in DOMAIN disk.reports :
             disk.reports[s].path # Nothing /\ ~ Replaced(s) =>
               disk.reports[s].path \in Exists /\ disk.reports[s].path # p
    <3>1. Base \in Paths
      BY <1>2, BaseFacts
    <3>2. QED BY <1>1, <2>4, <3>1, FreshPath
  <2>6. /\ p \in Exists' /\ disk'.traces[p] = TraceOf(Recorded)
        /\ \A e \in Exists \ {p} : e \in Exists' /\ disk'.traces[e] = disk.traces[e]
    BY <2>1, <2>5, LastIsNat, TracesPut DEF FInv
  <2>7. disk'.traces[p].status = "pass"
    <3>1. Recorded.status = "pass"
      BY <1>1, <2>4 DEF Recorded, NoRun, FInv, LastInv
    <3>2. QED BY <2>6, <3>1 DEF TraceOf
  <2>8. ReportsInv'
    <3> SUFFICES ASSUME NEW s \in DOMAIN disk'.reports
                 PROVE  LET r == disk'.reports[s]
                        IN  /\ r.path # Nothing /\ ~ Replaced(s) =>
                                 /\ r.path \in Exists'
                                 /\ disk'.traces[r.path].status = "pass" <=> r.status = "pass"
                            /\ r.status = "pass" => \A i \in DOMAIN log : log[i].session # s
      BY <1>1 DEF ReportsInv, Replaced
    <3>1. CASE s = session
      BY <2>2, <2>3, <2>4, <2>6, <2>7, <3>1 DEF Mine
    <3>2. CASE s # session
      BY <2>3, <2>5, <2>6, <3>2 DEF FInv, ReportsInv
    <3>3. QED BY <3>1, <3>2
  <2>9. DOMAIN disk'.reports \subseteq 1..session
    BY <1>3, <2>3 DEF FInv, FTyped
  <2>10. QED BY <1>1, <2>1, <2>5, <2>8, <2>9, StopWithTrace
<1>7. QED BY <1>5, <1>6 DEF Finish

-----------------------------------------------------------------------------
LEMMA FInvHolds == FInv /\ [FNext]_fvars => FInv'
<1> SUFFICES ASSUME FInv, [FNext]_fvars PROVE FInv'
  OBVIOUS
<1>1. CASE WriteTraceFails \/ MinimizeFails \/ EndLoop \/ FinishFails
  BY <1>1, StageStep DEF WriteTraceFails, MinimizeFails, EndLoop, FinishFails, svars,
     session_state, VerdictsGrow
<1>2. CASE Minimize
  BY <1>2, LoopGrows, StageStep DEF Minimize, session_state
<1>3. CASE UNCHANGED fvars
  BY SMTT(30), <1>3 DEF fvars, svars, session_state, FInv, FTyped, SessionsInv, PathlessInv, LastInv,
     CrashInv, TornInv, TornFiles, KeptInv, Whole, CutBefore, NumberedInv, ReportsInv,
     Exists, Mine, Pending, Fails, Replaced, Settled, Crashes, Numbered, Base
<1>4. QED
  BY <1>1, <1>2, <1>3, ExecuteHolds, CoverHolds, KeepInputHolds, WriteTraceHolds,
     WriteReportHolds, KeepMinHolds, FinishHolds, ShrinkAloneHolds, KillHolds, AgainHolds
     DEF FNext, FuzzStep

(***************************************************************************)
(* A crash survives its session, and a report tells the truth, for any     *)
(* corpus, any options and any number of sessions, whenever they are       *)
(* killed (run.rs, and the targets of tracefile.rs).                       *)
(***************************************************************************)
THEOREM CrashesSurvive == FSpec => []FuzzKeepsCrashes
<1>1. QED BY FInitHolds, FInvHolds, KeepsCrashes, PTL DEF FSpec

-----------------------------------------------------------------------------
(* The minimization inside a session: its job is the input of a crash, and *)
(* what the loop ran, in other minimizations too, is never forgotten.      *)
HoldBytes(files) == \A b \in DOMAIN files : files[b] \in Seq(Bytes)

MinimizingInv ==
  /\ IInv
  /\ setup \in Setups
  /\ corpus \subseteq Seq(Bytes) /\ HoldBytes(disk.inputs)
  /\ stage \in {"cover", "input", "trace", "report"} =>
       last.input \in Seq(Bytes) /\ last.status \in Statuses
  /\ stage # "none" => job.kind = "input" /\ at \in {"idle", "pass", "trial", "ended"}
  /\ stage \notin {"none", "minimize"} => at = "idle"
  /\ IsDisk(disk)

LEMMA PieceIsSeq ==
  ASSUME NEW S, NEW s \in Seq(S), NEW i \in Nat \ {0}, NEW j \in Nat, j <= Len(s)
  PROVE  SubSeq(s, i, j) \in Seq(S)
<1>1. \A k \in i..j : s[k] \in S
  BY LenProperties
<1>2. QED BY <1>1, SubSeqProperties

LEMMA MutationsAreSeqs ==
  ASSUME NEW b \in Seq(Bytes)
  PROVE  Mutations(b) \subseteq Seq(Bytes)
<1>1. Len(b) \in Nat /\ Range1(b) = 1..Len(b)
  BY LenProperties DEF Range1
<1>2. ASSUME NEW i \in Range1(b), NEW x \in Bytes PROVE [b EXCEPT ![i] = x] \in Seq(Bytes)
  BY <1>1, ExceptSeq
<1>3. ASSUME NEW x \in Bytes PROVE <<x>> \in Seq(Bytes)
  OBVIOUS
<1>4. ASSUME NEW i \in 1..(Len(b) + 1), NEW x \in Bytes PROVE InsertAt(b, i, x) \in Seq(Bytes)
  <2>1. SubSeq(b, 1, i - 1) \in Seq(Bytes) /\ SubSeq(b, i, Len(b)) \in Seq(Bytes)
    <3>1. i - 1 \in Nat /\ i - 1 <= Len(b) /\ i \in Nat \ {0} /\ Len(b) <= Len(b)
      BY <1>1
    <3>2. QED BY <1>1, <3>1, PieceIsSeq
  <2>2. SubSeq(b, 1, i - 1) \o <<x>> \in Seq(Bytes)
    BY <1>3, <2>1, ConcatProperties
  <2>3. QED BY <2>1, <2>2, ConcatProperties DEF InsertAt
<1>5. ASSUME NEW i \in Range1(b) PROVE RemoveAt(b, i) \in Seq(Bytes)
  <2>1. SubSeq(b, 1, i - 1) \in Seq(Bytes) /\ SubSeq(b, i + 1, Len(b)) \in Seq(Bytes)
    <3>1. /\ i - 1 \in Nat /\ i - 1 <= Len(b) /\ i + 1 \in Nat \ {0} /\ Len(b) <= Len(b)
      BY <1>1
    <3>2. QED BY <1>1, <3>1, PieceIsSeq
  <2>2. QED BY <2>1, ConcatProperties DEF RemoveAt
<1> DEFINE changed  == {[b EXCEPT ![i] = x] : i \in Range1(b), x \in Bytes}
           inserted == {InsertAt(b, i, x) :
                          i \in {j \in 1..(Len(b) + 1) : Len(b) < setup.max}, x \in Bytes}
           removed  == {RemoveAt(b, i) : i \in Range1(b)}
           created  == IF b = <<>> THEN {<<x>> : x \in Bytes} ELSE {}
           kept     == IF b = <<>> \/ Len(b) >= setup.max THEN {b} ELSE {}
<1>6. changed \subseteq Seq(Bytes) /\ removed \subseteq Seq(Bytes)
  BY <1>2, <1>5
<1>7. inserted \subseteq Seq(Bytes)
  BY <1>4
<1>8. created \subseteq Seq(Bytes) /\ kept \subseteq Seq(Bytes)
  BY <1>3
<1>9. Mutations(b) = changed \cup inserted \cup removed \cup created \cup kept
  BY DEF Mutations
<1> HIDE DEF changed, inserted, removed, created, kept
<1>10. QED BY <1>6, <1>7, <1>8, <1>9

LEMMA LoadedAreSeqs ==
  ASSUME NEW d, HoldBytes(d.inputs)
  PROVE  Loaded(d) \subseteq Seq(Bytes)
<1>1. DefaultCorpus \subseteq Seq(Bytes)
  BY BytesAssumption DEF DefaultCorpus
<1>2. QED BY <1>1 DEF Loaded, HoldBytes

LEMMA PersistHoldsBytes ==
  ASSUME NEW f, HoldBytes(f), NEW b \in Seq(Bytes)
  PROVE  HoldBytes(Persist(f, b)) /\ HoldBytes(Tear(f, b))
<1>1. <<>> \in Seq(Bytes)
  BY EmptySeq
<1>2. QED BY <1>1 DEF HoldBytes, Persist, Tear, Put

LEMMA IdleIsAJob == Idle \in AnyJob
<1>1. <<>> \in Seq(Items) /\ "pass" \in Statuses
  BY EmptySeq, StatusesAssumption
<1>2. QED BY <1>1 DEF Idle, AnyJob

LEMMA MinimizingInit == FInit => MinimizingInv
<1> SUFFICES ASSUME FInit PROVE MinimizingInv
  OBVIOUS
<1>1. setup \in Setups /\ setup.corpus \subseteq Seq(Bytes)
  <2>1. setup \in Setups
    BY SetupsAssumption DEF FInit
  <2>2. setup \in SetupRecords
    BY <2>1, SetupFacts
  <2>3. QED BY <2>1, <2>2 DEF SetupRecords
<1>2. disk.inputs = [b \in setup.corpus |-> b] /\ corpus = Loaded(disk) /\ IsDisk(disk)
  BY DEF FInit, IsDisk
<1>3. corpus \subseteq Seq(Bytes) /\ HoldBytes(disk.inputs)
  <2>1. HoldBytes(disk.inputs)
    BY <1>1, <1>2 DEF HoldBytes
  <2>2. QED BY <1>2, <2>1, LoadedAreSeqs
<1>4. CASE stage = "none" /\ ShrinkInit
  BY <1>1, <1>2, <1>3, <1>4, InitHolds DEF MinimizingInv
<1>5. CASE /\ stage = "loop"
           /\ verdicts = <<>>
           /\ job = Idle /\ candidate = <<>> /\ chunk = 1 /\ index = 0 /\ improved = FALSE
           /\ at = "idle" /\ best = Nothing /\ decisions = <<>>
           /\ expired = FALSE /\ slow = FALSE /\ out = Nothing
  <2>1. Typed
    <3>1. job \in AnyJob /\ job.kind = "input"
      BY <1>5, IdleIsAJob DEF Idle
    <3>2. candidate \in Seq(Items)
      BY <1>5, EmptySeq
    <3>3. index \in Nat /\ chunk \in Nat \ {0} /\ improved \in BOOLEAN
      <4>1. index = 0 /\ chunk = 1
        BY <1>5
      <4>2. index \in Nat /\ chunk \in Nat \ {0}
        BY <4>1
      <4>3. improved \in BOOLEAN
        BY <1>5
      <4>4. QED BY <4>2, <4>3
    <3>4. QED BY <3>1, <3>2, <3>3 DEF Typed
  <2>2. IInv
    BY <1>5, <2>1 DEF IInv, NeededSoFar, BestIsKept, NotWritten, ShrunkIsMinimal,
       ShrunkIsKept, ShrunkIsWritten, Idle
  <2>3. QED BY <1>1, <1>2, <1>3, <1>5, <2>2 DEF MinimizingInv, Idle
<1>6. QED BY <1>4, <1>5 DEF FInit

(* Between minimizations a run of the target, or nothing, is what a step   *)
(* means to them.                                                          *)
LEMMA IdleKeeps ==
  ASSUME MinimizingInv, stage # "none", VerdictsGrow, at' = "idle",
         UNCHANGED <<job, candidate, chunk, index, improved, best, decisions, expired, slow, out>>
  PROVE  IInv'
<1>1. job.kind = "input" /\ at \in {"idle", "pass", "trial", "ended"} /\ out = Nothing
  BY DEF MinimizingInv, IInv, NotWritten
<1>2. Typed'
  BY DEF MinimizingInv, IInv, Typed
<1>3. ShrunkIsKept'
  BY DEF MinimizingInv, IInv, ShrunkIsKept, VerdictsGrow, Keeps, Same
<1>4. QED
  BY <1>1, <1>2, <1>3 DEF IInv, NeededSoFar, BestIsKept, NotWritten, ShrunkIsMinimal,
     ShrunkIsWritten

LEMMA MinimizingHolds == MinimizingInv /\ [FNext]_fvars => MinimizingInv'
<1> SUFFICES ASSUME MinimizingInv, [FNext]_fvars PROVE MinimizingInv'
  OBVIOUS
<1> USE DEF svars, loop, session_state
<1>1. CASE Execute
  <2>1. PICK base \in corpus : \E input \in Mutations(base) :
          \E v \in Verdicts, refused \in MayRefuse :
            /\ Runs(input, v)
            /\ last' = [input |-> input, refused |-> refused,
                        status |-> IF refused THEN "fail" ELSE v.status,
                        covers |-> Coverage(input, v.status)]
    BY <1>1, ZenonT(30) DEF Execute
  <2>2. PICK input \in Mutations(base) :
          \E v \in Verdicts, refused \in MayRefuse :
            /\ Runs(input, v)
            /\ last' = [input |-> input, refused |-> refused,
                        status |-> IF refused THEN "fail" ELSE v.status,
                        covers |-> Coverage(input, v.status)]
    BY <2>1
  <2>3. PICK v \in Verdicts, refused \in MayRefuse :
          /\ Runs(input, v)
          /\ last' = [input |-> input, refused |-> refused,
                      status |-> IF refused THEN "fail" ELSE v.status,
                      covers |-> Coverage(input, v.status)]
    BY <2>2
  <2>4. input \in Seq(Bytes)
    BY MutationsAreSeqs DEF MinimizingInv
  <2>5. last'.input \in Seq(Bytes) /\ last'.status \in Statuses
    BY <2>3, <2>4, StatusesAssumption DEF Verdicts
  <2>6. VerdictsGrow
    BY <2>3, RunsRemember DEF VerdictsGrow
  <2>7. /\ stage = "loop" /\ stage' = "cover" /\ at' = at
        /\ UNCHANGED <<job, candidate, chunk, index, improved, best, decisions, expired, slow,
                       out, setup, corpus, disk>>
    BY <1>1 DEF Execute
  <2>8. at = "idle"
    BY <2>7 DEF MinimizingInv
  <2>9. IInv'
    BY <2>6, <2>7, <2>8, IdleKeeps
  <2>10. QED BY <2>5, <2>7, <2>8, <2>9 DEF MinimizingInv
<1>2. CASE Cover
  <2>1. /\ stage = "cover" /\ stage' \in {"input", "loop"} /\ UNCHANGED <<svars, setup, last>>
    BY <1>2 DEF Cover
  <2>2. /\ corpus' \subseteq corpus \cup {last.input}
        /\ disk' \in {disk, [disk EXCEPT !.inputs = Persist(@, last.input)]}
    BY <1>2 DEF Cover
  <2>3. IsDisk(disk') /\ HoldBytes(disk'.inputs)
    <3>1. IsDisk(disk') /\ disk'.inputs \in {disk.inputs, Persist(disk.inputs, last.input)}
      BY <2>2 DEF MinimizingInv, IsDisk
    <3>2. QED BY <2>1, <3>1, PersistHoldsBytes DEF MinimizingInv
  <2>4. IInv'
    BY <2>1, StutterHolds DEF MinimizingInv
  <2>5. QED BY <2>1, <2>2, <2>3, <2>4 DEF MinimizingInv
<1>3. CASE KeepInput \/ WriteTrace
  <2>1. /\ stage \in {"input", "trace"} /\ stage' \in {"trace", "report"}
        /\ UNCHANGED <<svars, setup, corpus, last>>
    BY <1>3 DEF KeepInput, WriteTrace
  <2>2. IsDisk(disk') /\ disk'.inputs = disk.inputs
    BY <1>3 DEF KeepInput, WriteTrace, Written, MinimizingInv, IsDisk
  <2>3. IInv'
    BY <2>1, StutterHolds DEF MinimizingInv
  <2>4. QED BY <2>1, <2>2, <2>3 DEF MinimizingInv
<1>12. CASE MinimizeFails
  <2>1. /\ stage = "minimize" /\ stage' = "stopped" /\ at' = "idle"
        /\ UNCHANGED <<job, verdicts, candidate, chunk, index, improved, best, decisions,
                       expired, slow, out, setup, corpus, last, disk>>
    BY <1>12 DEF MinimizeFails
  <2>2. VerdictsGrow
    BY <2>1 DEF VerdictsGrow
  <2>3. IInv'
    BY <2>1, <2>2, IdleKeeps
  <2>4. QED BY <2>1, <2>3 DEF MinimizingInv
<1>4. CASE WriteTraceFails \/ EndLoop \/ FinishFails \/ Finish
  <2>1. /\ stage \notin {"none", "minimize"} /\ stage' \in {"end", "stopped"}
        /\ UNCHANGED <<svars, setup, corpus, last>>
    BY <1>4 DEF WriteTraceFails, EndLoop, FinishFails, Finish
  <2>2. IsDisk(disk') /\ disk'.inputs = disk.inputs
    <3>1. CASE UNCHANGED disk
      BY <3>1 DEF MinimizingInv
    <3>2. CASE Finish
      BY <3>2 DEF Finish, ReportWith, MinimizingInv, IsDisk
    <3>3. QED BY <1>4, <3>1, <3>2 DEF WriteTraceFails, EndLoop, FinishFails
  <2>3. IInv'
    BY <2>1, StutterHolds DEF MinimizingInv
  <2>4. QED BY <2>1, <2>2, <2>3 DEF MinimizingInv
<1>5. CASE WriteReport
  <2>1. stage = "report" /\ UNCHANGED <<setup, corpus, last>>
    BY <1>5 DEF WriteReport
  <2>2. IsDisk(disk') /\ disk'.inputs = disk.inputs
    BY <1>5 DEF WriteReport, ReportWith, MinimizingInv, IsDisk
  <2>3. CASE ~ setup.minimize
    <3>1. UNCHANGED svars /\ stage' \in {"end", "loop"}
      BY <1>5, <2>3 DEF WriteReport
    <3>2. IInv'
      BY <3>1, StutterHolds DEF MinimizingInv
    <3>3. QED BY <2>1, <2>2, <3>1, <3>2 DEF MinimizingInv
  <2>4. CASE setup.minimize
    <3>1. /\ stage' = "minimize" /\ at' = "pass"
          /\ job' = [Idle EXCEPT !.items = last.input, !.status = last.status, !.max = setup.max]
          /\ candidate' = last.input /\ chunk' = FirstChunk(last.input)
          /\ UNCHANGED <<verdicts, index, improved, best, decisions, expired, slow, out>>
      BY <1>5, <2>4 DEF WriteReport
    <3>2. last.input \in Seq(Items) /\ last.status \in Statuses /\ setup.max \in Nat
      <4>1. last.input \in Seq(Bytes) /\ last.status \in Statuses /\ setup \in SetupRecords
        BY <2>1, SetupFacts DEF MinimizingInv
      <4>2. last.input \in Seq(Items)
        BY <4>1, BytesAssumption, SeqMonotonic
      <4>3. QED BY <4>1, <4>2 DEF SetupRecords
    <3>3. /\ job'.kind = "input" /\ job'.items = last.input /\ job' \in AnyJob
      <4>1. job' = [kind |-> "input", items |-> last.input, status |-> last.status,
                    max |-> setup.max, fixed |-> {}, judged |-> FALSE, timed |-> FALSE,
                    all |-> FALSE, script |-> <<>>]
        BY <3>1 DEF Idle
      <4>2. <<>> \in Seq(Items)
        BY EmptySeq
      <4>3. QED BY <3>2, <4>1, <4>2 DEF AnyJob
    <3>4. Typed'
      BY <3>1, <3>2, <3>3, FirstChunkIsPositive DEF Typed, MinimizingInv, IInv
    <3>5. out = Nothing
      BY <2>1 DEF MinimizingInv, IInv, NotWritten
    <3>6. IInv'
      BY <3>1, <3>3, <3>4, <3>5 DEF IInv, NeededSoFar, BestIsKept, NotWritten,
         ShrunkIsMinimal, ShrunkIsKept, ShrunkIsWritten
    <3>7. QED BY <2>1, <2>2, <3>1, <3>3, <3>6 DEF MinimizingInv
  <2>5. QED BY <2>3, <2>4
<1>6. CASE Minimize
  <2>1. stage = "minimize" /\ Loop /\ UNCHANGED <<setup, stage, corpus, last, disk>>
    BY <1>6 DEF Minimize
  <2>2. IInv'
    BY <2>1, IInvHolds DEF MinimizingInv, ShrinkNext
  <2>3. job' = job /\ at' \in {at, "trial", "ended", "pass"}
    BY <2>1 DEF Loop, StartPass, Skip, Try, EndPass, NextChunk, Accept, Reject
  <2>4. QED BY <2>1, <2>2, <2>3 DEF MinimizingInv
<1>7. CASE KeepMin \/ Kill
  <2>1. /\ stage # "none" /\ stage' \in {"loop", "end", "stopped"} /\ at' = "idle"
        /\ UNCHANGED <<job, verdicts, candidate, chunk, index, improved, best, decisions,
                       expired, slow, out, setup, corpus, last>>
    BY <1>7 DEF KeepMin, Kill
  <2>2. VerdictsGrow
    BY <2>1 DEF VerdictsGrow
  <2>3. IInv'
    BY <2>1, <2>2, IdleKeeps
  <2>4. IsDisk(disk') /\ HoldBytes(disk'.inputs)
    <3>1. CASE KeepMin
      BY <3>1 DEF KeepMin, MinimizingInv, IsDisk
    <3>2. CASE Kill
      <4>1. CASE /\ stage = "cover"
                 /\ disk' = [disk EXCEPT !.inputs = Tear(@, last.input)]
        <5>1. IsDisk(disk') /\ disk'.inputs = Tear(disk.inputs, last.input)
          BY <4>1 DEF MinimizingInv, IsDisk
        <5>2. QED BY <4>1, <5>1, PersistHoldsBytes DEF MinimizingInv
      <4>2. CASE \/ disk' = [disk EXCEPT !.crashes = Tear(@, last.input)]
                 \/ disk' = [disk EXCEPT !.mins = Tear(@, candidate)]
        BY <4>2 DEF MinimizingInv, IsDisk
      <4>3. ASSUME NEW p \in Target(CrashPath) \ disk.locks, NEW written \in BOOLEAN,
                   disk' = [disk EXCEPT !.locks = @ \cup {p},
                              !.traces = IF written THEN Put(@, p, TraceOf(last)) ELSE @]
            PROVE  IsDisk(disk') /\ HoldBytes(disk'.inputs)
        BY <4>3 DEF MinimizingInv, IsDisk
      <4>4. CASE UNCHANGED disk
        BY <4>4 DEF MinimizingInv
      <4>5. QED BY <3>2, <4>1, <4>2, <4>3, <4>4 DEF Kill
    <3>3. QED BY <1>7, <3>1, <3>2
  <2>5. job'.kind = "input"
    BY <2>1 DEF MinimizingInv
  <2>6. QED BY <2>1, <2>3, <2>4, <2>5 DEF MinimizingInv
<1>8. CASE Again
  <2>1. stage = "stopped" /\ stage' = "loop" /\ UNCHANGED <<svars, setup, disk>>
        /\ corpus' = Loaded(disk)
    BY <1>8 DEF Again
  <2>2. IInv'
    BY <2>1, StutterHolds DEF MinimizingInv
  <2>3. corpus' \subseteq Seq(Bytes)
    BY <2>1, LoadedAreSeqs DEF MinimizingInv
  <2>4. QED BY <2>1, <2>2, <2>3 DEF MinimizingInv
<1>9. CASE ShrinkAlone
  <2>1. stage = "none" /\ ShrinkNext /\ UNCHANGED <<setup, stage, corpus, last, disk>>
    BY <1>9 DEF ShrinkAlone
  <2>2. IInv'
    BY <2>1, IInvHolds DEF MinimizingInv
  <2>3. QED BY <2>1, <2>2 DEF MinimizingInv
<1>10. CASE UNCHANGED fvars
  <2>1. IInv'
    BY <1>10, StutterHolds DEF MinimizingInv, fvars
  <2>2. QED BY <1>10, <2>1 DEF MinimizingInv, fvars
<1>11. QED
  BY <1>1, <1>2, <1>3, <1>4, <1>5, <1>6, <1>7, <1>8, <1>9, <1>10, <1>12 DEF FNext, FuzzStep

(***************************************************************************)
(* The minimizations of a session are as sound as `fozzy shrink`, and so   *)
(* is what a killed one leaves (minimize_input in util.rs, called from     *)
(* run.rs).                                                                *)
(***************************************************************************)
THEOREM MinimizingIsSound == FSpec => []ShrinkIsSound
<1>1. MinimizingInv => ShrinkIsSound
  BY DEF MinimizingInv, IInv, ShrinkIsSound
<1>2. QED BY MinimizingInit, MinimizingHolds, <1>1, PTL DEF FSpec

=============================================================================
