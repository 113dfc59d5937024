---------------------------- MODULE HostIoProofs ----------------------------
(***************************************************************************)
(* Proofs about HostIo, for any paths, contents, names and number of       *)
(* steps: to a scenario that has the working directory to itself the host  *)
(* backend is the virtual one.                                             *)
(***************************************************************************)
EXTENDS HostIo, WellFoundedInduction, TLAPS

USE RefusedAssumption, NoneAssumption, OptionAssumption

(* The files and the snapshots of both backends are of their types.        *)
FilesTyped ==
  /\ host \in BOOLEAN
  /\ meddled \in Nat
  /\ files \in [Paths -> Data \cup {None}]
  /\ disk \in [Paths -> Data \cup {None}]
  /\ snaps \in [Names -> [Paths -> Data \cup {None}] \cup {None}]
  /\ touched \subseteq Paths
  /\ saves \in [Names -> Kept \cup {None}]

(* A recording that has the directory to itself touched every file there.  *)
FilesAreTouched ==
  phase = "record" /\ host /\ meddled = 0
    => \A p \in Paths : disk[p] # None => p \in touched

IInv == FilesTyped /\ FilesAreTouched

(* What is in a snapshot of the host, and what it is not.                  *)
LEMMA KeptFacts ==
  ASSUME NEW e \in Kept
  PROVE  /\ DOMAIN e \subseteq Paths
         /\ \A p \in DOMAIN e : e[p] \in Data \cup {None}
         /\ e # None
         /\ Whole(e) \in [Paths -> Data \cup {None}]
         /\ Whole(e) # None
<1>1. PICK S \in SUBSET Paths : e \in [S -> Data \cup {None}]
  BY DEF Kept
<1>2. e # None
  OBVIOUS
<1>3. Whole(e) \in [Paths -> Data \cup {None}]
  BY <1>1 DEF Whole
<1>4. Whole(e) \in Kept
  BY <1>3 DEF Kept
<1>5. QED BY <1>1, <1>2, <1>3, <1>4

(* The fields of a step.                                                   *)
LEMMA StepFields ==
  ASSUME NEW s \in FileSteps
  PROVE  /\ s.op \in {"write", "read"} => s.path \in Paths /\ s.data \in Data
         /\ s.op \in {"snapshot", "restore"} => s.name \in Names
BY DEF FileSteps

LEMMA InitIInv == Init => IInv
<1> SUFFICES ASSUME Init PROVE IInv
  OBVIOUS
<1>1. disk \in [Paths -> Data \cup {None}]
  BY DEF Init, Empty
<1>2. files = Empty /\ snaps = [n \in Names |-> None] /\ touched = {}
      /\ saves = [n \in Names |-> None]
  BY DEF Init, Fresh
<1>3. meddled \in Nat /\ (meddled = 0 => disk = Empty)
  BY DEF Init
<1>4. host \in BOOLEAN
  BY DEF Init
<1>5. FilesTyped
  BY <1>1, <1>2, <1>3, <1>4 DEF FilesTyped, Empty
<1>6. FilesAreTouched
  BY <1>3 DEF FilesAreTouched, Empty
<1>7. QED BY <1>5, <1>6 DEF IInv

(* A step of the virtual backend leaves the host alone.                    *)
LEMMA VirtualIInv == IInv /\ Virtual => IInv'
<1> SUFFICES ASSUME IInv, Virtual PROVE IInv'
  OBVIOUS
<1>1. PICK s \in FileSteps :
        \/ s.op = "write" /\ VirtualWrite(s)
        \/ s.op = "read" /\ VirtualRead(s)
        \/ s.op = "snapshot" /\ VirtualSnapshot(s)
        \/ s.op = "restore" /\ VirtualRestore(s)
  BY DEF Virtual
<1>2. UNCHANGED <<disk, touched, saves, meddled, host, phase>>
  BY <1>1 DEF VirtualWrite, VirtualRead, VirtualSnapshot, VirtualRestore,
              Pass, Fail, Remember, root
<1>3. /\ files' \in [Paths -> Data \cup {None}]
      /\ snaps' \in [Names -> [Paths -> Data \cup {None}] \cup {None}]
  <2> USE DEF IInv, FilesTyped
  <2>1. CASE s.op = "write" /\ VirtualWrite(s)
    BY <2>1, StepFields DEF VirtualWrite
  <2>2. CASE s.op = "read" /\ VirtualRead(s)
    BY <2>2 DEF VirtualRead, mem
  <2>3. CASE s.op = "snapshot" /\ VirtualSnapshot(s)
    BY <2>3, StepFields DEF VirtualSnapshot
  <2>4. CASE s.op = "restore" /\ VirtualRestore(s)
    BY <2>4, StepFields DEF VirtualRestore
  <2>5. QED BY <1>1, <2>1, <2>2, <2>3, <2>4
<1>4. QED BY <1>2, <1>3 DEF IInv, FilesTyped, FilesAreTouched

(* What a step of the host backend does to the directory.                  *)
LEMMA HostCases ==
  ASSUME Host
  PROVE  /\ host /\ phase = "record"
         /\ UNCHANGED <<host, phase, meddled, files, snaps>>
         /\ \/ UNCHANGED <<disk, saves>> /\ touched \subseteq touched' /\ touched' \subseteq touched \cup Paths
            \/ \E p \in Paths, d \in Data :
                 /\ disk' = [disk EXCEPT ![p] = d]
                 /\ touched' = touched \cup {p}
                 /\ UNCHANGED saves
            \/ \E n \in Names :
                 /\ saves' = [saves EXCEPT ![n] = [p \in touched |-> disk[p]]]
                 /\ UNCHANGED <<disk, touched>>
            \/ \E n \in Names :
                 /\ saves[n] # None
                 /\ disk' = Restored(saves[n])
                 /\ touched' = DOMAIN saves[n]
                 /\ UNCHANGED saves
<1>1. PICK s \in FileSteps :
        \/ s.op = "write" /\ HostWrite(s)
        \/ s.op = "read" /\ HostRead(s)
        \/ s.op = "snapshot" /\ HostSnapshot(s)
        \/ s.op = "restore" /\ HostRestore(s)
  BY DEF Host
<1>2. host /\ phase = "record"
  BY DEF Host, OnHost
<1>3. CASE s.op = "write" /\ HostWrite(s)
  <2>1. s.path \in Paths /\ s.data \in Data
    BY <1>3, StepFields
  <2>2. UNCHANGED <<host, phase, meddled, files, snaps>>
    BY <1>3 DEF HostWrite, Pass, Fail, Remember, mem, root
  <2>3. \/ UNCHANGED <<disk, saves, touched>>
        \/ /\ disk' = [disk EXCEPT ![s.path] = s.data]
           /\ touched' = touched \cup {s.path}
           /\ UNCHANGED saves
    BY <1>3 DEF HostWrite, root
  <2>4. QED BY <1>2, <2>1, <2>2, <2>3
<1>4. CASE s.op = "read" /\ HostRead(s)
  <2>1. s.path \in Paths
    BY <1>4, StepFields
  <2>2. UNCHANGED <<host, phase, meddled, files, snaps>>
    BY <1>4 DEF HostRead, Pass, Fail, Remember, mem
  <2>3. UNCHANGED <<disk, saves>> /\ touched \subseteq touched' /\ touched' \subseteq touched \cup Paths
    BY <1>4, <2>1 DEF HostRead
  <2>4. QED BY <1>2, <2>2, <2>3
<1>5. CASE s.op = "snapshot" /\ HostSnapshot(s)
  <2>1. s.name \in Names
    BY <1>5, StepFields
  <2>2. UNCHANGED <<host, phase, meddled, files, snaps>>
    BY <1>5 DEF HostSnapshot, Pass, Remember, mem
  <2>3. /\ saves' = [saves EXCEPT ![s.name] = [p \in touched |-> disk[p]]]
        /\ UNCHANGED <<disk, touched>>
    BY <1>5 DEF HostSnapshot
  <2>4. QED BY <1>2, <2>1, <2>2, <2>3
<1>6. CASE s.op = "restore" /\ HostRestore(s)
  <2>1. s.name \in Names
    BY <1>6, StepFields
  <2>2. UNCHANGED <<host, phase, meddled, files, snaps>>
    BY <1>6 DEF HostRestore, Pass, Fail, Remember, mem, root
  <2>3. \/ UNCHANGED <<disk, saves, touched>>
        \/ /\ saves[s.name] # None
           /\ disk' = Restored(saves[s.name])
           /\ touched' = DOMAIN saves[s.name]
           /\ UNCHANGED saves
    BY <1>6 DEF HostRestore, root
  <2>4. QED BY <1>2, <2>1, <2>2, <2>3
<1>7. QED BY <1>1, <1>3, <1>4, <1>5, <1>6

(* The host backend keeps the types, and every file of a directory of its  *)
(* own among the touched ones.                                             *)
LEMMA HostIInv == IInv /\ Host => IInv'
<1> SUFFICES ASSUME IInv, Host PROVE IInv'
  OBVIOUS
<1> USE DEF IInv, FilesTyped
<1>1. UNCHANGED <<host, phase, meddled, files, snaps>>
  BY HostCases
<1>2. CASE UNCHANGED <<disk, saves>> /\ touched \subseteq touched' /\ touched' \subseteq touched \cup Paths
  BY <1>1, <1>2 DEF FilesAreTouched
<1>3. CASE \E p \in Paths, d \in Data :
             /\ disk' = [disk EXCEPT ![p] = d]
             /\ touched' = touched \cup {p}
             /\ UNCHANGED saves
  BY <1>1, <1>3 DEF FilesAreTouched
<1>4. CASE \E n \in Names :
             /\ saves' = [saves EXCEPT ![n] = [p \in touched |-> disk[p]]]
             /\ UNCHANGED <<disk, touched>>
  <2>1. [p \in touched |-> disk[p]] \in Kept
    BY DEF Kept
  <2>2. saves' \in [Names -> Kept \cup {None}]
    BY <1>4, <2>1
  <2>3. QED BY <1>1, <1>4, <2>2 DEF FilesAreTouched
<1>5. CASE \E n \in Names :
             /\ saves[n] # None
             /\ disk' = Restored(saves[n])
             /\ touched' = DOMAIN saves[n]
             /\ UNCHANGED saves
  <2>1. PICK n \in Names : /\ saves[n] # None
                           /\ disk' = Restored(saves[n])
                           /\ touched' = DOMAIN saves[n]
                           /\ UNCHANGED saves
    BY <1>5
  <2>2. saves[n] \in Kept
    BY <2>1
  <2>3. /\ DOMAIN saves[n] \subseteq Paths
        /\ \A p \in DOMAIN saves[n] : saves[n][p] \in Data \cup {None}
    BY <2>2, KeptFacts
  <2>4. disk' \in [Paths -> Data \cup {None}]
    BY <2>1, <2>3 DEF Restored
  <2>5. touched' \subseteq Paths
    BY <2>1, <2>3
  <2>6. ASSUME host, phase = "record", meddled = 0, NEW p \in Paths, disk'[p] # None
        PROVE  p \in touched'
    BY <2>1, <2>6 DEF Restored, FilesAreTouched
  <2>7. FilesAreTouched'
    BY <1>1, <2>6 DEF FilesAreTouched
  <2>8. QED BY <1>1, <2>1, <2>4, <2>5, <2>7
<1>6. QED BY <1>2, <1>3, <1>4, <1>5, HostCases

(* A replayed step and an http step leave both backends' files alone.      *)
LEMMA ReplayedLeavesFiles ==
  ASSUME Replayed
  PROVE  UNCHANGED <<mem, root, host, phase>>
<1>1. PICK s \in FileSteps :
        \/ s.op = "write" /\ ReplayedWrite(s)
        \/ s.op = "read" /\ ReplayedRead(s)
        \/ s.op = "snapshot" /\ ReplayedSnapshot(s)
        \/ s.op = "restore" /\ ReplayedRestore(s)
  BY DEF Replayed
<1>2. QED BY <1>1 DEF ReplayedWrite, ReplayedRead, ReplayedSnapshot,
                     ReplayedRestore, Pass, Fail, Remember

LEMMA WebLeavesFiles ==
  ASSUME Web
  PROVE  UNCHANGED <<mem, root, host, phase>>
<1>1. PICK s \in WebSteps :
        \/ When(s)
        \/ ScriptedRequest(s)
        \/ HostRequest(s)
        \/ ReplayedRequest(s)
  BY DEF Web
<1>2. CASE When(s)
  BY <1>2 DEF When, Pass, Fail, Remember
<1>3. CASE ScriptedRequest(s)
  BY <1>3 DEF ScriptedRequest, Answered, Pass, Fail, Remember
<1>4. CASE HostRequest(s)
  BY <1>4 DEF HostRequest, Answered, Pass, Fail, Remember
<1>5. CASE ReplayedRequest(s)
  BY <1>5 DEF ReplayedRequest, Answered, Pass, Fail, Remember
<1>6. QED BY <1>1, <1>2, <1>3, <1>4, <1>5

(* A write of another program ends the claim to the directory.             *)
LEMMA MeddleIInv ==
  ASSUME IInv, NEW p \in Paths, NEW d \in Data \cup {None}, Meddle(p, d)
  PROVE  IInv' /\ meddled' # 0
<1>1. /\ disk' = [disk EXCEPT ![p] = d]
      /\ meddled' = meddled + 1
      /\ UNCHANGED <<host, phase, files, snaps, touched, saves>>
  BY DEF Meddle, plan, mem
<1>2. meddled' \in Nat /\ meddled' # 0
  BY <1>1 DEF IInv, FilesTyped
<1>3. disk' \in [Paths -> Data \cup {None}]
  BY <1>1 DEF IInv, FilesTyped
<1>4. FilesAreTouched'
  BY <1>2 DEF FilesAreTouched
<1>5. QED BY <1>1, <1>2, <1>3, <1>4 DEF IInv, FilesTyped

LEMMA UnchangedIInv ==
  ASSUME IInv, UNCHANGED <<mem, root, host, phase>>
  PROVE  IInv'
BY DEF IInv, FilesTyped, FilesAreTouched, mem, root

LEMMA StartReplayIInv == IInv /\ StartReplay => IInv'
<1> SUFFICES ASSUME IInv, StartReplay PROVE IInv'
  OBVIOUS
<1>1. /\ files' = Empty /\ snaps' = [n \in Names |-> None]
      /\ touched' = {} /\ saves' = [n \in Names |-> None]
      /\ phase' = "replay"
      /\ UNCHANGED <<host, disk, meddled>>
  BY DEF StartReplay
<1>2. FilesAreTouched'
  BY <1>1 DEF FilesAreTouched
<1>3. QED BY <1>1, <1>2 DEF IInv, FilesTyped, Empty

LEMMA NextIInv == IInv /\ [Next]_vars => IInv'
<1> SUFFICES ASSUME IInv, [Next]_vars PROVE IInv'
  OBVIOUS
<1>1. CASE Virtual
  BY <1>1, VirtualIInv
<1>2. CASE Host
  BY <1>2, HostIInv
<1>3. CASE \E p \in Paths \ Refused, d \in Data \cup {None} : Meddle(p, d)
  BY <1>3, MeddleIInv
<1>4. CASE Replayed
  BY <1>4, ReplayedLeavesFiles, UnchangedIInv
<1>5. CASE Web
  BY <1>5, WebLeavesFiles, UnchangedIInv
<1>6. CASE EndRecording \/ EndReplay
  <2>1. UNCHANGED <<mem, root, host, phase>>
    BY <1>6 DEF EndRecording, EndReplay
  <2>2. QED BY <2>1, UnchangedIInv
<1>7. CASE StartReplay
  BY <1>7, StartReplayIInv
<1>8. CASE UNCHANGED vars
  <2>1. UNCHANGED <<mem, root, host, phase>>
    BY <1>8 DEF vars, plan
  <2>2. QED BY <2>1, UnchangedIInv
<1>9. QED BY <1>1, <1>2, <1>3, <1>4, <1>5, <1>6, <1>7, <1>8 DEF Next

(* A recording that has the working directory to itself touched every file *)
(* there, so that a snapshot of the touched files is one of all of them.   *)
THEOREM EveryFileIsTouched == Spec => []IInv
BY InitIInv, NextIInv, PTL DEF Spec

-----------------------------------------------------------------------------
(* The refinement, step by step.                                           *)

LEMMA VirtualRefines ==
  ASSUME IInv, Virtual, phase = "record"
  PROVE  V!Next \/ UNCHANGED <<Seen, SeenSnaps>>
<1>1. PICK s \in FileSteps :
        \/ s.op = "write" /\ VirtualWrite(s)
        \/ s.op = "read" /\ VirtualRead(s)
        \/ s.op = "snapshot" /\ VirtualSnapshot(s)
        \/ s.op = "restore" /\ VirtualRestore(s)
  BY DEF Virtual
<1>2. ~host
  BY DEF Virtual, Simulated, OnHost
<1>3. UNCHANGED host
  BY <1>1 DEF VirtualWrite, VirtualRead, VirtualSnapshot, VirtualRestore,
              Pass, Fail, Remember
<1>4. Seen = files /\ SeenSnaps = snaps /\ Seen' = files' /\ SeenSnaps' = snaps'
  BY <1>2, <1>3 DEF Seen, SeenSnaps
<1>5. CASE s.op = "write" /\ VirtualWrite(s)
  <2>1. V!Write(s.path, s.data)
    BY <1>4, <1>5 DEF VirtualWrite, V!Write
  <2>2. QED BY <1>5, <2>1, StepFields DEF V!Next
<1>6. CASE s.op = "read" /\ VirtualRead(s)
  BY <1>4, <1>6 DEF VirtualRead, mem
<1>7. CASE s.op = "snapshot" /\ VirtualSnapshot(s)
  <2>1. V!Snapshot(s.name)
    BY <1>4, <1>7 DEF VirtualSnapshot, V!Snapshot
  <2>2. QED BY <1>7, <2>1, StepFields DEF V!Next
<1>8. CASE s.op = "restore" /\ VirtualRestore(s)
  <2>1. V!Restore(s.name) \/ UNCHANGED <<Seen, SeenSnaps>>
    BY <1>4, <1>8 DEF VirtualRestore, V!Restore
  <2>2. QED BY <1>8, <2>1, StepFields DEF V!Next
<1>9. QED BY <1>1, <1>5, <1>6, <1>7, <1>8

LEMMA HostRefines ==
  ASSUME IInv, Host, meddled' = 0
  PROVE  V!Next \/ UNCHANGED <<Seen, SeenSnaps>>
<1> USE DEF IInv, FilesTyped
<1>1. host /\ host' /\ phase = "record" /\ meddled = 0
  BY HostCases
<1>2. Seen = disk /\ Seen' = disk'
  BY <1>1 DEF Seen
<1>3. /\ SeenSnaps = [n \in Names |-> IF saves[n] = None THEN None ELSE Whole(saves[n])]
      /\ SeenSnaps' = [n \in Names |-> IF saves'[n] = None THEN None ELSE Whole(saves'[n])]
  BY <1>1 DEF SeenSnaps, Whole
<1>4. \A p \in Paths : p \notin touched => disk[p] = None
  BY <1>1 DEF FilesAreTouched
<1>5. CASE UNCHANGED <<disk, saves>>
  BY <1>2, <1>3, <1>5
<1>6. ASSUME NEW p \in Paths, NEW d \in Data,
             disk' = [disk EXCEPT ![p] = d], UNCHANGED saves
      PROVE  V!Next
  <2>1. V!Write(p, d)
    BY <1>2, <1>3, <1>6 DEF V!Write
  <2>2. QED BY <2>1 DEF V!Next
<1>7. ASSUME NEW n \in Names, UNCHANGED disk,
             saves' = [saves EXCEPT ![n] = [p \in touched |-> disk[p]]]
      PROVE  V!Next
  <2> DEFINE entries == [p \in touched |-> disk[p]]
  <2>1. entries \in Kept
    BY DEF Kept
  <2>2. Whole(entries) = disk
    BY <1>4 DEF Whole
  <2>3. entries # None
    BY <2>1, KeptFacts
  <2> HIDE DEF entries
  <2>4. SeenSnaps' = [SeenSnaps EXCEPT ![n] = disk]
    BY <1>3, <1>7, <2>2, <2>3 DEF entries
  <2>5. V!Snapshot(n)
    BY <1>2, <1>7, <2>4 DEF V!Snapshot
  <2>6. QED BY <2>5 DEF V!Next
<1>8. ASSUME NEW n \in Names, saves[n] # None,
             disk' = Restored(saves[n]), UNCHANGED saves
      PROVE  V!Next
  <2>1. saves[n] \in Kept
    BY <1>8
  <2>2. Restored(saves[n]) = Whole(saves[n])
    BY <1>4, <2>1, KeptFacts DEF Restored, Whole
  <2>3. SeenSnaps[n] = Whole(saves[n]) /\ SeenSnaps[n] # None
    BY <1>3, <1>8, <2>1, KeptFacts
  <2>4. UNCHANGED SeenSnaps
    BY <1>3, <1>8
  <2>5. V!Restore(n)
    BY <1>2, <1>8, <2>2, <2>3, <2>4 DEF V!Restore
  <2>6. QED BY <2>5 DEF V!Next
<1>9. QED BY <1>5, <1>6, <1>7, <1>8, HostCases

(* What leaves both backends alone is a stutter of VirtualFiles.           *)
LEMMA StutterRefines ==
  ASSUME UNCHANGED <<mem, root, host>>
  PROVE  UNCHANGED <<Seen, SeenSnaps>>
BY DEF Seen, SeenSnaps, mem, root

LEMMA StepRefines ==
  ASSUME IInv, Next, phase' = "record", meddled' = 0
  PROVE  V!Next \/ UNCHANGED <<Seen, SeenSnaps>>
<1>1. CASE Virtual
  <2>1. PICK s \in FileSteps :
          \/ VirtualWrite(s) \/ VirtualRead(s)
          \/ VirtualSnapshot(s) \/ VirtualRestore(s)
    BY <1>1 DEF Virtual
  <2>2. UNCHANGED phase
    BY <2>1 DEF VirtualWrite, VirtualRead, VirtualSnapshot, VirtualRestore,
                Pass, Fail, Remember
  <2>3. QED BY <1>1, <2>2, VirtualRefines
<1>2. CASE Host
  BY <1>2, HostRefines
<1>3. CASE \E p \in Paths \ Refused, d \in Data \cup {None} : Meddle(p, d)
  BY <1>3, MeddleIInv
<1>4. CASE Replayed
  BY <1>4, ReplayedLeavesFiles, StutterRefines
<1>5. CASE Web
  BY <1>5, WebLeavesFiles, StutterRefines
<1>6. CASE EndRecording \/ EndReplay
  <2>1. UNCHANGED <<mem, root, host>>
    BY <1>6 DEF EndRecording, EndReplay
  <2>2. QED BY <2>1, StutterRefines
<1>7. CASE StartReplay
  BY <1>7 DEF StartReplay
<1>8. QED BY <1>1, <1>2, <1>3, <1>4, <1>5, <1>6, <1>7 DEF Next

(* Restoring a snapshot on the host brings back exactly the files of that  *)
(* moment, however many paths, names and steps there are, as long as the   *)
(* directory was empty and nobody else writes there.                       *)
THEOREM HostImplementsVirtual == Spec => HostLooksVirtual
<1>1. IInv /\ [Next]_vars =>
        [phase' = "record" /\ meddled' = 0 => V!Next \/ UNCHANGED <<Seen, SeenSnaps>>]_vars
  BY StepRefines
<1>2. QED BY <1>1, EveryFileIsTouched, PTL DEF Spec, HostLooksVirtual

-----------------------------------------------------------------------------
(* The types a replay relies on. *)

Rules == [path : {Absolute, Relative, Bare}, body : Bodies, left : Nat]

(* A request logs the body it got, if it logs anything. *)
LogsBody(s, d) == s.op = "request" => d = None \/ d.got \in Bodies \cup {None}

RunTyped ==
  /\ phase \in {"record", "replay"}
  /\ script \in Seq(FileSteps \cup WebSteps)
  /\ log \in Seq(Decisions \cup {None}) /\ Len(log) = Len(script)
  /\ \A i \in 1..Len(script) : LogsBody(script[i], log[i])
  /\ at \in 0..Len(script) /\ (phase = "record" => at = Len(script))
  /\ clock \in Nat
  /\ rules \in Seq(Rules) /\ saved \in Bodies \cup {None}
  /\ end \in Outcomes \cup {None}
  /\ phase = "replay" => recorded \in Outcomes
  /\ overlay = [k \in Keys |-> overlay[k]]

(* The state of a run that its steps depend on. *)
Current == [files |-> files, snaps |-> snaps, saves |-> saves, rules |-> rules,
            saved |-> saved, clock |-> clock]
NoSnaps == [n \in Names |-> None]
Start   == [files |-> Empty, snaps |-> NoSnaps, saves |-> NoSnaps, rules |-> <<>>,
            saved |-> None, clock |-> 0]

Fits(rs, path) == {i \in DOMAIN rs : rs[i].left > 0 /\ rs[i].path = path}
UsedUp(rs, i)  == IF rs[i].left = Always THEN rs ELSE [rs EXCEPT ![i].left = @ - 1]
Alike(a, b)    == a.files = b.files /\ a.snaps = b.snaps /\ a.rules = b.rules
                  /\ a.saved = b.saved

(* From state a the step s passes with the decision d, and leads to b: on   *)
(* the simulated backends, then on the host's.                             *)
VirtualPass(a, s, d, b) ==
  /\ d = None /\ b.clock = a.clock
  /\ \/ /\ s.op = "write"
        /\ b.files = [a.files EXCEPT ![s.path] = s.data]
        /\ b.snaps = a.snaps /\ b.rules = a.rules /\ b.saved = a.saved
     \/ s.op = "read" /\ a.files[s.path] = s.data /\ Alike(a, b)
     \/ /\ s.op = "snapshot"
        /\ b.snaps = [a.snaps EXCEPT ![s.name] = a.files]
        /\ b.files = a.files /\ b.rules = a.rules /\ b.saved = a.saved
     \/ /\ s.op = "restore" /\ a.snaps[s.name] # None
        /\ b.files = a.snaps[s.name]
        /\ b.snaps = a.snaps /\ b.rules = a.rules /\ b.saved = a.saved
     \/ /\ s.op = "when"
        /\ b.rules = Append(a.rules, [path |-> s.path, body |-> s.body, left |-> s.times])
        /\ b.files = a.files /\ b.snaps = a.snaps /\ b.saved = a.saved
     \/ LET i == Min(Fits(a.rules, s.path)) IN
        /\ s.op = "request" /\ Fits(a.rules, s.path) # {}
        /\ s.expect \in {None, a.rules[i].body}
        /\ b.saved = a.rules[i].body /\ b.rules = UsedUp(a.rules, i)
        /\ b.files = a.files /\ b.snaps = a.snaps

HostPass(a, s, d, b) ==
  \/ /\ s.op = "when" /\ d = None
     /\ b.saves = a.saves /\ b.saved = a.saved /\ b.clock = a.clock
  \/ /\ d # None /\ b.clock = a.clock + d.took
     /\ \/ s.op = "write" /\ b.saves = a.saves /\ b.saved = a.saved
        \/ s.op = "read" /\ d.got = s.data /\ b.saves = a.saves /\ b.saved = a.saved
        \/ s.op = "snapshot" /\ b.saves = [a.saves EXCEPT ![s.name] = d.got]
           /\ b.saved = a.saved
        \/ s.op = "restore" /\ a.saves[s.name] # None /\ b.saves = a.saves
           /\ b.saved = a.saved
        \/ /\ s.op = "request" /\ d.got # None /\ s.expect \in {None, d.got}
           /\ b.saved = d.got /\ b.saves = a.saves

PassesTo(a, s, d, b) == IF host THEN HostPass(a, s, d, b) ELSE VirtualPass(a, s, d, b)

(* From state a the step s ends the run with the outcome o, in a way the   *)
(* log can repeat.                                                         *)
VirtualEnd(a, s, d, o) ==
  /\ d = None /\ o.verdict = "fail" /\ o.clock = a.clock /\ o.saved = a.saved
  /\ \/ s.op = "read" /\ a.files[s.path] # s.data
     \/ s.op = "restore" /\ a.snaps[s.name] = None
     \/ /\ s.op = "request"
        /\ Fits(a.rules, s.path) # {} =>
             s.expect \notin {None, a.rules[Min(Fits(a.rules, s.path))].body}

HostEnd(a, s, d, o) ==
  /\ o.saved = a.saved
  /\ \/ s.op = "read" /\ d = None /\ o.verdict = "fail" /\ o.clock = a.clock
     \/ s.op = "restore" /\ a.saves[s.name] = None
        /\ d = None /\ o.verdict = "fail" /\ o.clock = a.clock
     \/ /\ s.op = "request" /\ d # None /\ o.clock = a.clock + d.took
        /\ \/ d.got = None /\ o.verdict = "timeout"
           \/ d.got # None /\ s.expect \notin {None, d.got} /\ o.verdict = "fail"

EndsWith(a, s, d, o) == IF host THEN HostEnd(a, s, d, o) ELSE VirtualEnd(a, s, d, o)

(* What the end of a recording says of the states it went through. *)
EndOf(h, o) ==
  /\ o.at \in 0..Len(script)
  /\ o.at = Len(script) =>
       /\ o.verdict = AllDone.verdict
       /\ o.clock = h[o.at].clock /\ o.saved = h[o.at].saved
  /\ o.at < Len(script) =>
       /\ o.at + 1 = Len(script)
       /\ o.why \in Unlogged \/ EndsWith(h[o.at], script[o.at + 1], log[o.at + 1], o)

Passed == IF phase = "replay" THEN recorded.at ELSE IF end = None THEN at ELSE end.at

History(h) ==
  /\ h[0] = Start
  /\ \A i \in 1..Passed : PassesTo(h[i - 1], script[i], log[i], h[i])
  /\ phase = "record" => (IF end = None THEN h[at] = Current ELSE EndOf(h, end))
  /\ phase = "replay" => EndOf(h, recorded) /\ (more => recorded.at < Len(script))

(* The replay is in the state the recording was in. *)
LooksLike(a) ==
  /\ saved = a.saved /\ clock = a.clock
  /\ IF host THEN files = Empty /\ snaps = NoSnaps /\ overlaySnaps = a.saves
             ELSE files = a.files /\ snaps = a.snaps /\ rules = a.rules

Follows(h) ==
  phase = "replay" /\ recorded.why \notin Unlogged =>
    IF end = None THEN at <= recorded.at /\ LooksLike(h[at])
                  ELSE Result(end) = Result(recorded)

HistoryInv == \E h : History(h) /\ Follows(h)

ReplayInv == RunTyped /\ HistoryInv

-----------------------------------------------------------------------------
LEMMA WebFields ==
  ASSUME NEW s \in WebSteps
  PROVE  /\ s.op \in {"when", "request"}
         /\ s.op = "when" => s.path \in {Absolute, Relative, Bare} /\ s.body \in Bodies
                             /\ s.times \in Nat
         /\ s.op = "request" => s.path \in {Absolute, Relative}
                                /\ s.expect \in Bodies \cup {None}
BY DEF WebSteps, Always

LEMMA FileOps ==
  ASSUME NEW s \in FileSteps
  PROVE  s.op \in {"write", "read", "snapshot", "restore"}
BY DEF FileSteps

(* The first of some places in a sequence is one of them. *)
LEMMA MinIsOne ==
  ASSUME NEW T, T \subseteq Nat, T # {}
  PROVE  Min(T) \in T
<1> DEFINE R == OpToRel(<, Nat)
<1>1. \A a, b \in Nat : a < b => <<a, b>> \in R
  BY DEF OpToRel
<1>2. IsWellFoundedOn(R, Nat)
  BY NatLessThanWellFounded
<1> HIDE DEF R
<1>3. PICK n \in T : \A m \in T : ~ (<<m, n>> \in R)
  BY <1>2, WFMin
<1>4. \A m \in T : ~ (m < n)
  BY <1>1, <1>3
<1>5. n \in T /\ \A m \in T : n <= m
  BY <1>4
<1>6. QED BY <1>5 DEF Min

LEMMA RuleFacts ==
  ASSUME rules \in Seq(Rules), NEW fits, fits # {},
         fits \subseteq {i \in DOMAIN rules : Open(i)}
  PROVE  /\ Min(fits) \in DOMAIN rules
         /\ rules[Min(fits)].body \in Bodies
         /\ Used(Min(fits)) \in Seq(Rules)
<1>1. DOMAIN rules = 1..Len(rules) /\ Len(rules) \in Nat
  OBVIOUS
<1>2. fits \subseteq Nat
  BY <1>1
<1>3. Min(fits) \in fits
  BY <1>2, MinIsOne
<1> DEFINE i == Min(fits)
<1> HIDE DEF i
<1>4. i \in DOMAIN rules /\ rules[i].left > 0
  BY <1>3 DEF Open, i
<1>5. rules[i] \in Rules
  BY <1>4
<1>6. rules[i].body \in Bodies /\ rules[i].left \in Nat
  BY <1>5 DEF Rules
<1>7. [rules EXCEPT ![i].left = @ - 1] \in Seq(Rules)
  <2>1. rules[i].left - 1 \in Nat
    BY <1>4, <1>6
  <2>2. [rules[i] EXCEPT !.left = @ - 1] \in Rules
    BY <1>5, <2>1 DEF Rules
  <2>3. QED BY <1>4, <2>2
<1>8. Used(i) \in Seq(Rules)
  BY <1>7 DEF Used
<1>9. QED BY <1>4, <1>6, <1>8 DEF i
-----------------------------------------------------------------------------
(* What every step of a scenario does to the run. *)
Moves(s, d) ==
  /\ s \in FileSteps \cup WebSteps /\ d \in Decisions \cup {None} /\ LogsBody(s, d)
  /\ Due(s) /\ Remember(s, d)
  /\ clock' \in Nat /\ rules' \in Seq(Rules) /\ saved' \in Bodies \cup {None}
  /\ \/ end' = None
     \/ end' \in Outcomes /\ end'.at = at

(* A step of a recording: the history goes on, or ends. *)
Recorded(s, d) ==
  /\ Moves(s, d)
  /\ \/ end' = None /\ PassesTo(Current, s, d, Current')
     \/ end' # None /\ (end'.why \in Unlogged \/ EndsWith(Current, s, d, end'))

LEMMA PassFacts ==
  ASSUME RunTyped, NEW s, NEW d, NEW t \in Nat, Pass(s, d, t)
  PROVE  Remember(s, d) /\ clock' = clock + t /\ clock' \in Nat /\ end' = None
BY DEF RunTyped, Pass

LEMMA FailFacts ==
  ASSUME RunTyped, NEW s, NEW d, NEW t \in Nat,
         NEW verdict \in {"fail", "timeout"}, NEW why \in Reasons,
         Fail(s, d, t, verdict, why)
  PROVE  /\ Remember(s, d) /\ clock' = clock + t /\ clock' \in Nat
         /\ end' \in Outcomes /\ end' # None
         /\ end'.verdict = verdict /\ end'.why = why /\ end'.at = at
         /\ end'.clock = clock + t /\ end'.saved = saved
<1>1. at \in Nat /\ clock + t \in Nat /\ saved \in Bodies \cup {None}
  BY DEF RunTyped
<1>2. end' = [verdict |-> verdict, why |-> why, at |-> at, clock |-> clock + t,
              saved |-> saved]
  BY DEF Fail, Outcome
<1>3. end' \in Outcomes
  BY <1>1, <1>2 DEF Outcomes
<1>4. QED BY <1>1, <1>2, <1>3, OptionAssumption DEF Fail

LEMMA DecisionFacts ==
  ASSUME NEW s \in FileSteps \cup WebSteps, NEW t \in Times,
         NEW got \in Data \cup Bodies \cup Kept \cup {None}
  PROVE  /\ Decision(s, got, t) \in Decisions /\ Decision(s, got, t) # None
         /\ Decision(s, got, t).got = got /\ Decision(s, got, t).took = t
         /\ t \in Nat
<1>1. Decision(s, got, t) \in Decisions
  BY DEF Decision, Decisions
<1>2. QED BY <1>1, OptionAssumption, TimesAssumption DEF Decision

LEMMA RecordedVirtual ==
  ASSUME RunTyped, phase = "record", Virtual
  PROVE  \E s, d : Recorded(s, d)
<1>1. host = FALSE
  BY DEF Virtual, Simulated, OnHost
<1>2. PICK s \in FileSteps : Due(s) /\
        \/ s.op = "write" /\ VirtualWrite(s)
        \/ s.op = "read" /\ VirtualRead(s)
        \/ s.op = "snapshot" /\ VirtualSnapshot(s)
        \/ s.op = "restore" /\ VirtualRestore(s)
  BY DEF Virtual
<1>3. UNCHANGED web
  BY <1>2 DEF VirtualWrite, VirtualRead, VirtualSnapshot, VirtualRestore
<1>4. rules' \in Seq(Rules) /\ saved' \in Bodies \cup {None} /\ LogsBody(s, None)
  BY <1>3 DEF RunTyped, web, LogsBody
<1>5. CASE /\ Pass(s, None, 0)
           /\ \/ s.op = "write" /\ VirtualWrite(s)
              \/ s.op = "read" /\ VirtualRead(s) /\ files[s.path] = s.data
              \/ s.op = "snapshot" /\ VirtualSnapshot(s)
              \/ s.op = "restore" /\ VirtualRestore(s) /\ snaps[s.name] # None
  <2>1. Remember(s, None) /\ clock' = clock /\ clock' \in Nat /\ end' = None
    BY <1>5, PassFacts DEF RunTyped
  <2>2. VirtualPass(Current, s, None, Current')
    BY <1>1, <1>3, <1>5, <2>1 DEF VirtualPass, Current, Alike, VirtualWrite, VirtualRead,
       VirtualSnapshot, VirtualRestore, mem, web, Fail
  <2>3. QED BY <1>1, <1>2, <1>4, <2>1, <2>2 DEF Recorded, Moves, PassesTo
<1>6. CASE \E why \in Reasons :
           /\ Fail(s, None, 0, "fail", why)
           /\ \/ s.op = "read" /\ files[s.path] # s.data
              \/ s.op = "restore" /\ snaps[s.name] = None
  <2>1. PICK why \in Reasons : Fail(s, None, 0, "fail", why)
    BY <1>6
  <2>2. /\ Remember(s, None) /\ clock' \in Nat /\ end' \in Outcomes /\ end' # None
        /\ end'.verdict = "fail" /\ end'.at = at /\ end'.clock = clock /\ end'.saved = saved
    <3>1. clock + 0 = clock
      BY DEF RunTyped
    <3>2. QED BY <2>1, <3>1, FailFacts
  <2>3. VirtualEnd(Current, s, None, end')
    BY <1>6, <2>2 DEF VirtualEnd, Current
  <2>4. QED BY <1>1, <1>2, <1>4, <2>2, <2>3 DEF Recorded, Moves, EndsWith
<1>7. CASE s.op = "write" /\ VirtualWrite(s)
  BY <1>5, <1>7 DEF VirtualWrite
<1>8. CASE s.op = "read" /\ VirtualRead(s)
  BY <1>5, <1>6, <1>8 DEF VirtualRead, Reasons
<1>9. CASE s.op = "snapshot" /\ VirtualSnapshot(s)
  BY <1>5, <1>9 DEF VirtualSnapshot
<1>10. CASE s.op = "restore" /\ VirtualRestore(s)
  BY <1>5, <1>6, <1>10 DEF VirtualRestore, Reasons
<1>11. QED BY <1>2, <1>7, <1>8, <1>9, <1>10
LEMMA RecordedHost ==
  ASSUME IInv, RunTyped, phase = "record", Host
  PROVE  \E s, d : Recorded(s, d)
<1>1. host = TRUE
  BY DEF Host, OnHost
<1>2. PICK s \in FileSteps : Due(s) /\
        \/ s.op = "write" /\ HostWrite(s)
        \/ s.op = "read" /\ HostRead(s)
        \/ s.op = "snapshot" /\ HostSnapshot(s)
        \/ s.op = "restore" /\ HostRestore(s)
  BY DEF Host
<1>3. UNCHANGED web
  BY <1>2 DEF HostWrite, HostRead, HostSnapshot, HostRestore, root
<1>4. /\ rules' \in Seq(Rules) /\ saved' = saved /\ saved' \in Bodies \cup {None}
      /\ \A d : LogsBody(s, d)
  BY <1>2, <1>3, FileOps DEF RunTyped, web, LogsBody
<1>5. ASSUME NEW got \in Data \cup Kept \cup {None}, NEW t \in Times,
             Pass(s, Decision(s, got, t), t),
             \/ s.op = "write" /\ saves' = saves
             \/ s.op = "read" /\ got = s.data /\ saves' = saves
             \/ s.op = "snapshot" /\ saves' = [saves EXCEPT ![s.name] = got]
             \/ s.op = "restore" /\ saves[s.name] # None /\ saves' = saves
      PROVE  Recorded(s, Decision(s, got, t))
  <2> DEFINE d == Decision(s, got, t)
  <2>1. d \in Decisions /\ d # None /\ d.got = got /\ d.took = t /\ t \in Nat
    BY DecisionFacts
  <2> HIDE DEF d
  <2>2. Remember(s, d) /\ clock' = clock + t /\ clock' \in Nat /\ end' = None
    BY <1>5, <2>1, PassFacts DEF d
  <2>3. HostPass(Current, s, d, Current')
    BY <1>4, <1>5, <2>1, <2>2 DEF HostPass, Current
  <2>4. QED BY <1>1, <1>2, <1>4, <2>1, <2>2, <2>3 DEF Recorded, Moves, PassesTo, d
<1>6. ASSUME NEW why \in Reasons, Fail(s, None, 0, "fail", why),
             \/ why \in Unlogged
             \/ s.op = "read"
             \/ s.op = "restore" /\ saves[s.name] = None
      PROVE  Recorded(s, None)
  <2>1. /\ Remember(s, None) /\ clock' \in Nat /\ end' \in Outcomes /\ end' # None
        /\ end'.verdict = "fail" /\ end'.at = at /\ end'.clock = clock /\ end'.saved = saved
        /\ end'.why = why
    <3>1. clock + 0 = clock
      BY DEF RunTyped
    <3>2. QED BY <1>6, <3>1, FailFacts
  <2>2. end'.why \in Unlogged \/ HostEnd(Current, s, None, end')
    BY <1>6, <2>1 DEF HostEnd, Current
  <2>3. QED BY <1>1, <1>2, <1>4, <2>1, <2>2 DEF Recorded, Moves, EndsWith
<1>7. CASE s.op = "write" /\ HostWrite(s)
  <2>1. CASE s.path \in Refused
    <3>1. Fail(s, None, 0, "fail", "host_fs_path") /\ "host_fs_path" \in Unlogged
      BY <1>7, <2>1 DEF HostWrite, Unlogged
    <3>2. QED BY <3>1, <1>6 DEF Reasons
  <2>2. CASE s.path \notin Refused
    <3>1. PICK t \in Times : Pass(s, Decision(s, s.data, t), t) /\ saves' = saves
      BY <1>7, <2>2 DEF HostWrite
    <3>2. s.data \in Data
      BY <1>2, <1>7, StepFields
    <3>3. QED BY <1>5, <1>7, <3>1, <3>2
  <2>3. QED BY <2>1, <2>2
<1>8. CASE s.op = "read" /\ HostRead(s)
  <2>1. CASE s.path \notin Refused /\ disk[s.path] = s.data
    <3>1. PICK t \in Times : Pass(s, Decision(s, s.data, t), t) /\ saves' = saves
      BY <1>8, <2>1 DEF HostRead
    <3>2. s.data \in Data
      BY <1>2, <1>8, StepFields
    <3>3. QED BY <1>5, <1>8, <3>1, <3>2
  <2>2. CASE ~ (s.path \notin Refused /\ disk[s.path] = s.data)
    <3>1. Fail(s, None, 0, "fail", "host_fs_read_assert")
      BY <1>8, <2>2 DEF HostRead
    <3>2. QED BY <3>1, <1>6, <1>8 DEF Reasons
  <2>3. QED BY <2>1, <2>2
<1>9. CASE s.op = "snapshot" /\ HostSnapshot(s)
  <2> DEFINE got == [p \in touched |-> disk[p]]
  <2>1. got \in Kept
    <3>1. touched \in SUBSET Paths /\ disk \in [Paths -> Data \cup {None}]
      BY DEF IInv, FilesTyped
    <3>2. got \in [touched -> Data \cup {None}]
      BY <3>1
    <3>3. QED BY <3>1, <3>2, Zenon DEF Kept
  <2>2. PICK t \in Times : /\ Pass(s, Decision(s, got, t), t)
                           /\ saves' = [saves EXCEPT ![s.name] = got]
    BY <1>9 DEF HostSnapshot
  <2> HIDE DEF got
  <2>3. QED BY <1>5, <1>9, <2>1, <2>2
<1>10. CASE s.op = "restore" /\ HostRestore(s)
  <2>1. CASE saves[s.name] = None
    <3>1. Fail(s, None, 0, "fail", "host_fs_restore_missing_snapshot")
      BY <1>10, <2>1 DEF HostRestore
    <3>2. QED BY <3>1, <1>6, <1>10, <2>1 DEF Reasons
  <2>2. CASE saves[s.name] # None
    <3>1. PICK t \in Times : Pass(s, Decision(s, None, t), t) /\ saves' = saves
      BY <1>10, <2>2 DEF HostRestore
    <3>2. QED BY <1>5, <1>10, <2>2, <3>1
  <2>3. QED BY <2>1, <2>2
<1>11. QED BY <1>2, <1>7, <1>8, <1>9, <1>10
(* The rule a request uses, seen from the history. *)
LEMMA FitsIsScripted == \A path : ScriptedFits(path) = Fits(rules, path)
BY DEF ScriptedFits, Fits, Open

LEMMA UsedIsUsedUp == \A i : Used(i) = UsedUp(rules, i)
BY DEF Used, UsedUp

LEMMA WhenRules ==
  ASSUME RunTyped, NEW s \in WebSteps, s.op = "when"
  PROVE  Append(rules, [path |-> s.path, body |-> s.body, left |-> s.times]) \in Seq(Rules)
<1>1. [path |-> s.path, body |-> s.body, left |-> s.times] \in Rules
  BY WebFields DEF Rules
<1>2. QED BY <1>1 DEF RunTyped

LEMMA RecordedWhen ==
  ASSUME IInv, RunTyped, phase = "record", NEW s \in WebSteps, Due(s), s.op = "when", When(s)
  PROVE  Recorded(s, None)
<1>1. UNCHANGED <<mem, root, saved>> /\ LogsBody(s, None)
  BY DEF When, LogsBody
<1>2. CASE OnHost /\ s.path = Bare
  <2>1. Fail(s, None, 0, "fail", "http_when_host_path") /\ UNCHANGED rules
    BY <1>2 DEF When
  <2>2. "http_when_host_path" \in Reasons /\ "http_when_host_path" \in Unlogged
    BY DEF Reasons, Unlogged
  <2>3. /\ Remember(s, None) /\ clock' \in Nat /\ end' \in Outcomes /\ end' # None
        /\ end'.at = at /\ end'.why \in Unlogged
    <3>1. Fail(s, None, 0, "fail", "http_when_host_path")
      BY <2>1
    <3>2. /\ Remember(s, None) /\ clock' \in Nat /\ end' \in Outcomes /\ end' # None
          /\ end'.why = "http_when_host_path" /\ end'.at = at
      BY <2>2, <3>1, FailFacts
    <3>3. QED BY <2>2, <3>2
  <2>4. QED BY <1>1, <2>1, <2>3 DEF Recorded, Moves, RunTyped
<1>3. CASE ~ (OnHost /\ s.path = Bare)
  <2>1. /\ rules' = Append(rules, [path |-> s.path, body |-> s.body, left |-> s.times])
        /\ Pass(s, None, 0)
    BY <1>3 DEF When
  <2>2. Remember(s, None) /\ clock' = clock /\ clock' \in Nat /\ end' = None
    BY <2>1, PassFacts DEF RunTyped
  <2>3. rules' \in Seq(Rules)
    BY <2>1, WhenRules
  <2>4. VirtualPass(Current, s, None, Current')
    BY <1>1, <2>1, <2>2 DEF VirtualPass, Current, mem
  <2>5. HostPass(Current, s, None, Current')
    BY <1>1, <2>2 DEF HostPass, Current, root
  <2>6. QED BY <1>1, <2>2, <2>3, <2>4, <2>5 DEF Recorded, Moves, RunTyped, PassesTo
<1>4. QED BY <1>2, <1>3

LEMMA RecordedScripted ==
  ASSUME RunTyped, phase = "record", NEW s \in WebSteps, Due(s), s.op = "request",
         ScriptedRequest(s)
  PROVE  Recorded(s, None)
<1>1. UNCHANGED <<mem, root>> /\ LogsBody(s, None) /\ host = FALSE
  BY DEF ScriptedRequest, LogsBody, Simulated, OnHost
<1> DEFINE fits == Fits(rules, s.path)
           i    == Min(fits)
<1>2. CASE fits = {}
  <2>1. Fail(s, None, 0, "fail", "http_unmatched") /\ UNCHANGED <<rules, saved>>
    BY <1>2, FitsIsScripted DEF ScriptedRequest
  <2>2. "http_unmatched" \in Reasons
    BY DEF Reasons
  <2>3. /\ Remember(s, None) /\ clock' \in Nat /\ end' \in Outcomes /\ end' # None
        /\ end'.verdict = "fail" /\ end'.at = at /\ end'.clock = clock /\ end'.saved = saved
    <3>1. clock + 0 = clock
      BY DEF RunTyped
    <3>2. QED BY <2>1, <2>2, <3>1, FailFacts
  <2>4. VirtualEnd(Current, s, None, end')
    BY <1>2, <2>3 DEF VirtualEnd, Current
  <2>5. QED BY <1>1, <2>1, <2>3, <2>4 DEF Recorded, Moves, RunTyped, EndsWith
<1>3. CASE fits # {}
  <2>1. rules' = UsedUp(rules, i) /\ Answered(s, rules[i].body, None, 0)
    BY <1>3, FitsIsScripted, UsedIsUsedUp DEF ScriptedRequest
  <2>2. rules[i].body \in Bodies /\ rules' \in Seq(Rules)
    <3>1. fits \subseteq {j \in DOMAIN rules : Open(j)} /\ rules \in Seq(Rules)
      BY DEF Fits, Open, RunTyped
    <3>2. QED BY <1>3, <2>1, <3>1, RuleFacts, UsedIsUsedUp
  <2>3. Current.rules = rules
    BY DEF Current
  <2> DEFINE body == rules[i].body
  <2>4. body = Current.rules[Min(Fits(Current.rules, s.path))].body /\ body \in Bodies
    BY <2>2, <2>3
  <2>5. /\ rules' = UsedUp(Current.rules, Min(Fits(Current.rules, s.path)))
        /\ Fits(Current.rules, s.path) # {}
    BY <1>3, <2>1, <2>3
  <2>6. Answered(s, body, None, 0)
    BY <2>1
  <2> HIDE DEF fits, i, body
  <2>7. CASE s.expect \in {None, body}
    <3>1. Pass(s, None, 0) /\ saved' = body
      BY <2>6, <2>7 DEF Answered
    <3>2. Remember(s, None) /\ clock' = clock /\ clock' \in Nat /\ end' = None
      BY <3>1, PassFacts DEF RunTyped
    <3>3. Current'.rules = rules' /\ Current'.saved = saved' /\ Current'.files = files
          /\ Current'.snaps = snaps /\ Current'.clock = clock
      BY <1>1, <3>2 DEF Current, mem
    <3>4. Current.clock = clock /\ Current.files = files /\ Current.snaps = snaps
      BY DEF Current
    <3>5. VirtualPass(Current, s, None, Current')
      BY <2>4, <2>5, <2>7, <3>1, <3>3, <3>4 DEF VirtualPass
    <3>6. QED BY <1>1, <2>2, <2>4, <3>1, <3>2, <3>5 DEF Recorded, Moves, PassesTo
  <2>8. CASE s.expect \notin {None, body}
    <3>1. Fail(s, None, 0, "fail", "http_body") /\ saved' = saved
      BY <2>6, <2>8 DEF Answered
    <3>2. "http_body" \in Reasons
      BY DEF Reasons
    <3>3. /\ Remember(s, None) /\ clock' \in Nat /\ end' \in Outcomes /\ end' # None
          /\ end'.verdict = "fail" /\ end'.at = at /\ end'.clock = clock /\ end'.saved = saved
      <4>1. clock + 0 = clock
        BY DEF RunTyped
      <4>2. QED BY <3>1, <3>2, <4>1, FailFacts
    <3>4. Current.clock = clock /\ Current.saved = saved
      BY DEF Current
    <3>5. VirtualEnd(Current, s, None, end')
      BY <2>4, <2>8, <3>3, <3>4 DEF VirtualEnd
    <3>6. QED BY <1>1, <2>2, <3>1, <3>3, <3>5 DEF Recorded, Moves, EndsWith, RunTyped
  <2>9. QED BY <2>7, <2>8
<1>4. QED BY <1>2, <1>3

(* The call of the host is answered, in time or not. *)
LEMMA RecordedHostRequest ==
  ASSUME RunTyped, phase = "record", NEW s \in WebSteps, Due(s), s.op = "request",
         HostRequest(s)
  PROVE  \E d : Recorded(s, d)
<1>1. UNCHANGED <<mem, root>> /\ host = TRUE /\ saves' = saves
  BY DEF HostRequest, OnHost, root
<1> DEFINE fits == HostFits(s.path)
<1>2. fits # {} => /\ rules[Min(fits)].body \in Bodies
                   /\ Used(Min(fits)) \in Seq(Rules)
  <2>1. fits \subseteq {j \in DOMAIN rules : Open(j)} /\ rules \in Seq(Rules)
    BY DEF HostFits, RunTyped
  <2>2. QED BY <2>1, RuleFacts
<1>3. ASSUME NEW why \in Unlogged \cap Reasons, Fail(s, None, 0, "fail", why),
             UNCHANGED <<rules, saved>>
      PROVE  Recorded(s, None)
  <2>1. /\ Remember(s, None) /\ clock' \in Nat /\ end' \in Outcomes /\ end' # None
        /\ end'.at = at /\ end'.why = why
    <3>1. Fail(s, None, 0, "fail", why) /\ why \in Reasons
      BY <1>3
    <3>2. QED BY <3>1, FailFacts
  <2>2. QED BY <1>3, <2>1 DEF Recorded, Moves, RunTyped, LogsBody
<1>4. ASSUME NEW t \in Times, NEW got \in Bodies \cup {None},
             NEW why \in Reasons, NEW verdict \in {"fail", "timeout"},
             Fail(s, Decision(s, got, t), t, verdict, why),
             rules' \in Seq(Rules), UNCHANGED saved,
             \/ why \in Unlogged
             \/ got = None /\ verdict = "timeout"
             \/ got # None /\ s.expect \notin {None, got} /\ verdict = "fail"
      PROVE  Recorded(s, Decision(s, got, t))
  <2> DEFINE d == Decision(s, got, t)
  <2>1. d \in Decisions /\ d # None /\ d.got = got /\ d.took = t /\ t \in Nat
    BY DecisionFacts
  <2> HIDE DEF d
  <2>2. /\ Remember(s, d) /\ clock' \in Nat /\ end' \in Outcomes /\ end' # None
        /\ end'.at = at /\ end'.why = why /\ end'.verdict = verdict
        /\ end'.clock = clock + t /\ end'.saved = saved
    <3>1. Fail(s, d, t, verdict, why) /\ t \in Nat
      BY <1>4, <2>1 DEF d
    <3>2. QED BY <3>1, FailFacts, ZenonT(60)
  <2>3. end'.why \in Unlogged \/ HostEnd(Current, s, d, end')
    BY <1>4, <2>1, <2>2 DEF HostEnd, Current
  <2>4. LogsBody(s, d)
    BY <2>1 DEF LogsBody
  <2>5. QED BY <1>1, <1>4, <2>1, <2>2, <2>3, <2>4 DEF Recorded, Moves, EndsWith, RunTyped, d
<1>5. ASSUME NEW t \in Times, NEW body \in Bodies,
             Answered(s, body, Decision(s, body, t), t), rules' \in Seq(Rules)
      PROVE  Recorded(s, Decision(s, body, t))
  <2>0. body # None
    BY NoneAssumption
  <2>1. CASE s.expect \in {None, body}
    <3> DEFINE d == Decision(s, body, t)
    <3>1. d \in Decisions /\ d # None /\ d.got = body /\ d.took = t /\ t \in Nat
      BY DecisionFacts
    <3> HIDE DEF d
    <3>2. Pass(s, d, t) /\ saved' = body
      BY <1>5, <2>1 DEF Answered, d
    <3>3. Remember(s, d) /\ clock' = clock + t /\ clock' \in Nat /\ end' = None
      BY <3>1, <3>2, PassFacts
    <3>4. HostPass(Current, s, d, Current')
      BY <1>1, <2>0, <2>1, <3>1, <3>2, <3>3 DEF HostPass, Current
    <3>5. LogsBody(s, d)
      BY <3>1 DEF LogsBody
    <3>6. QED BY <1>1, <1>5, <3>1, <3>2, <3>3, <3>4, <3>5 DEF Recorded, Moves, PassesTo, d
  <2>2. CASE s.expect \notin {None, body}
    <3>1. Fail(s, Decision(s, body, t), t, "fail", "http_body") /\ UNCHANGED saved
      BY <1>5, <2>2 DEF Answered
    <3>2. "http_body" \in Reasons
      BY DEF Reasons
    <3>3. QED BY <1>4, <1>5, <2>0, <2>2, <3>1, <3>2
  <2>3. QED BY <2>1, <2>2
<1>6. CASE \E why \in {"http_host_url", "http_when_host_unmatched", "http_host_request"} :
             Fail(s, None, 0, "fail", why) /\ UNCHANGED <<rules, saved>>
  BY <1>3, <1>6 DEF Unlogged, Reasons
<1>7. CASE \E t \in Times : /\ Fail(s, Decision(s, None, t), t, "timeout", "timeout")
                            /\ UNCHANGED <<rules, saved>>
  <2>1. PICK t \in Times : /\ Fail(s, Decision(s, None, t), t, "timeout", "timeout")
                           /\ UNCHANGED <<rules, saved>>
    BY <1>7
  <2>2. rules' \in Seq(Rules) /\ "timeout" \in Reasons
    BY <2>1 DEF Reasons, RunTyped
  <2>3. QED BY <1>4, <2>1, <2>2
<1>8. ASSUME NEW t \in Times, NEW body \in Bodies, fits = {},
             Answered(s, body, Decision(s, body, t), t), UNCHANGED rules
      PROVE  \E d : Recorded(s, d)
  BY <1>5, <1>8 DEF RunTyped
<1>9. ASSUME NEW t \in Times, NEW body \in Bodies, fits # {}, rules' = Used(Min(fits)),
             IF rules[Min(fits)].body # body
               THEN Fail(s, Decision(s, body, t), t, "fail", "http_when_host") /\ UNCHANGED saved
               ELSE Answered(s, body, Decision(s, body, t), t)
      PROVE  \E d : Recorded(s, d)
  <2>1. rules' \in Seq(Rules)
    BY <1>2, <1>9
  <2>2. CASE rules[Min(fits)].body # body
    <3>1. "http_when_host" \in Reasons /\ "http_when_host" \in Unlogged
      BY DEF Reasons, Unlogged
    <3>2. QED BY <1>4, <1>9, <2>1, <2>2, <3>1
  <2>3. CASE rules[Min(fits)].body = body
    BY <1>5, <1>9, <2>1, <2>3
  <2>4. QED BY <2>2, <2>3
<1>10. QED
  BY <1>6, <1>7, <1>8, <1>9 DEF HostRequest

LEMMA RecordedStep ==
  ASSUME IInv, RunTyped, phase = "record", Virtual \/ Host \/ Web
  PROVE  \E s, d : Recorded(s, d)
<1>1. CASE Web
  <2>1. PICK s \in WebSteps : Due(s) /\
          \/ s.op = "when" /\ When(s)
          \/ s.op = "request" /\ (ScriptedRequest(s) \/ HostRequest(s) \/ ReplayedRequest(s))
    BY <1>1 DEF Web
  <2>2. ~ ReplayedRequest(s)
    BY DEF ReplayedRequest, FromLog, Logged
  <2>3. QED BY <2>1, <2>2, RecordedWhen, RecordedScripted, RecordedHostRequest
<1>2. QED BY <1>1, RecordedVirtual, RecordedHost
-----------------------------------------------------------------------------
(* A step of a replay, from a state that looks like a: it passes where the  *)
(* recording passed and ends where it ended.                               *)
Repeats(a, s, d) ==
  /\ \A b : PassesTo(a, s, d, b) => end' = None /\ LooksLike(b)'
  /\ \A o : EndsWith(a, s, d, o) =>
       /\ end' # None /\ end'.verdict = o.verdict
       /\ end'.clock = o.clock /\ end'.saved = o.saved

LEMMA LoggedFacts ==
  ASSUME RunTyped, phase = "replay", NEW s, Due(s)
  PROVE  /\ at < Len(script) /\ s = script[at + 1] /\ Logged = log[at + 1] /\ at \in Nat
         /\ Logged \in Decisions \cup {None} /\ LogsBody(s, Logged) /\ LogsBody(s, None)
         /\ Logged # None => Logged.took \in Nat
         /\ Remember(s, None) => UNCHANGED <<menu, host, phase, script, log, recorded, more>>
<1>1. at < Len(script) /\ s = script[at + 1] /\ Len(log) = Len(script) /\ at \in Nat
      /\ Len(script) \in Nat /\ log \in Seq(Decisions \cup {None})
  BY DEF Due, RunTyped
<1>2. Logged = log[at + 1] /\ at + 1 \in 1..Len(script)
  BY <1>1 DEF Logged
<1>3. Logged \in Decisions \cup {None}
  BY <1>1, <1>2
<1>4. Logged # None => Logged.took \in Nat
  BY <1>3, TimesAssumption DEF Decisions
<1>5. QED BY <1>1, <1>2, <1>3, <1>4 DEF RunTyped, LogsBody, Remember

LEMMA RepeatedVirtual ==
  ASSUME RunTyped, phase = "replay", Virtual
  PROVE  \E s : Moves(s, None) /\ \A a : LooksLike(a) => Repeats(a, s, log[at + 1])
<1>1. PICK s \in FileSteps : Due(s) /\
        \/ s.op = "write" /\ VirtualWrite(s)
        \/ s.op = "read" /\ VirtualRead(s)
        \/ s.op = "snapshot" /\ VirtualSnapshot(s)
        \/ s.op = "restore" /\ VirtualRestore(s)
  BY DEF Virtual
<1>2. UNCHANGED <<view, web>>
  BY <1>1 DEF VirtualWrite, VirtualRead, VirtualSnapshot, VirtualRestore
<1>3. log[at + 1] = None /\ LogsBody(s, None)
  BY <1>1, LoggedFacts DEF Virtual, Simulated, FromLog
<1>4. rules' \in Seq(Rules) /\ saved' \in Bodies \cup {None}
  BY <1>2 DEF RunTyped, web
<1>5. /\ s.op \in {"write", "read"} => s.path \in Paths /\ s.data \in Data /\ s.data # None
      /\ s.op \in {"snapshot", "restore"} => s.name \in Names
  BY StepFields, NoneAssumption
<1>6. CASE /\ Pass(s, None, 0)
           /\ \/ s.op = "write" /\ VirtualWrite(s)
              \/ s.op = "read" /\ VirtualRead(s) /\ files[s.path] = s.data
              \/ s.op = "snapshot" /\ VirtualSnapshot(s)
              \/ s.op = "restore" /\ VirtualRestore(s) /\ snaps[s.name] # None
  <2>1. Remember(s, None) /\ clock' = clock /\ clock' \in Nat /\ end' = None
    BY <1>6, PassFacts DEF RunTyped
  <2>2. UNCHANGED host
    BY <1>1, <2>1, LoggedFacts
  <2>3. ASSUME NEW a, LooksLike(a), NEW b, PassesTo(a, s, None, b)
        PROVE  LooksLike(b)'
    <3>1. host = FALSE
      BY <1>6, <2>3, FileOps DEF PassesTo, HostPass
    <3>2. VirtualPass(a, s, None, b)
      BY <2>3, <3>1 DEF PassesTo
    <3>3. saved = a.saved /\ clock = a.clock /\ files = a.files /\ snaps = a.snaps
          /\ rules = a.rules
      BY <2>3, <3>1 DEF LooksLike
    <3>4. /\ saved' = b.saved /\ clock' = b.clock /\ files' = b.files /\ snaps' = b.snaps
          /\ rules' = b.rules
      <4>1. CASE s.op = "write" /\ VirtualWrite(s)
        BY <1>2, <2>1, <3>2, <3>3, <4>1 DEF VirtualPass, VirtualWrite, web
      <4>2. CASE s.op = "read" /\ VirtualRead(s)
        BY <1>2, <2>1, <3>2, <3>3, <4>2 DEF VirtualPass, VirtualRead, web, mem, Alike
      <4>3. CASE s.op = "snapshot" /\ VirtualSnapshot(s)
        BY <1>2, <2>1, <3>2, <3>3, <4>3 DEF VirtualPass, VirtualSnapshot, web
      <4>4. CASE s.op = "restore" /\ VirtualRestore(s) /\ snaps[s.name] # None
        BY <1>2, <2>1, <3>2, <3>3, <4>4 DEF VirtualPass, VirtualRestore, web
      <4>5. QED BY <1>6, <4>1, <4>2, <4>3, <4>4
    <3>5. QED BY <2>2, <3>1, <3>4 DEF LooksLike
  <2>4. ASSUME NEW a, LooksLike(a), NEW o, EndsWith(a, s, None, o)
        PROVE  FALSE
    <3>1. CASE host
      <4>1. HostEnd(a, s, None, o) /\ files = Empty /\ snaps = NoSnaps
        BY <2>4, <3>1 DEF EndsWith, LooksLike
      <4>2. QED BY <1>5, <1>6, <4>1 DEF HostEnd, Empty, NoSnaps
    <3>2. CASE ~ host
      <4>1. VirtualEnd(a, s, None, o) /\ files = a.files /\ snaps = a.snaps
        BY <2>4, <3>2 DEF EndsWith, LooksLike
      <4>2. QED BY <1>6, <4>1 DEF VirtualEnd
    <3>3. QED BY <3>1, <3>2
  <2>5. Moves(s, None)
    BY <1>1, <1>3, <1>4, <2>1 DEF Moves
  <2>6. QED BY <1>3, <2>1, <2>3, <2>4, <2>5 DEF Repeats
<1>7. CASE \E why \in Reasons :
           /\ Fail(s, None, 0, "fail", why)
           /\ \/ s.op = "read" /\ files[s.path] # s.data
              \/ s.op = "restore" /\ snaps[s.name] = None
  <2>1. PICK why \in Reasons : Fail(s, None, 0, "fail", why)
    BY <1>7
  <2>2. /\ Remember(s, None) /\ clock' \in Nat /\ end' \in Outcomes /\ end' # None
        /\ end'.verdict = "fail" /\ end'.at = at /\ end'.clock = clock /\ end'.saved = saved
    <3>1. clock + 0 = clock
      BY DEF RunTyped
    <3>2. QED BY <2>1, <3>1, FailFacts
  <2>3. ASSUME NEW a, LooksLike(a), NEW b, PassesTo(a, s, None, b)
        PROVE  FALSE
    <3>1. host = FALSE
      BY <1>7, <2>3 DEF PassesTo, HostPass
    <3>2. VirtualPass(a, s, None, b) /\ files = a.files /\ snaps = a.snaps
      BY <2>3, <3>1 DEF PassesTo, LooksLike
    <3>3. QED BY <1>7, <3>2 DEF VirtualPass
  <2>4. ASSUME NEW a, LooksLike(a), NEW o, EndsWith(a, s, None, o)
        PROVE  /\ end' # None /\ end'.verdict = o.verdict
               /\ end'.clock = o.clock /\ end'.saved = o.saved
    <3>1. saved = a.saved /\ clock = a.clock
      BY <2>4 DEF LooksLike
    <3>2. o.verdict = "fail" /\ o.clock = a.clock /\ o.saved = a.saved
      <4>1. CASE host
        BY <1>7, <2>4, <4>1 DEF EndsWith, HostEnd
      <4>2. CASE ~ host
        BY <2>4, <4>2 DEF EndsWith, VirtualEnd
      <4>3. QED BY <4>1, <4>2
    <3>3. QED BY <2>2, <3>1, <3>2
  <2>5. Moves(s, None)
    BY <1>1, <1>3, <1>4, <2>2 DEF Moves
  <2>6. QED BY <1>3, <2>3, <2>4, <2>5 DEF Repeats
<1>8. CASE s.op = "write" /\ VirtualWrite(s)
  BY <1>6, <1>8 DEF VirtualWrite
<1>9. CASE s.op = "read" /\ VirtualRead(s)
  BY <1>6, <1>7, <1>9 DEF VirtualRead, Reasons
<1>10. CASE s.op = "snapshot" /\ VirtualSnapshot(s)
  BY <1>6, <1>10 DEF VirtualSnapshot
<1>11. CASE s.op = "restore" /\ VirtualRestore(s)
  BY <1>6, <1>7, <1>11 DEF VirtualRestore, Reasons
<1>12. QED BY <1>1, <1>8, <1>9, <1>10, <1>11
LEMMA RepeatedFromLog ==
  ASSUME RunTyped, phase = "replay", Replayed
  PROVE  \E s : Moves(s, None) /\ \A a : LooksLike(a) => Repeats(a, s, log[at + 1])
<1>1. PICK s \in FileSteps : Due(s) /\
        \/ s.op = "write" /\ ReplayedWrite(s)
        \/ s.op = "read" /\ ReplayedRead(s)
        \/ s.op = "snapshot" /\ ReplayedSnapshot(s)
        \/ s.op = "restore" /\ ReplayedRestore(s)
  BY DEF Replayed
<1> DEFINE d == log[at + 1]
<1>2. d = Logged /\ d # None /\ d.took \in Nat /\ LogsBody(s, None)
  BY <1>1, LoggedFacts DEF Replayed, FromLog
<1> HIDE DEF d
<1>3. UNCHANGED <<mem, web>> /\ s.op # "request"
  BY <1>1 DEF ReplayedWrite, ReplayedRead, ReplayedSnapshot, ReplayedRestore
<1>4. rules' \in Seq(Rules) /\ saved' \in Bodies \cup {None} /\ UNCHANGED <<files, snaps, saved>>
  BY <1>3 DEF RunTyped, web, mem
<1>5. s.op = "read" => ReadInto(s.path)[<<"raw", s.path>>] = d.got
  <2>1. s.op = "read" => <<"raw", s.path>> \in Keys
    BY StepFields DEF Keys
  <2>2. DOMAIN overlay = Keys
    BY DEF RunTyped
  <2>3. QED BY <1>2, <2>1, <2>2 DEF ReadInto
<1>6. CASE /\ Pass(s, None, d.took)
           /\ \/ s.op = "write" /\ ReplayedWrite(s)
              \/ s.op = "read" /\ ReplayedRead(s) /\ d.got = s.data
              \/ s.op = "snapshot" /\ ReplayedSnapshot(s)
              \/ s.op = "restore" /\ ReplayedRestore(s) /\ overlaySnaps[s.name] # None
  <2>1. Remember(s, None) /\ clock' = clock + d.took /\ clock' \in Nat /\ end' = None
    BY <1>2, <1>6, PassFacts
  <2>2. UNCHANGED host
    BY <1>1, <2>1, LoggedFacts
  <2>3. ASSUME NEW a, LooksLike(a), NEW b, PassesTo(a, s, d, b)
        PROVE  LooksLike(b)'
    <3>1. host
      BY <1>2, <2>3 DEF PassesTo, VirtualPass
    <3>2. HostPass(a, s, d, b) /\ s.op # "when"
      BY <1>6, <2>3, <3>1 DEF PassesTo
    <3>3. saved = a.saved /\ clock = a.clock /\ files = Empty /\ snaps = NoSnaps
          /\ overlaySnaps = a.saves
      BY <2>3, <3>1 DEF LooksLike
    <3>4. b.saved = saved /\ b.clock = clock'
      BY <1>3, <2>1, <3>2, <3>3 DEF HostPass
    <3>5. overlaySnaps' = b.saves
      <4>1. CASE s.op = "write" /\ ReplayedWrite(s)
        BY <3>2, <3>3, <4>1 DEF HostPass, ReplayedWrite
      <4>2. CASE s.op = "read" /\ ReplayedRead(s)
        BY <3>2, <3>3, <4>2 DEF HostPass, ReplayedRead
      <4>3. CASE s.op = "snapshot" /\ ReplayedSnapshot(s)
        BY <1>2, <3>2, <3>3, <4>3 DEF HostPass, ReplayedSnapshot
      <4>4. CASE s.op = "restore" /\ ReplayedRestore(s)
        BY <3>2, <3>3, <4>4 DEF HostPass, ReplayedRestore
      <4>5. QED BY <1>6, <4>1, <4>2, <4>3, <4>4
    <3>6. QED BY <1>4, <2>2, <3>1, <3>3, <3>4, <3>5 DEF LooksLike, Empty, NoSnaps
  <2>4. ASSUME NEW a, LooksLike(a), NEW o, EndsWith(a, s, d, o)
        PROVE  FALSE
    BY <1>2, <1>6, <2>4 DEF EndsWith, HostEnd, VirtualEnd
  <2>5. Moves(s, None)
    BY <1>1, <1>2, <1>4, <2>1 DEF Moves
  <2>6. QED BY <2>1, <2>3, <2>4, <2>5 DEF Repeats, d
<1>7. CASE \E why \in Reasons :
           /\ Fail(s, None, 0, "fail", why)
           /\ \/ s.op = "read" /\ d.got # s.data
              \/ s.op = "restore" /\ overlaySnaps[s.name] = None
  <2>1. PICK why \in Reasons : Fail(s, None, 0, "fail", why)
    BY <1>7
  <2>2. Remember(s, None) /\ clock' \in Nat /\ end' \in Outcomes /\ end' # None /\ end'.at = at
    BY <2>1, FailFacts
  <2>3. ASSUME NEW a, LooksLike(a), NEW b, PassesTo(a, s, d, b)
        PROVE  FALSE
    <3>1. host
      BY <1>2, <2>3 DEF PassesTo, VirtualPass
    <3>2. HostPass(a, s, d, b) /\ s.op # "when" /\ overlaySnaps = a.saves
      BY <1>7, <2>3, <3>1 DEF PassesTo, LooksLike
    <3>3. QED BY <1>7, <3>2 DEF HostPass
  <2>4. ASSUME NEW a, LooksLike(a), NEW o, EndsWith(a, s, d, o)
        PROVE  FALSE
    BY <1>2, <1>3, <2>4 DEF EndsWith, HostEnd, VirtualEnd
  <2>5. Moves(s, None)
    BY <1>1, <1>2, <1>4, <2>2 DEF Moves
  <2>6. QED BY <2>3, <2>4, <2>5 DEF Repeats, d
<1>8. CASE s.op = "write" /\ ReplayedWrite(s)
  BY <1>2, <1>6, <1>8 DEF ReplayedWrite
<1>9. CASE s.op = "read" /\ ReplayedRead(s)
  <2>1. CASE d.got = s.data
    <3>1. Pass(s, None, d.took)
      BY <1>2, <1>5, <1>9, <2>1 DEF ReplayedRead
    <3>2. QED BY <1>6, <1>9, <2>1, <3>1
  <2>2. CASE d.got # s.data
    <3>1. Fail(s, None, 0, "fail", "fs_read_assert")
      BY <1>5, <1>9, <2>2 DEF ReplayedRead
    <3>2. QED BY <1>7, <1>9, <2>2, <3>1 DEF Reasons
  <2>3. QED BY <2>1, <2>2
<1>10. CASE s.op = "snapshot" /\ ReplayedSnapshot(s)
  BY <1>2, <1>6, <1>10 DEF ReplayedSnapshot
<1>11. CASE s.op = "restore" /\ ReplayedRestore(s)
  <2>1. CASE overlaySnaps[s.name] # None
    <3>1. Pass(s, None, d.took)
      BY <1>2, <1>11, <2>1 DEF ReplayedRestore
    <3>2. QED BY <1>6, <1>11, <2>1, <3>1
  <2>2. CASE overlaySnaps[s.name] = None
    <3>1. Fail(s, None, 0, "fail", "fs_restore_missing_snapshot")
      BY <1>11, <2>2 DEF ReplayedRestore
    <3>2. QED BY <1>7, <1>11, <2>2, <3>1 DEF Reasons
  <2>3. QED BY <2>1, <2>2
<1>12. QED BY <1>1, <1>8, <1>9, <1>10, <1>11

LEMMA RepeatedWhen ==
  ASSUME RunTyped, phase = "replay", NEW s \in WebSteps, Due(s), s.op = "when", When(s)
  PROVE  Moves(s, None) /\ \A a : LooksLike(a) => Repeats(a, s, log[at + 1])
<1>1. UNCHANGED <<mem, view, root, saved>> /\ LogsBody(s, None)
  BY DEF When, LogsBody
<1>2. /\ rules' = Append(rules, [path |-> s.path, body |-> s.body, left |-> s.times])
      /\ Pass(s, None, 0)
  BY DEF When, OnHost
<1>3. Remember(s, None) /\ clock' = clock /\ clock' \in Nat /\ end' = None
  BY <1>2, PassFacts DEF RunTyped
<1>4. Moves(s, None)
  BY <1>1, <1>2, <1>3, WhenRules DEF Moves, RunTyped
<1>5. UNCHANGED host
  BY <1>3, LoggedFacts
<1>6. ASSUME NEW a, LooksLike(a), NEW b, PassesTo(a, s, log[at + 1], b)
      PROVE  LooksLike(b)'
  <2>1. CASE host
    <3>1. HostPass(a, s, log[at + 1], b) /\ saved = a.saved /\ clock = a.clock
          /\ files = Empty /\ snaps = NoSnaps /\ overlaySnaps = a.saves
      BY <1>6, <2>1 DEF PassesTo, LooksLike
    <3>2. b.saves = a.saves /\ b.saved = a.saved /\ b.clock = a.clock
      BY <3>1 DEF HostPass
    <3>3. QED BY <1>1, <1>3, <1>5, <2>1, <3>1, <3>2 DEF LooksLike, mem, view, Empty, NoSnaps
  <2>2. CASE ~ host
    <3>1. VirtualPass(a, s, log[at + 1], b) /\ saved = a.saved /\ clock = a.clock
          /\ files = a.files /\ snaps = a.snaps /\ rules = a.rules
      BY <1>6, <2>2 DEF PassesTo, LooksLike
    <3>2. QED BY <1>1, <1>2, <1>3, <1>5, <2>2, <3>1 DEF LooksLike, mem, VirtualPass
  <2>3. QED BY <2>1, <2>2
<1>7. ASSUME NEW a, NEW o, EndsWith(a, s, log[at + 1], o)
      PROVE  FALSE
  BY <1>7 DEF EndsWith, HostEnd, VirtualEnd
<1>8. QED BY <1>3, <1>4, <1>6, <1>7 DEF Repeats
LEMMA RepeatedScripted ==
  ASSUME RunTyped, phase = "replay", NEW s \in WebSteps, Due(s), s.op = "request",
         ScriptedRequest(s)
  PROVE  Moves(s, None) /\ \A a : LooksLike(a) => Repeats(a, s, log[at + 1])
<1>1. UNCHANGED <<mem, root>> /\ LogsBody(s, None) /\ log[at + 1] = None
  BY LoggedFacts DEF ScriptedRequest, LogsBody, Simulated, FromLog
<1>2. ASSUME NEW a, LooksLike(a), host
      PROVE  Repeats(a, s, None)
  BY <1>2 DEF Repeats, PassesTo, EndsWith, HostPass, HostEnd
<1>3. ASSUME NEW a, LooksLike(a), ~ host
      PROVE  /\ saved = a.saved /\ clock = a.clock
             /\ files = a.files /\ snaps = a.snaps /\ rules = a.rules
             /\ \A b : PassesTo(a, s, None, b) <=> VirtualPass(a, s, None, b)
             /\ \A o : EndsWith(a, s, None, o) <=> VirtualEnd(a, s, None, o)
  BY <1>3 DEF LooksLike, PassesTo, EndsWith
<1> DEFINE fits == Fits(rules, s.path)
           i    == Min(fits)
           body == rules[i].body
<1>4. CASE fits = {}
  <2>1. Fail(s, None, 0, "fail", "http_unmatched") /\ UNCHANGED <<rules, saved>>
    BY <1>4, FitsIsScripted DEF ScriptedRequest
  <2>2. "http_unmatched" \in Reasons /\ clock + 0 = clock
    BY DEF Reasons, RunTyped
  <2>3. /\ Remember(s, None) /\ clock' \in Nat /\ end' \in Outcomes /\ end' # None
        /\ end'.verdict = "fail" /\ end'.at = at /\ end'.clock = clock /\ end'.saved = saved
    BY <2>1, <2>2, FailFacts
  <2>4. ASSUME NEW a, LooksLike(a), ~ host
        PROVE  Repeats(a, s, None)
    <3>1. \A b : ~ VirtualPass(a, s, None, b)
      BY <1>3, <1>4, <2>4 DEF VirtualPass
    <3>2. \A o : VirtualEnd(a, s, None, o) =>
             o.verdict = "fail" /\ o.clock = clock /\ o.saved = saved
      BY <1>3, <2>4 DEF VirtualEnd
    <3>3. QED BY <1>3, <2>3, <2>4, <3>1, <3>2 DEF Repeats
  <2>5. Moves(s, None)
    BY <1>1, <2>1, <2>3 DEF Moves, RunTyped
  <2>6. QED BY <1>1, <1>2, <2>4, <2>5
<1>5. CASE fits # {}
  <2>1. rules' = UsedUp(rules, i) /\ Answered(s, body, None, 0)
    BY <1>5, FitsIsScripted, UsedIsUsedUp DEF ScriptedRequest
  <2>2. body \in Bodies /\ rules' \in Seq(Rules)
    <3>1. fits \subseteq {j \in DOMAIN rules : Open(j)} /\ rules \in Seq(Rules)
      BY DEF Fits, Open, RunTyped
    <3>2. QED BY <1>5, <2>1, <3>1, RuleFacts, UsedIsUsedUp
  <2>3. CASE s.expect \in {None, body}
    <3>1. Pass(s, None, 0) /\ saved' = body
      BY <2>1, <2>3 DEF Answered
    <3>2. Remember(s, None) /\ clock' = clock /\ clock' \in Nat /\ end' = None
      <4>1. clock \in Nat /\ clock + 0 = clock
        BY DEF RunTyped
      <4>2. QED BY <3>1, <4>1, PassFacts, SMTT(30)
    <3>3. UNCHANGED host
      BY <3>2, LoggedFacts
    <3>4. ASSUME NEW a, LooksLike(a), ~ host
          PROVE  Repeats(a, s, None)
      <4>1. ASSUME NEW b, VirtualPass(a, s, None, b)
            PROVE  LooksLike(b)'
        <5>1. /\ b.saved = body /\ b.rules = UsedUp(rules, i) /\ b.files = files
              /\ b.snaps = snaps /\ b.clock = clock
          BY <1>3, <3>4, <4>1 DEF VirtualPass
        <5>2. QED BY <1>1, <2>1, <3>1, <3>2, <3>3, <3>4, <5>1 DEF LooksLike, mem
      <4>2. \A o : ~ VirtualEnd(a, s, None, o)
        BY <1>3, <1>5, <2>3, <3>4 DEF VirtualEnd
      <4>3. QED BY <1>3, <3>2, <3>4, <4>1, <4>2 DEF Repeats
    <3>5. Moves(s, None)
      BY <1>1, <2>2, <3>1, <3>2 DEF Moves
    <3>6. QED BY <1>1, <1>2, <3>4, <3>5
  <2>4. CASE s.expect \notin {None, body}
    <3>1. Fail(s, None, 0, "fail", "http_body") /\ saved' = saved
      BY <2>1, <2>4 DEF Answered
    <3>2. "http_body" \in Reasons /\ clock + 0 = clock
      BY DEF Reasons, RunTyped
    <3>3. /\ Remember(s, None) /\ clock' \in Nat /\ end' \in Outcomes /\ end' # None
          /\ end'.verdict = "fail" /\ end'.at = at /\ end'.clock = clock /\ end'.saved = saved
      BY <3>1, <3>2, FailFacts
    <3>4. ASSUME NEW a, LooksLike(a), ~ host
          PROVE  Repeats(a, s, None)
      <4>1. \A b : ~ VirtualPass(a, s, None, b)
        BY <1>3, <2>4, <3>4 DEF VirtualPass
      <4>2. \A o : VirtualEnd(a, s, None, o) =>
               o.verdict = "fail" /\ o.clock = clock /\ o.saved = saved
        BY <1>3, <3>4 DEF VirtualEnd
      <4>3. QED BY <1>3, <3>3, <3>4, <4>1, <4>2 DEF Repeats
    <3>5. Moves(s, None)
      BY <1>1, <2>2, <3>1, <3>3 DEF Moves, RunTyped
    <3>6. QED BY <1>1, <1>2, <3>4, <3>5
  <2>5. QED BY <2>3, <2>4
<1>6. QED BY <1>4, <1>5

LEMMA RepeatedRequest ==
  ASSUME RunTyped, phase = "replay", NEW s \in WebSteps, Due(s), s.op = "request",
         ReplayedRequest(s)
  PROVE  Moves(s, None) /\ \A a : LooksLike(a) => Repeats(a, s, log[at + 1])
<1>1. UNCHANGED <<mem, view, root, rules>> /\ LogsBody(s, None)
  BY DEF ReplayedRequest, LogsBody
<1> DEFINE d == log[at + 1]
<1>2. d = Logged /\ d # None /\ d.took \in Nat /\ d.got \in Bodies \cup {None}
  BY LoggedFacts DEF ReplayedRequest, FromLog, LogsBody
<1> HIDE DEF d
<1>3. rules' \in Seq(Rules)
  BY <1>1 DEF RunTyped
<1>4. ASSUME NEW a, LooksLike(a)
      PROVE  /\ saved = a.saved /\ clock = a.clock
             /\ host => files = Empty /\ snaps = NoSnaps /\ overlaySnaps = a.saves
             /\ \A b : PassesTo(a, s, d, b) =>
                  /\ host /\ d.got # None /\ s.expect \in {None, d.got}
                  /\ b.saved = d.got /\ b.saves = a.saves /\ b.clock = a.clock + d.took
             /\ \A o : EndsWith(a, s, d, o) =>
                  /\ o.saved = a.saved /\ o.clock = a.clock + d.took
                  /\ \/ d.got = None /\ o.verdict = "timeout"
                     \/ d.got # None /\ s.expect \notin {None, d.got} /\ o.verdict = "fail"
  <2>1. saved = a.saved /\ clock = a.clock
             /\ (host => files = Empty /\ snaps = NoSnaps /\ overlaySnaps = a.saves)
    BY <1>4 DEF LooksLike
  <2>2. ASSUME NEW b, PassesTo(a, s, d, b)
        PROVE  /\ host /\ d.got # None /\ s.expect \in {None, d.got}
               /\ b.saved = d.got /\ b.saves = a.saves /\ b.clock = a.clock + d.took
    BY <1>2, <2>2 DEF PassesTo, HostPass, VirtualPass
  <2>3. ASSUME NEW o, EndsWith(a, s, d, o)
        PROVE  /\ o.saved = a.saved /\ o.clock = a.clock + d.took
               /\ \/ d.got = None /\ o.verdict = "timeout"
                  \/ d.got # None /\ s.expect \notin {None, d.got} /\ o.verdict = "fail"
    BY <1>2, <2>3 DEF EndsWith, HostEnd, VirtualEnd
  <2>4. QED BY <2>1, <2>2, <2>3
<1>5. ASSUME NEW why \in Reasons, NEW verdict \in {"fail", "timeout"},
             Fail(s, None, d.took, verdict, why), saved' = saved,
             \/ d.got = None /\ verdict = "timeout"
             \/ d.got # None /\ s.expect \notin {None, d.got} /\ verdict = "fail"
      PROVE  Moves(s, None) /\ \A a : LooksLike(a) => Repeats(a, s, d)
  <2>1. /\ Remember(s, None) /\ clock' \in Nat /\ end' \in Outcomes /\ end' # None
        /\ end'.verdict = verdict /\ end'.at = at /\ end'.clock = clock + d.took
        /\ end'.saved = saved
    <3>1. Fail(s, None, d.took, verdict, why) /\ d.took \in Nat
      BY <1>2, <1>5
    <3>2. QED BY <1>5, <3>1, FailFacts, SMTT(60)
  <2>2. Moves(s, None)
    BY <1>1, <1>3, <1>5, <2>1 DEF Moves, RunTyped
  <2>3. ASSUME NEW a, LooksLike(a)
        PROVE  Repeats(a, s, d)
    <3>1. \A b : ~ PassesTo(a, s, d, b)
      BY <1>4, <1>5, <2>3
    <3>2. \A o : EndsWith(a, s, d, o) =>
            o.verdict = verdict /\ o.clock = clock + d.took /\ o.saved = saved
      BY <1>4, <1>5, <2>3
    <3>3. QED BY <2>1, <3>1, <3>2 DEF Repeats
  <2>4. QED BY <2>2, <2>3
<1>6. CASE d.got = None
  <2>1. Fail(s, None, d.took, "timeout", "timeout") /\ saved' = saved
    BY <1>2, <1>6 DEF ReplayedRequest
  <2>2. QED BY <1>5, <1>6, <2>1 DEF Reasons, d
<1>7. CASE d.got # None /\ s.expect \notin {None, d.got}
  <2>1. Fail(s, None, d.took, "fail", "http_body") /\ saved' = saved
    BY <1>2, <1>7 DEF ReplayedRequest, Answered
  <2>2. QED BY <1>5, <1>7, <2>1 DEF Reasons, d
<1>8. CASE d.got # None /\ s.expect \in {None, d.got}
  <2>1. Pass(s, None, d.took) /\ saved' = d.got
    BY <1>2, <1>8 DEF ReplayedRequest, Answered
  <2>2. Remember(s, None) /\ clock' = clock + d.took /\ clock' \in Nat /\ end' = None
    BY <1>2, <2>1, PassFacts
  <2>3. UNCHANGED host
    BY <2>2, LoggedFacts
  <2>4. Moves(s, None)
    BY <1>1, <1>2, <1>3, <2>1, <2>2 DEF Moves
  <2>5. ASSUME NEW a, LooksLike(a)
        PROVE  Repeats(a, s, d)
    <3>1. ASSUME NEW b, PassesTo(a, s, d, b)
          PROVE  LooksLike(b)'
      <4>1. host /\ b.saved = d.got /\ b.saves = overlaySnaps /\ b.clock = clock + d.took
            /\ files = Empty /\ snaps = NoSnaps
        BY <1>4, <2>5, <3>1
      <4>2. QED BY <1>1, <2>1, <2>2, <2>3, <4>1 DEF LooksLike, mem, view, Empty, NoSnaps
    <3>2. \A o : ~ EndsWith(a, s, d, o)
      BY <1>4, <1>8, <2>5
    <3>3. QED BY <2>2, <3>1, <3>2 DEF Repeats
  <2>6. QED BY <2>4, <2>5 DEF d
<1>9. QED BY <1>6, <1>7, <1>8

LEMMA RepeatedStep ==
  ASSUME RunTyped, phase = "replay", Virtual \/ Host \/ Replayed \/ Web
  PROVE  \E s : Moves(s, None) /\ \A a : LooksLike(a) => Repeats(a, s, log[at + 1])
<1>1. CASE Web
  <2>1. PICK s \in WebSteps : Due(s) /\
          \/ s.op = "when" /\ When(s)
          \/ s.op = "request" /\ (ScriptedRequest(s) \/ HostRequest(s) \/ ReplayedRequest(s))
    BY <1>1 DEF Web
  <2>2. ~ HostRequest(s)
    BY DEF HostRequest, OnHost
  <2>3. QED BY <2>1, <2>2, RepeatedWhen, RepeatedScripted, RepeatedRequest
<1>2. ~ Host
  BY DEF Host, OnHost
<1>3. QED BY <1>1, <1>2, RepeatedVirtual, RepeatedFromLog
-----------------------------------------------------------------------------
(* The run stays typed. *)

LEMMA AllDoneFacts ==
  ASSUME RunTyped
  PROVE  /\ AllDone \in Outcomes /\ AllDone # None
         /\ AllDone.at = at /\ AllDone.clock = clock /\ AllDone.saved = saved
<1>1. clock + 0 = clock /\ at \in Nat /\ clock \in Nat /\ saved \in Bodies \cup {None}
  BY DEF RunTyped
<1>2. PICK verdict \in {"pass", "fail"}, why \in Reasons : AllDone = Outcome(verdict, why, 0)
  BY DEF AllDone, Reasons
<1>3. AllDone = [verdict |-> verdict, why |-> why, at |-> at, clock |-> clock, saved |-> saved]
  BY <1>1, <1>2 DEF Outcome
<1>4. AllDone \in Outcomes
  BY <1>1, <1>3 DEF Outcomes
<1>5. QED BY <1>3, <1>4, OptionAssumption

LEMMA VerdictStable ==
  ASSUME UNCHANGED script
  PROVE  AllDone.verdict' = AllDone.verdict
BY DEF AllDone, Outcome

LEMMA OverlayKept ==
  ASSUME RunTyped, [Next]_vars
  PROVE  (overlay = [k \in Keys |-> overlay[k]])'
<1>1. overlay = [k \in Keys |-> overlay[k]]
  BY DEF RunTyped
<1>2. CASE UNCHANGED overlay
  BY <1>1, <1>2
<1>3. CASE Replayed
  <2>1. PICK s \in FileSteps :
          ReplayedWrite(s) \/ ReplayedRead(s) \/ ReplayedSnapshot(s) \/ ReplayedRestore(s)
    BY <1>3 DEF Replayed
  <2>2. CASE ReplayedWrite(s)
    BY <1>1, <2>2 DEF ReplayedWrite
  <2>3. CASE ReplayedRead(s)
    BY <1>1, <2>3 DEF ReplayedRead, ReadInto
  <2>4. CASE ReplayedSnapshot(s)
    BY <1>1, <2>4 DEF ReplayedSnapshot
  <2>5. CASE ReplayedRestore(s)
    <3>1. CASE UNCHANGED overlay
      BY <1>1, <3>1
    <3>2. CASE ~ UNCHANGED overlay
      BY <2>5, <3>2 DEF ReplayedRestore
    <3>3. QED BY <3>1, <3>2
  <2>6. QED BY <2>1, <2>2, <2>3, <2>4, <2>5
<1>4. CASE StartReplay
  BY <1>4 DEF StartReplay
<1>5. CASE Virtual
  BY <1>2, <1>5 DEF Virtual, VirtualWrite, VirtualRead, VirtualSnapshot, VirtualRestore, view
<1>6. CASE Host
  <2>1. PICK s \in FileSteps : HostWrite(s) \/ HostRead(s) \/ HostSnapshot(s) \/ HostRestore(s)
    BY <1>6 DEF Host
  <2>2. UNCHANGED view
    BY <2>1 DEF HostWrite, HostRead, HostSnapshot, HostRestore
  <2>3. QED BY <1>2, <2>2 DEF view
<1>7. CASE Web
  <2>1. UNCHANGED view
    BY <1>7 DEF Web, When, ScriptedRequest, HostRequest, ReplayedRequest
  <2>2. QED BY <1>2, <2>1 DEF view
<1>8. CASE \/ \E p \in Paths \ Refused, e \in Data \cup {None} : Meddle(p, e)
           \/ EndRecording \/ EndReplay \/ UNCHANGED vars
  <2>1. UNCHANGED view
    BY <1>8 DEF Meddle, EndRecording, EndReplay, vars
  <2>2. QED BY <1>2, <2>1 DEF view
<1>9. QED BY <1>3, <1>4, <1>5, <1>6, <1>7, <1>8 DEF Next

LEMMA RecordTyped ==
  ASSUME RunTyped, phase = "record", NEW s, NEW d, Moves(s, d), [Next]_vars
  PROVE  RunTyped'
<1>1. /\ script' = Append(script, s) /\ log' = Append(log, d) /\ at' = at + 1
      /\ phase' = "record"
  BY DEF Moves, Remember
<1> DEFINE n == Len(script)
<1>2. /\ n \in Nat /\ at = n /\ Len(log) = n /\ script \in Seq(FileSteps \cup WebSteps)
      /\ log \in Seq(Decisions \cup {None})
      /\ s \in FileSteps \cup WebSteps /\ d \in Decisions \cup {None} /\ LogsBody(s, d)
  BY DEF RunTyped, Moves
<1>3. /\ script' \in Seq(FileSteps \cup WebSteps) /\ log' \in Seq(Decisions \cup {None})
      /\ Len(script') = n + 1 /\ Len(log') = n + 1
      /\ \A i \in 1..n : script'[i] = script[i] /\ log'[i] = log[i]
      /\ script'[n + 1] = s /\ log'[n + 1] = d
  BY <1>1, <1>2
<1>4. \A i \in 1..Len(script') : LogsBody(script'[i], log'[i])
  <2>1. \A i \in 1..n : LogsBody(script[i], log[i])
    BY DEF RunTyped
  <2> HIDE DEF n
  <2>2. \A i \in 1..n + 1 : i \in 1..n \/ i = n + 1
    BY <1>2
  <2>3. QED BY <1>2, <1>3, <2>1, <2>2
<1>5. /\ clock' \in Nat /\ rules' \in Seq(Rules) /\ saved' \in Bodies \cup {None}
      /\ end' \in Outcomes \cup {None}
  BY DEF Moves
<1>6. (overlay = [k \in Keys |-> overlay[k]])'
  BY OverlayKept
<1>7. at' \in 0..Len(script') /\ at' = Len(script') /\ Len(log') = Len(script')
  BY <1>1, <1>2, <1>3
<1>8. \A t, e : LogsBody(t, e)' <=> LogsBody(t, e)
  BY DEF LogsBody
<1>9. QED BY <1>1, <1>3, <1>4, <1>5, <1>6, <1>7, <1>8 DEF RunTyped

LEMMA ReplayTyped ==
  ASSUME RunTyped, phase = "replay", NEW s, Moves(s, None), [Next]_vars
  PROVE  RunTyped'
<1>1. at < Len(script) /\ UNCHANGED <<phase, script, log, recorded>> /\ at' = at + 1
  BY LoggedFacts DEF Moves, Remember
<1>2. /\ clock' \in Nat /\ rules' \in Seq(Rules) /\ saved' \in Bodies \cup {None}
      /\ end' \in Outcomes \cup {None}
  BY DEF Moves
<1>3. (overlay = [k \in Keys |-> overlay[k]])'
  BY OverlayKept
<1>4. at' \in 0..Len(script')
  BY <1>1 DEF RunTyped
<1>5. \A i \in 1..Len(script') : LogsBody(script'[i], log'[i])
  BY <1>1 DEF RunTyped
<1>6. QED BY <1>1, <1>2, <1>3, <1>4, <1>5 DEF RunTyped

LEMMA RunTypedStep ==
  ASSUME IInv, RunTyped, [Next]_vars
  PROVE  RunTyped'
<1>1. phase = "record" \/ phase = "replay"
  BY DEF RunTyped
<1>2. CASE Virtual \/ Host \/ Replayed \/ Web
  <2>1. CASE phase = "record"
    <3>1. ~ Replayed
      BY <2>1 DEF Replayed, FromLog, Logged
    <3>2. QED BY <1>2, <2>1, <3>1, RecordedStep, RecordTyped DEF Recorded
  <2>2. CASE phase = "replay"
    BY <1>2, <2>2, RepeatedStep, ReplayTyped
  <2>3. QED BY <1>1, <2>1, <2>2
<1>3. CASE \/ \E p \in Paths \ Refused, e \in Data \cup {None} : Meddle(p, e)
           \/ UNCHANGED vars
  <2>1. UNCHANGED <<plan, view, web>>
    BY <1>3 DEF Meddle, vars
  <2>2. QED BY <2>1 DEF RunTyped, plan, view, web, LogsBody
<1>4. CASE EndRecording \/ EndReplay
  <2>1. UNCHANGED <<phase, script, log, at, clock, recorded, view, web>>
    BY <1>4 DEF EndRecording, EndReplay
  <2>2. end' \in Outcomes
    <3>1. CASE EndReplay /\ more
      <4>1. "replay_drift" \in Reasons /\ clock + 0 = clock /\ at \in Nat
            /\ clock \in Nat /\ saved \in Bodies \cup {None}
        BY DEF Reasons, RunTyped
      <4>2. end' = [verdict |-> "error", why |-> "replay_drift", at |-> at,
                    clock |-> clock, saved |-> saved]
        BY <3>1, <4>1 DEF EndReplay, Outcome
      <4>3. QED BY <4>1, <4>2 DEF Outcomes
    <3>2. CASE ~ (EndReplay /\ more)
      BY <1>4, <3>2, AllDoneFacts DEF EndRecording, EndReplay
    <3>3. QED BY <3>1, <3>2
  <2>3. QED BY <2>1, <2>2 DEF RunTyped, view, web, LogsBody
<1>5. CASE StartReplay
  <2>1. /\ phase' = "replay" /\ recorded' \in Outcomes /\ rules' = <<>> /\ saved' = None
        /\ clock' = 0 /\ at' = 0 /\ end' = None /\ UNCHANGED <<script, log>>
    BY <1>5 DEF StartReplay, RunTyped
  <2>2. at' \in 0..Len(script') /\ rules' \in Seq(Rules)
    BY <2>1 DEF RunTyped
  <2>3. QED BY <2>1, <2>2, OverlayKept DEF RunTyped, LogsBody
<1>6. QED BY <1>2, <1>3, <1>4, <1>5 DEF Next
-----------------------------------------------------------------------------
(* The history goes on with the recording, and the replay follows it. *)

(* The rules of a step depend on nothing but the backend. *)
LEMMA RulesStable ==
  ASSUME UNCHANGED host, NEW a, NEW s, NEW d, NEW b
  PROVE  (PassesTo(a, s, d, b)' <=> PassesTo(a, s, d, b))
         /\ (EndsWith(a, s, d, b)' <=> EndsWith(a, s, d, b))
<1>1. (HostPass(a, s, d, b)' <=> HostPass(a, s, d, b))
      /\ (VirtualPass(a, s, d, b)' <=> VirtualPass(a, s, d, b))
  BY DEF HostPass, VirtualPass, Alike, Fits, UsedUp
<1>2. (HostEnd(a, s, d, b)' <=> HostEnd(a, s, d, b))
      /\ (VirtualEnd(a, s, d, b)' <=> VirtualEnd(a, s, d, b))
  BY DEF HostEnd, VirtualEnd, Fits
<1>3. QED BY <1>1, <1>2 DEF PassesTo, EndsWith

LEMMA EndOfStable ==
  ASSUME UNCHANGED <<script, log, host>>, NEW h, NEW o, EndOf(h, o)
  PROVE  EndOf(h, o)'
<1>1. AllDone.verdict' = AllDone.verdict
  BY VerdictStable
<1>2. QED BY <1>1, RulesStable DEF EndOf

LEMMA PassesPrimed ==
  ASSUME UNCHANGED host, NEW h, NEW i,
         PassesTo(h[i - 1], script'[i], log'[i], h[i])
  PROVE  PassesTo(h[i - 1], script[i], log[i], h[i])'
<1>1. CASE host
  <2>1. HostPass(h[i - 1], script'[i], log'[i], h[i])
    BY <1>1 DEF PassesTo
  <2>2. HostPass(h[i - 1], script[i], log[i], h[i])'
    BY <2>1 DEF HostPass
  <2>3. QED BY <1>1, <2>2 DEF PassesTo
<1>2. CASE ~ host
  <2>1. VirtualPass(h[i - 1], script'[i], log'[i], h[i])
    BY <1>2 DEF PassesTo
  <2>2. VirtualPass(h[i - 1], script[i], log[i], h[i])'
    BY <2>1 DEF VirtualPass, Alike, Fits, UsedUp
  <2>3. QED BY <1>2, <2>2 DEF PassesTo
<1>3. QED BY <1>1, <1>2

LEMMA PassesStable ==
  ASSUME UNCHANGED <<script, log, host>>, NEW h, NEW n,
         \A i \in 1..n : PassesTo(h[i - 1], script[i], log[i], h[i])
  PROVE  \A i \in 1..n : PassesTo(h[i - 1], script[i], log[i], h[i])'
<1>1. \A i \in 1..n : PassesTo(h[i - 1], script'[i], log'[i], h[i])
  OBVIOUS
<1>2. UNCHANGED host
  OBVIOUS
<1>3. QED BY <1>1, <1>2, PassesPrimed

LEMMA HistoryRecorded ==
  ASSUME RunTyped, phase = "record", NEW s, NEW d, Recorded(s, d), HistoryInv
  PROVE  HistoryInv'
<1> DEFINE n == Len(script)
<1>1. /\ n \in Nat /\ at = n /\ Len(log) = n /\ end = None
      /\ script \in Seq(FileSteps \cup WebSteps) /\ log \in Seq(Decisions \cup {None})
      /\ s \in FileSteps \cup WebSteps /\ d \in Decisions \cup {None}
  BY DEF RunTyped, Recorded, Moves, Due
<1>2. /\ script' = Append(script, s) /\ log' = Append(log, d) /\ at' = n + 1
      /\ phase' = "record" /\ UNCHANGED host
  BY <1>1 DEF Recorded, Moves, Remember
<1>3. /\ Len(script') = n + 1 /\ script'[n + 1] = s /\ log'[n + 1] = d
      /\ \A i \in 1..n : script'[i] = script[i] /\ log'[i] = log[i]
  BY <1>1, <1>2
<1>4. PICK h : History(h)
  BY DEF HistoryInv
<1>5. /\ h[0] = Start /\ h[n] = Current
      /\ \A i \in 1..n : PassesTo(h[i - 1], script[i], log[i], h[i])
  BY <1>1, <1>4 DEF History, Passed
<1>6. PICK c : c = Current'
  OBVIOUS
<1>7. PICK m : m = n
  OBVIOUS
<1> HIDE DEF n
<1> DEFINE g == [i \in Nat |-> IF i = m + 1 THEN c ELSE h[i]]
<1>8. g[0] = Start /\ g[n] = Current /\ g[n + 1] = c /\ \A i \in 0..n : g[i] = h[i]
  <2>1. 0 # n + 1 /\ n # n + 1 /\ \A i \in 0..n : i # n + 1 /\ i \in Nat
    BY <1>1
  <2>2. QED BY <1>1, <1>5, <1>7, <2>1
<1> HIDE DEF g
<1>9. \A i \in 1..n : PassesTo(g[i - 1], script'[i], log'[i], g[i])
  <2>1. \A i \in 1..n : i - 1 \in 0..n /\ i \in 0..n
    BY <1>1
  <2>2. QED BY <1>3, <1>5, <1>8, <2>1
<1>10. \A i \in 1..n : PassesTo(g[i - 1], script[i], log[i], g[i])'
  BY <1>2, <1>9, ZenonT(60) DEF PassesTo, HostPass, VirtualPass, Alike, Fits, UsedUp
<1>11. CASE end' = None /\ PassesTo(Current, s, d, Current')
  <2>1. PassesTo(g[n], script'[n + 1], log'[n + 1], g[n + 1])
    BY <1>3, <1>6, <1>8, <1>11
  <2>2. Passed' = n + 1
    BY <1>2, <1>11 DEF Passed
  <2>3. \A i \in 1..n + 1 : i \in 1..n \/ (i = n + 1 /\ i - 1 = n)
    BY <1>1
  <2>4. \A i \in 1..n + 1 : PassesTo(g[i - 1], script'[i], log'[i], g[i])
    BY <1>9, <2>1, <2>3
  <2>5. \A i \in 1..Passed' : PassesTo(g[i - 1], script[i], log[i], g[i])'
    BY <1>2, <2>2, <2>4 DEF PassesTo, HostPass, VirtualPass, Alike, Fits, UsedUp
  <2>6. g[at'] = Current'
    BY <1>2, <1>6, <1>8
  <2>7. History(g)'
    BY <1>2, <1>8, <1>11, <2>5, <2>6 DEF History, Start, NoSnaps, Empty
  <2>8. Follows(g)'
    BY <1>2 DEF Follows
  <2>9. QED BY <2>7, <2>8 DEF HistoryInv
<1>12. CASE end' # None /\ (end'.why \in Unlogged \/ EndsWith(Current, s, d, end'))
  <2>1. end'.at = n
    BY <1>1, <1>12 DEF Recorded, Moves
  <2>2. PICK o : o = end'
    OBVIOUS
  <2>3. o.why \in Unlogged \/ EndsWith(g[n], s, d, o)
    BY <1>8, <1>12, <2>2
  <2>4. o.at \in 0..Len(script') /\ o.at # Len(script') /\ o.at + 1 = Len(script')
    BY <1>1, <1>3, <2>1, <2>2
  <2>5. o.why \in Unlogged \/ EndsWith(g[o.at], script'[o.at + 1], log'[o.at + 1], o)
    BY <1>3, <2>1, <2>2, <2>3
  <2>6. EndOf(g, o)'
    BY <1>2, <2>4, <2>5 DEF EndOf, EndsWith, HostEnd, VirtualEnd, Fits
  <2>7. Passed' = n
    BY <1>2, <1>12, <2>1 DEF Passed
  <2>8. History(g)'
    <3>1. EndOf(g, end)'
      BY <2>2, <2>6
    <3>2. \A i \in 1..Passed' : PassesTo(g[i - 1], script[i], log[i], g[i])'
      BY <1>10, <2>7
    <3>3. QED BY <1>2, <1>8, <1>12, <3>1, <3>2 DEF History, Start, NoSnaps, Empty
  <2>9. Follows(g)'
    BY <1>2 DEF Follows
  <2>10. QED BY <2>8, <2>9 DEF HistoryInv
<1>13. QED BY <1>11, <1>12 DEF Recorded

LEMMA HistoryReplayed ==
  ASSUME RunTyped, phase = "replay", HistoryInv,
         NEW s, Moves(s, None), \A a : LooksLike(a) => Repeats(a, s, log[at + 1])
  PROVE  HistoryInv'
<1>1. /\ at < Len(script) /\ s = script[at + 1] /\ at \in Nat /\ end = None
      /\ UNCHANGED <<menu, host, phase, script, log, recorded, more>> /\ at' = at + 1
      /\ Len(script) \in Nat
  BY LoggedFacts DEF Moves, Remember, Due, RunTyped
<1>2. PICK h : History(h) /\ Follows(h)
  BY DEF HistoryInv
<1>3. History(h)'
  <2>1. EndOf(h, recorded)'
    BY <1>1, <1>2, EndOfStable DEF History
  <2>2. \A i \in 1..Passed : PassesTo(h[i - 1], script[i], log[i], h[i])'
    <3>1. \A i \in 1..Passed : PassesTo(h[i - 1], script[i], log[i], h[i])
      BY <1>2 DEF History
    <3>2. QED BY <1>1, <3>1, PassesStable
  <2>3. Passed' = Passed
    BY <1>1 DEF Passed
  <2>4. QED BY <1>1, <1>2, <2>1, <2>2, <2>3 DEF History, Start, NoSnaps, Empty
<1>4. CASE recorded.why \in Unlogged
  <2>1. Follows(h)'
    BY <1>1, <1>4 DEF Follows
  <2>2. QED BY <1>3, <2>1 DEF HistoryInv
<1>5. CASE recorded.why \notin Unlogged
  <2>1. at <= recorded.at /\ LooksLike(h[at]) /\ EndOf(h, recorded)
    BY <1>1, <1>2, <1>5 DEF Follows, History
  <2>2. recorded.at \in Nat
    BY <2>1, <1>1 DEF EndOf
  <2>3. Repeats(h[at], s, log[at + 1])
    BY <2>1
  <2>4. CASE at < recorded.at
    <3>1. at + 1 \in 1..recorded.at /\ (at + 1) - 1 = at
      BY <1>1, <2>2, <2>4
    <3>2. PassesTo(h[at], s, log[at + 1], h[at + 1])
      BY <1>1, <1>2, <3>1 DEF History, Passed
    <3>3. end' = None /\ LooksLike(h[at])'
      <4>1. PICK b : b = h[at + 1]
        OBVIOUS
      <4>2. end' = None /\ LooksLike(b)'
        BY <2>3, <3>2, <4>1 DEF Repeats
      <4>3. b = h[at']
        BY <1>1, <4>1
      <4>4. QED BY <4>2, <4>3 DEF LooksLike
    <3>4. at' \in Nat /\ at' <= recorded'.at
      BY <1>1, <2>2, <2>4
    <3>5. Follows(h)'
      BY <3>3, <3>4 DEF Follows
    <3>6. QED BY <1>3, <3>5 DEF HistoryInv
  <2>5. CASE at = recorded.at
    <3>1. EndsWith(h[at], s, log[at + 1], recorded)
      BY <1>1, <1>5, <2>1, <2>5 DEF EndOf
    <3>2. /\ end' # None /\ end'.verdict = recorded.verdict
          /\ end'.clock = recorded.clock /\ end'.saved = recorded.saved
      BY <2>3, <3>1 DEF Repeats
    <3>3. end'.at = recorded.at
      BY <2>5, <3>2 DEF Moves
    <3>4. Follows(h)'
      BY <1>1, <3>2, <3>3 DEF Follows, Result
    <3>5. QED BY <1>3, <3>4 DEF HistoryInv
  <2>6. QED BY <1>1, <2>1, <2>2, <2>4, <2>5
<1>6. QED BY <1>4, <1>5

LEMMA HistoryEnds ==
  ASSUME RunTyped, HistoryInv, EndRecording
  PROVE  HistoryInv'
<1>1. /\ phase = "record" /\ end = None /\ at = Len(script) /\ at \in Nat
      /\ UNCHANGED <<host, phase, script, log, at, more>>
  BY DEF EndRecording, RunTyped
<1>2. PICK h : History(h)
  BY DEF HistoryInv
<1>3. /\ end' # None /\ end'.at = at /\ end'.clock = clock /\ end'.saved = saved
      /\ end'.verdict = AllDone.verdict
  BY AllDoneFacts DEF EndRecording
<1>4. Passed = at /\ Passed' = at
  BY <1>1, <1>3 DEF Passed
<1>5. h[at].clock = clock /\ h[at].saved = saved
  BY <1>1, <1>2 DEF History, Current
<1>6. PICK o : o = end'
  OBVIOUS
<1>7. EndOf(h, o)
  BY <1>1, <1>3, <1>5, <1>6 DEF EndOf
<1>8. EndOf(h, o)'
  BY <1>1, <1>7, EndOfStable
<1>9. \A i \in 1..Passed : PassesTo(h[i - 1], script[i], log[i], h[i])'
  <2>1. \A i \in 1..Passed : PassesTo(h[i - 1], script[i], log[i], h[i])
    BY <1>2 DEF History
  <2>2. QED BY <1>1, <2>1, PassesStable
<1>10. EndOf(h, end)'
  BY <1>6, <1>8 DEF EndOf, EndsWith, HostEnd, VirtualEnd, Fits
<1>11. History(h)'
  BY <1>1, <1>2, <1>3, <1>4, <1>9, <1>10 DEF History, Start, NoSnaps, Empty
<1>12. Follows(h)'
  BY <1>1 DEF Follows
<1>13. QED BY <1>11, <1>12 DEF HistoryInv

LEMMA HistoryStarts ==
  ASSUME RunTyped, HistoryInv, StartReplay
  PROVE  HistoryInv'
<1>1. /\ phase = "record" /\ end # None /\ phase' = "replay" /\ recorded' = end
      /\ UNCHANGED <<host, script, log>> /\ at' = 0 /\ end' = None
      /\ saved' = None /\ clock' = 0 /\ files' = Empty /\ snaps' = NoSnaps
      /\ overlaySnaps' = NoSnaps /\ rules' = <<>>
      /\ more' => at = Len(script) /\ end.at < at
  BY DEF StartReplay, NoSnaps
<1>2. PICK h : History(h)
  BY DEF HistoryInv
<1>3. EndOf(h, end) /\ Passed = end.at
  BY <1>1, <1>2 DEF History, Passed
<1>4. PICK o : o = end
  OBVIOUS
<1>5. EndOf(h, o)'
  BY <1>1, <1>3, <1>4, EndOfStable
<1>6. EndOf(h, recorded)'
  BY <1>1, <1>4, <1>5 DEF EndOf, EndsWith, HostEnd, VirtualEnd, Fits
<1>7. Passed' = Passed
  BY <1>1, <1>3 DEF Passed
<1>8. \A i \in 1..Passed : PassesTo(h[i - 1], script[i], log[i], h[i])'
  <2>1. \A i \in 1..Passed : PassesTo(h[i - 1], script[i], log[i], h[i])
    BY <1>2 DEF History
  <2>2. QED BY <1>1, <2>1, PassesStable
<1>9. History(h)'
  BY <1>1, <1>2, <1>6, <1>7, <1>8 DEF History, Start, NoSnaps, Empty
<1>10. LooksLike(h[at])'
  <2>1. h[at'] = Start
    BY <1>1, <1>2 DEF History
  <2>2. QED BY <1>1, <2>1 DEF LooksLike, Start, NoSnaps, Empty
<1>11. at' <= recorded'.at
  BY <1>1, <1>3 DEF EndOf, RunTyped
<1>12. Follows(h)'
  BY <1>1, <1>10, <1>11 DEF Follows
<1>13. QED BY <1>9, <1>12 DEF HistoryInv

LEMMA HistoryClosed ==
  ASSUME RunTyped, HistoryInv, EndReplay
  PROVE  HistoryInv'
<1>1. /\ phase = "replay" /\ end = None /\ at = Len(script) /\ at \in Nat
      /\ UNCHANGED <<host, phase, script, log, at, more, recorded>>
  BY DEF EndReplay, RunTyped
<1>2. PICK h : History(h) /\ Follows(h)
  BY DEF HistoryInv
<1>3. History(h)'
  <2>1. EndOf(h, recorded)'
    BY <1>1, <1>2, EndOfStable DEF History
  <2>2. \A i \in 1..Passed : PassesTo(h[i - 1], script[i], log[i], h[i])'
    <3>1. \A i \in 1..Passed : PassesTo(h[i - 1], script[i], log[i], h[i])
      BY <1>2 DEF History
    <3>2. QED BY <1>1, <3>1, PassesStable
  <2>3. Passed' = Passed
    BY <1>1 DEF Passed
  <2>4. QED BY <1>1, <1>2, <2>1, <2>2, <2>3 DEF History, Start, NoSnaps, Empty
<1>4. Follows(h)'
  <2>1. CASE recorded.why \in Unlogged
    BY <1>1, <2>1 DEF Follows
  <2>2. CASE recorded.why \notin Unlogged
    <3>1. /\ at <= recorded.at /\ LooksLike(h[at]) /\ EndOf(h, recorded)
          /\ more => recorded.at < Len(script)
      BY <1>1, <1>2, <2>2 DEF Follows, History
    <3>2. recorded.at = at /\ ~ more
      BY <1>1, <3>1 DEF EndOf
    <3>3. /\ recorded.verdict = AllDone.verdict
          /\ recorded.clock = clock /\ recorded.saved = saved
      BY <1>1, <3>1, <3>2 DEF EndOf, LooksLike
    <3>4. end' = AllDone
      BY <3>2 DEF EndReplay
    <3>5. Result(end') = Result(recorded)
      BY <3>2, <3>3, <3>4, AllDoneFacts DEF Result
    <3>6. end' # None
      BY <3>4, AllDoneFacts
    <3>7. QED BY <1>1, <3>5, <3>6 DEF Follows, Result
  <2>3. QED BY <2>1, <2>2
<1>5. QED BY <1>3, <1>4 DEF HistoryInv

(* What other programs do to the files, and stuttering, leave the run alone. *)
LEMMA HistoryStays ==
  ASSUME HistoryInv, UNCHANGED <<plan, mem, view, saves, web>>
  PROVE  HistoryInv'
<1>1. PICK h : History(h) /\ Follows(h)
  BY DEF HistoryInv
<1>2. UNCHANGED <<menu, host, script, more, log, at, end, recorded, clock, phase,
                  files, snaps, overlay, overlaySnaps, saves, rules, saved>>
  BY DEF plan, mem, view, web
<1>3. Passed' = Passed /\ Current' = Current
  BY <1>2 DEF Passed, Current
<1>4. \A i \in 1..Passed : PassesTo(h[i - 1], script[i], log[i], h[i])'
  <2>1. \A i \in 1..Passed : PassesTo(h[i - 1], script[i], log[i], h[i])
    BY <1>1 DEF History
  <2>2. QED BY <1>2, <2>1, PassesStable
<1>5. \A o : EndOf(h, o) => EndOf(h, o)'
  BY <1>2, EndOfStable
<1>6. History(h)'
  <2>1. PICK o : o = IF phase = "replay" THEN recorded ELSE end
    OBVIOUS
  <2>2. EndOf(h, o) => EndOf(h, o)'
    BY <1>5
  <2>3. phase = "record" => (IF end' = None THEN h[at'] = Current' ELSE EndOf(h, end)')
    <3>1. CASE phase = "record" /\ end # None
      <4>1. EndOf(h, o)' /\ o = end'
        BY <1>1, <1>2, <2>1, <2>2, <3>1 DEF History
      <4>2. QED BY <1>2, <3>1, <4>1 DEF EndOf, EndsWith, HostEnd, VirtualEnd, Fits
    <3>2. CASE ~ (phase = "record" /\ end # None)
      BY <1>1, <1>2, <1>3, <3>2 DEF History
    <3>3. QED BY <3>1, <3>2
  <2>4. phase = "replay" => EndOf(h, recorded)'
    <3>1. CASE phase = "replay"
      <4>1. EndOf(h, o)' /\ o = recorded'
        BY <1>1, <1>2, <2>1, <2>2, <3>1 DEF History
      <4>2. QED BY <1>2, <3>1, <4>1 DEF EndOf, EndsWith, HostEnd, VirtualEnd, Fits
    <3>2. QED BY <3>1
  <2>5. QED BY <1>1, <1>2, <1>3, <1>4, <2>3, <2>4 DEF History, Start, NoSnaps, Empty
<1>7. Follows(h)'
  BY <1>1, <1>2 DEF Follows, LooksLike, Result, Empty, NoSnaps
<1>8. QED BY <1>6, <1>7 DEF HistoryInv
LEMMA InitReplayInv == Init => ReplayInv
<1> SUFFICES ASSUME Init PROVE ReplayInv
  OBVIOUS
<1>1. /\ phase = "record" /\ script = <<>> /\ log = <<>> /\ end = None /\ at = 0 /\ clock = 0
      /\ rules = <<>> /\ saved = None /\ overlay = [k \in Keys |-> None]
      /\ files = Empty /\ snaps = NoSnaps /\ saves = NoSnaps
  BY DEF Init, Fresh, NoSnaps
<1>2. RunTyped
  <2>1. overlay = [k \in Keys |-> overlay[k]]
    BY <1>1
  <2>2. QED BY <1>1, <2>1 DEF RunTyped
<1>3. Current = Start /\ Passed = 0
  BY <1>1 DEF Current, Start, Passed
<1>4. PICK h : h = [i \in {0} |-> Start]
  OBVIOUS
<1>5. h[0] = Start
  BY <1>4
<1>6. History(h) /\ Follows(h)
  BY <1>1, <1>3, <1>5 DEF History, Follows
<1>7. QED BY <1>2, <1>6 DEF ReplayInv, HistoryInv

LEMMA NextReplayInv == IInv /\ ReplayInv /\ [Next]_vars => ReplayInv'
<1> SUFFICES ASSUME IInv, RunTyped, HistoryInv, [Next]_vars PROVE ReplayInv'
  BY DEF ReplayInv
<1>1. RunTyped'
  BY RunTypedStep
<1>2. CASE Virtual \/ Host \/ Replayed \/ Web
  <2>1. CASE phase = "record"
    <3>1. ~ Replayed
      BY <2>1 DEF Replayed, FromLog, Logged
    <3>2. PICK s, d : Recorded(s, d)
      BY <1>2, <2>1, <3>1, RecordedStep
    <3>3. QED BY <1>1, <2>1, <3>2, HistoryRecorded DEF ReplayInv
  <2>2. CASE phase = "replay"
    <3>1. PICK s : Moves(s, None) /\ \A a : LooksLike(a) => Repeats(a, s, log[at + 1])
      BY <1>2, <2>2, RepeatedStep
    <3>2. QED BY <1>1, <2>2, <3>1, HistoryReplayed DEF ReplayInv
  <2>3. QED BY <2>1, <2>2 DEF RunTyped
<1>3. CASE \/ \E p \in Paths \ Refused, e \in Data \cup {None} : Meddle(p, e)
           \/ UNCHANGED vars
  <2>1. UNCHANGED <<plan, mem, view, saves, web>>
    BY <1>3 DEF Meddle, vars, root
  <2>2. QED BY <1>1, <2>1, HistoryStays DEF ReplayInv
<1>4. QED
  BY <1>1, <1>2, <1>3, HistoryEnds, HistoryStarts, HistoryClosed DEF ReplayInv, Next

(* However long the scenario, whatever the steps, the data and the times: a *)
(* replay ends as its recording did, unless that ended in one of the ways   *)
(* that leave nothing to repeat in the log.                                *)
THEOREM ReplaysReproduce == Spec => []ReplayReproduces
<1>1. ReplayInv => ReplayReproduces
  BY DEF ReplayInv, RunTyped, HistoryInv, Follows, ReplayReproduces, Ended
<1>2. QED BY <1>1, EveryFileIsTouched, InitReplayInv, NextReplayInv, PTL DEF Spec

=============================================================================
