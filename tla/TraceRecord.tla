---------------------------- MODULE TraceRecord ----------------------------
(***************************************************************************)
(* Recording a trace (src/src/runtime/tracefile.rs): several fozzy         *)
(* processes run write_trace_with_policy on one requested path.  Each step *)
(* below is one file-system call of one process, so the calls of different *)
(* processes interleave, a process may be killed between any two of them,  *)
(* and a lock file may pass its 300 s time to live at any moment.          *)
(***************************************************************************)
EXTENDS Naturals

CONSTANTS
  Writers,      \* processes
  Settings,     \* the circumstances looked at, see Setting
  MaxSuffix,    \* u32::MAX: numbers in names saturate there
  MaxAttempts,  \* bound on the recordings of one process
  MaxCrashes,   \* bound on the processes that are killed
  NoFile, NoWriter

ASSUME SuffixAssumption == MaxSuffix \in Nat
ASSUME AttemptAssumption == MaxAttempts \in Nat
ASSUME WriterAssumption == NoWriter \notin Writers

Policies == {"overwrite", "error", "append"}

(* What surrounds the recordings, fixed during one behaviour.              *)
Setting ==
  [policies : SUBSET Policies \ {{}},
   ages     : BOOLEAN,   \* a lock file can outlive RECORD_LOCK_STALE_AFTER
   overlap  : BOOLEAN,   \* several processes record at a time
   endless  : BOOLEAN]   \* processes record again and again

ASSUME SettingAssumption == Settings \subseteq Setting

Names == 0..MaxSuffix   \* 0: the requested path, i: <stem>.<i>.<ext>

Traces == [writer : Writers \cup {NoWriter}, attempt : 0..MaxAttempts,
           policy : Policies]
OldTrace == [writer |-> NoWriter, attempt |-> 0, policy |-> "overwrite"]

NoLock == [owner |-> NoWriter, stale |-> FALSE]
Locks  == [owner : Writers \cup {NoWriter}, stale : BOOLEAN]

VARIABLES
  setting,   \* one of Settings
  files,     \* name -> trace or NoFile
  locks,     \* name -> <name>.lock, by its creator, or NoLock
  pc,        \* the call each process makes next
  policy,    \* the policy of the current recording
  target,    \* what resolve_record_target returned
  attempts,
  crashes

vars == <<setting, files, locks, pc, policy, target, attempts, crashes>>

Calls == {"exists", "read_dir", "open", "stat", "remove", "reopen",
          "write", "rename", "unlock"}
PCs == Calls \cup {"idle", "ok", "refused", "killed"}

Init ==
  /\ setting \in Settings
  /\ files \in {[n \in Names |-> NoFile],
                [n \in Names |-> IF n = 0 THEN OldTrace ELSE NoFile]}
  /\ locks = [n \in Names |-> NoLock]
  /\ pc = [w \in Writers |-> "idle"]
  /\ policy = [w \in Writers |-> "overwrite"]   \* none yet
  /\ target = [w \in Writers |-> 0]
  /\ attempts = [w \in Writers |-> 0]
  /\ crashes = 0

TraceOf(w) == [writer |-> w, attempt |-> attempts[w], policy |-> policy[w]]

Goto(w, call) == pc' = [pc EXCEPT ![w] = call]

(* A process starts a recording; overwrite needs no look at the directory. *)
Start(w) ==
  /\ pc[w] \in {"idle", "ok", "refused"}
  /\ attempts[w] < MaxAttempts \/ setting.endless
  /\ setting.overlap \/ \A v \in Writers : pc[v] \notin Calls
  /\ attempts' = [attempts EXCEPT ![w] = IF @ < MaxAttempts THEN @ + 1 ELSE @]
  /\ \E p \in setting.policies :
       /\ policy' = [policy EXCEPT ![w] = p]
       /\ Goto(w, IF p = "overwrite" THEN "open" ELSE "exists")
  /\ target' = [target EXCEPT ![w] = 0]
  /\ UNCHANGED <<setting, files, locks, crashes>>

(* resolve_record_target: path.exists(). *)
Exists(w) ==
  /\ pc[w] = "exists"
  /\ \/ files[0] = NoFile /\ Goto(w, "open")
     \/ files[0] # NoFile /\ policy[w] = "error" /\ Goto(w, "refused")
     \/ files[0] # NoFile /\ policy[w] = "append" /\ Goto(w, "read_dir")
  /\ UNCHANGED <<setting, files, locks, policy, target, attempts, crashes>>

Numbers == {n \in Names \ {0} : files[n] # NoFile}

FollowingSame(n) == n            \* mutant: off by one
Following(n) == IF n < MaxSuffix THEN n + 1 ELSE MaxSuffix

(* resolve_record_target, append: the largest number in the directory,     *)
(* plus one, saturating.                                                   *)
ReadDir(w) ==
  /\ pc[w] = "read_dir"
  /\ \E max_seen \in Numbers \cup {0} :
       /\ \A n \in Numbers : n <= max_seen
       /\ target' = [target EXCEPT ![w] = Following(max_seen)]
  /\ Goto(w, "open")
  /\ UNCHANGED <<setting, files, locks, policy, attempts, crashes>>

LockFreeAlways(n) == TRUE   \* mutant: create instead of create_new
LockFree(n) == locks[n] = NoLock

(* acquire_record_lock: create_new on <target>.lock. *)
Open(w) ==
  /\ pc[w] \in {"open", "reopen"}
  /\ \/ /\ LockFree(target[w])
        /\ locks' = [locks EXCEPT ![target[w]] = [owner |-> w, stale |-> FALSE]]
        /\ Goto(w, "write")
     \/ /\ ~LockFree(target[w])
        /\ Goto(w, IF pc[w] = "open" THEN "stat" ELSE "refused")
        /\ UNCHANGED locks
  /\ UNCHANGED <<setting, files, policy, target, attempts, crashes>>

StaleNever(n) == FALSE   \* mutant: a lock is never given up
Stale(n) == locks[n].stale

(* is_stale_lock: a lock that vanished meanwhile counts as not stale. *)
Stat(w) ==
  /\ pc[w] = "stat"
  /\ Goto(w, IF Stale(target[w]) THEN "remove" ELSE "refused")
  /\ UNCHANGED <<setting, files, locks, policy, target, attempts, crashes>>

(* remove_file of the lock judged stale: whatever lock is there by now. *)
RemoveStale(w) ==
  /\ pc[w] = "remove"
  /\ locks' = [locks EXCEPT ![target[w]] = NoLock]
  /\ Goto(w, "reopen")
  /\ UNCHANGED <<setting, files, policy, target, attempts, crashes>>

(* write_json: the temporary file, under a name of its own. *)
Write(w) ==
  /\ pc[w] = "write"
  /\ Goto(w, "rename")
  /\ UNCHANGED <<setting, files, locks, policy, target, attempts, crashes>>

(* write_json: the rename onto the target. *)
Rename(w) ==
  /\ pc[w] = "rename"
  /\ files' = [files EXCEPT ![target[w]] = TraceOf(w)]
  /\ Goto(w, "unlock")
  /\ UNCHANGED <<setting, locks, policy, target, attempts, crashes>>

(* RecordLockGuard::drop removes the file by name, then the call returns. *)
Unlock(w) ==
  /\ pc[w] = "unlock"
  /\ locks' = [locks EXCEPT ![target[w]] = NoLock]
  /\ Goto(w, "ok")
  /\ UNCHANGED <<setting, files, policy, target, attempts, crashes>>

(* The process is killed: nothing of it runs again, its lock stays. *)
Kill(w) ==
  /\ pc[w] \in Calls /\ crashes < MaxCrashes
  /\ Goto(w, "killed")
  /\ crashes' = crashes + 1
  /\ UNCHANGED <<setting, files, locks, policy, target, attempts>>

(* A lock file becomes older than RECORD_LOCK_STALE_AFTER. *)
Age(n) ==
  /\ setting.ages /\ locks[n] # NoLock /\ ~locks[n].stale
  /\ locks' = [locks EXCEPT ![n].stale = TRUE]
  /\ UNCHANGED <<setting, files, pc, policy, target, attempts, crashes>>

Call(w) ==
  \/ Exists(w) \/ ReadDir(w) \/ Open(w) \/ Stat(w) \/ RemoveStale(w)
  \/ Write(w) \/ Rename(w) \/ Unlock(w)

Next ==
  \/ \E w \in Writers : Start(w) \/ Call(w) \/ Kill(w)
  \/ \E n \in Names : Age(n)

Spec == Init /\ [][Next]_vars

(* A process that is not killed keeps running, processes keep recording,   *)
(* and the wall clock moves.                                               *)
FairSpec ==
  /\ Spec
  /\ \A w \in Writers : WF_vars(Call(w)) /\ WF_vars(Start(w))
  /\ \A n \in Names : WF_vars(Age(n))

-----------------------------------------------------------------------------
TypeOK ==
  /\ setting \in Settings
  /\ files \in [Names -> Traces \cup {NoFile}]
  /\ locks \in [Names -> Locks]
  /\ pc \in [Writers -> PCs]
  /\ policy \in [Writers -> Policies]
  /\ target \in [Writers -> Names]
  /\ attempts \in [Writers -> 0..MaxAttempts]
  /\ crashes \in Nat

(* Between create_new and the guard's drop. *)
Holds(w) == pc[w] \in {"write", "rename", "unlock"}

(* "record collision: active writer holds lock": a target has at most one  *)
(* writer, as long as no lock outlives its time to live while in use.      *)
MutualExclusion ==
  ~setting.ages =>
    \A v, w \in Writers :
      Holds(v) /\ Holds(w) /\ target[v] = target[w] => v = w

(* Without stale locks, a writer in the critical section owns the lock     *)
(* file of its target, and no writer ever reaches the stealing calls.      *)
LocksOwned ==
  /\ \A w \in Writers : Holds(w) => locks[target[w]].owner = w
  /\ \A n \in Names : ~locks[n].stale
  /\ \A w \in Writers : pc[w] \notin {"remove", "reopen"}

LockInv == ~setting.ages => LocksOwned

(* "append (keep both)": a trace recorded under append replaces no file.   *)
AppendKeepsBoth ==
  [][\A n \in Names : files'[n] # files[n] /\ files'[n].policy = "append"
       => files[n] = NoFile]_vars

(* Each recording that no other process overlaps is one atomic change of  *)
(* the directory, decided by its policy: the calls above, kills and stale  *)
(* locks included, implement TraceStore.  (Overlapping recordings do not.) *)
Store == INSTANCE TraceStore
           WITH files <- IF setting.overlap THEN [n \in Names |-> NoFile]
                                            ELSE files
RecordingIsAtomic == Store!Spec

(* The lock of a killed process does not block its target for ever, as     *)
(* long as processes keep overwriting it and locks age.                    *)
AbandonedLockRecovered ==
  \A w \in Writers :
    (setting.endless /\ pc[w] = "killed" /\ locks[0].owner = w)
      ~> (locks[0].owner # w)

=============================================================================
