----------------------------- MODULE AliasIndex -----------------------------
(***************************************************************************)
(* The run alias index (src/src/cmd/artifact_resolver.rs) behind the       *)
(* selectors latest, last-pass and last-fail.  Every process that ends a   *)
(* run writes the run's report.json and manifest.json and then rewrites    *)
(* the one run-alias-index.json of the project (write_summary_report in    *)
(* src/src/runtime/finalize.rs); a process given an alias reads the index, *)
(* and scans the runs directory and rewrites the index if it cannot parse  *)
(* it.  Nothing orders the processes.                                      *)
(*                                                                         *)
(* std::fs::write truncates the file and then writes from its start, which *)
(* two actions model: in between the file does not parse.                  *)
(***************************************************************************)
EXTENDS Naturals, Sequences, FiniteSets, FiniteSetsExt, SequencesExt

CONSTANTS
  Runs,        \* the run ids, as numbers: ties are broken by the larger one
  Times,       \* the finished_at stamps
  Readers,     \* processes that resolve an alias
  None         \* no answer

ASSUME RunsAssumption == Runs \subseteq Nat /\ IsFiniteSet(Runs) /\ Times \subseteq Nat
ASSUME ReadersAssumption == Readers \cap Runs = {}
ASSUME NoneAssumption == None \notin Runs

VARIABLES
  orderly,     \* no process starts before another has ended, none is killed
  finished,    \* run -> its finished_at
  passed,      \* the runs whose status is pass
  writer,      \* run -> where the process that ends it is
  report, manifest,  \* run -> "absent", "torn" or "whole"
  deleted,     \* the runs whose directory was removed since
  file,        \* the index file: a state and, when whole, its entries
  held,        \* process -> the entries it will write, or has read
  reader,      \* reader -> where it is
  alias,       \* reader -> the alias it resolves
  answer       \* reader -> the run it resolved it to, None for an error

given == <<orderly, finished, passed>>
artifacts == <<report, manifest, deleted>>
lookups   == <<reader, alias, answer>>
index_vars == <<given, writer, artifacts, file, held, lookups>>

-----------------------------------------------------------------------------
(* The order of the index, the newest run first.  An update breaks a tie by  *)
(* the run id, a scan by the modification times of the directories, which  *)
(* may stand in any order.                                                 *)
Newer(a, b) == finished[a] > finished[b] \/ (finished[a] = finished[b] /\ a > b)
Sorted(set, before) ==
  CHOOSE entries \in SetToSeqs(set) :
    \A i, j \in DOMAIN entries : i < j => <<entries[i], entries[j]>> \in before
OldestFirst(set) == Sorted(set, {p \in set \X set : Newer(p[2], p[1])})   \* mutant
Ordered(set) == Sorted(set, {p \in set \X set : Newer(p[1], p[2])})
NewestFirst(entries) ==
  \A i, j \in DOMAIN entries : i < j => finished[entries[i]] >= finished[entries[j]]
Scanned(set) == {entries \in SetToSeqs(set) : NewestFirst(entries)}

Entries == IF file.state = "whole" THEN ToSet(file.entries) ELSE {}

CoherentIfThere(r) == r \notin deleted   \* mutant: the artifacts are not looked at
(* load_checked_run_summary_from_artifacts_dir finds a summary. *)
Coherent(r) == report[r] = "whole" /\ manifest[r] = "whole" /\ r \notin deleted

(* The coherent entries, in their order. *)
Retained(entries) ==
  LET places == {i \in DOMAIN entries : Coherent(entries[i])}
      kept   == Sorted(places, {p \in places \X places : p[1] < p[2]})
  IN  [i \in DOMAIN kept |-> entries[kept[i]]]

Resting == {"idle", "report", "done", "crashed", "answered"}
Alone == orderly => /\ \A w \in Runs : writer[w] \in Resting
                    /\ \A q \in Readers : reader[q] \in Resting

-----------------------------------------------------------------------------
IndexInit ==
  /\ orderly \in BOOLEAN
  /\ finished \in [Runs -> Times] /\ passed \in SUBSET Runs
  /\ writer = [r \in Runs |-> "report"]
  /\ report = [r \in Runs |-> "absent"] /\ manifest = [r \in Runs |-> "absent"]
  /\ deleted = {}
  /\ file = [state |-> "absent", entries |-> <<>>]
  /\ held = [p \in Runs \cup Readers |-> <<>>]
  /\ reader = [q \in Readers |-> "idle"]
  /\ alias \in [Readers -> {"latest", "last-pass", "last-fail"}]
  /\ answer = [q \in Readers |-> None]

(* write_summary_report: report.json, then manifest.json, each truncated    *)
(* first and whole after.                                                  *)
WriteReport(r) ==
  /\ \/ /\ writer[r] = "report" /\ Alone
        /\ report' = [report EXCEPT ![r] = "torn"]
        /\ writer' = [writer EXCEPT ![r] = "reporting"]
     \/ /\ writer[r] = "reporting"
        /\ report' = [report EXCEPT ![r] = "whole"]
        /\ writer' = [writer EXCEPT ![r] = "manifest"]
  /\ UNCHANGED <<given, manifest, deleted, file, held, lookups>>

WriteManifest(r) ==
  /\ \/ /\ writer[r] = "manifest"
        /\ manifest' = [manifest EXCEPT ![r] = "torn"]
        /\ writer' = [writer EXCEPT ![r] = "manifesting"]
     \/ /\ writer[r] = "manifesting"
        /\ manifest' = [manifest EXCEPT ![r] = "whole"]
        /\ writer' = [writer EXCEPT ![r] = "index"]
  /\ UNCHANGED <<given, report, deleted, file, held, lookups>>

EntriesOnlyOf(r) == {r}   \* mutant: the entries read are thrown away
EntriesWith(r) == Entries \cup {r}

(* update_run_alias_index, up to its write: an index that is absent or     *)
(* does not parse counts as empty; directories that are gone are dropped.  *)
UpdateIndex(r) ==
  /\ writer[r] = "index"
  /\ held' = [held EXCEPT ![r] = Ordered(EntriesWith(r) \ deleted)]
  /\ writer' = [writer EXCEPT ![r] = "truncate"]
  /\ UNCHANGED <<given, artifacts, file, lookups>>

(* write_run_alias_index_file, by a process that has truncated the file.    *)
(* When another has written it since, the write covers only its beginning: *)
(* what is longer stays behind it, and the file does not parse.            *)
Truncated == [state |-> "torn", entries |-> <<>>]
Whole(entries) == [state |-> "whole", entries |-> entries]
Clobbered == [state |-> "torn", entries |-> file.entries]
AfterWrite(entries) ==
  IF file \in {Truncated, Whole(entries)} \/ Len(file.entries) < Len(entries)
  THEN {Whole(entries)}
  ELSE IF Len(file.entries) > Len(entries) THEN {Clobbered}
  ELSE {Whole(entries), Clobbered}

WriteIndex(r) ==
  /\ \/ /\ writer[r] = "truncate"
        /\ file' = Truncated
        /\ writer' = [writer EXCEPT ![r] = "indexing"]
     \/ /\ writer[r] = "indexing"
        /\ file' \in AfterWrite(held[r])
        /\ writer' = [writer EXCEPT ![r] = "done"]
  /\ UNCHANGED <<given, artifacts, held, lookups>>

Crash(r) ==
  /\ ~orderly /\ writer[r] \notin Resting
  /\ writer' = [writer EXCEPT ![r] = "crashed"]
  /\ UNCHANGED <<given, artifacts, file, held, lookups>>

(* Somebody removes the directory of a run. *)
DeleteRun(r) ==
  /\ writer[r] \in {"done", "crashed"} /\ r \notin deleted /\ Alone
  /\ deleted' = deleted \cup {r}
  /\ UNCHANGED <<given, writer, report, manifest, file, held, lookups>>

-----------------------------------------------------------------------------
(* resolve_filtered_run_alias: read_run_alias_index, the entries that are  *)
(* still coherent being kept; load_run_index when the file does not parse. *)
ReadIndex(q) ==
  /\ reader[q] = "idle" /\ Alone
  /\ IF file.state = "whole"
     THEN /\ held' = [held EXCEPT ![q] = Retained(file.entries)]
          /\ reader' = [reader EXCEPT ![q] = "pick"]
     ELSE /\ reader' = [reader EXCEPT ![q] = "scan"]
          /\ UNCHANGED held
  /\ UNCHANGED <<given, writer, artifacts, file, alias, answer>>

ScanRuns(q) ==
  /\ reader[q] = "scan"
  /\ \E entries \in Scanned({r \in Runs : Coherent(r)}) : held' = [held EXCEPT ![q] = entries]
  /\ reader' = [reader EXCEPT ![q] = "truncate"]
  /\ UNCHANGED <<given, writer, artifacts, file, alias, answer>>

RewriteIndex(q) ==
  /\ \/ /\ reader[q] = "truncate"
        /\ file' = Truncated
        /\ reader' = [reader EXCEPT ![q] = "indexing"]
     \/ /\ reader[q] = "indexing"
        /\ file' \in AfterWrite(held[q])
        /\ reader' = [reader EXCEPT ![q] = "pick"]
  /\ UNCHANGED <<given, writer, artifacts, held, alias, answer>>

Accepts(q, r) ==
  CASE alias[q] = "latest"    -> TRUE
    [] alias[q] = "last-pass" -> r \in passed
    [] alias[q] = "last-fail" -> r \notin passed

\* mutant: the last entry
OldestOf(accepted) == Max(accepted)
FirstOf(accepted) == Min(accepted)

(* The first entry the alias accepts; no such entry is an error. *)
Pick(q) ==
  /\ reader[q] = "pick"
  /\ LET accepted == {i \in DOMAIN held[q] : Accepts(q, held[q][i])}
     IN  answer' = [answer EXCEPT ![q] = IF accepted = {} THEN None
                                         ELSE held[q][FirstOf(accepted)]]
  /\ reader' = [reader EXCEPT ![q] = "answered"]
  /\ UNCHANGED <<given, writer, artifacts, file, held, alias>>

IndexNext ==
  \/ \E r \in Runs : WriteReport(r) \/ WriteManifest(r) \/ UpdateIndex(r)
                     \/ WriteIndex(r) \/ Crash(r) \/ DeleteRun(r)
  \/ \E q \in Readers : ReadIndex(q) \/ ScanRuns(q) \/ RewriteIndex(q) \/ Pick(q)

IndexSpec == IndexInit /\ [][IndexNext]_index_vars

-----------------------------------------------------------------------------

(* Whatever the processes do to each other, and whoever is killed, an      *)
(* index that parses names only runs whose artifacts are both written, each *)
(* once, the newest first.                                                 *)
IndexIsSound ==
  file.state = "whole" =>
    /\ \A i \in DOMAIN file.entries :
         report[file.entries[i]] = "whole" /\ manifest[file.entries[i]] = "whole"
    /\ IsInjective(file.entries) /\ NewestFirst(file.entries)

(* An alias never resolves to a run that is half written, was killed       *)
(* before it wrote both artifacts, or does not have the alias's status.    *)
AnswerIsCoherent ==
  \A q \in Readers : answer[q] # None =>
    /\ report[answer[q]] = "whole" /\ manifest[answer[q]] = "whole"
    /\ Accepts(q, answer[q])

Quiet == (\A r \in Runs : writer[r] \in Resting) /\ (\A q \in Readers : reader[q] \in Resting)

(* When no process is at work, the index names every run that ended and is *)
(* still there: between processes that neither overlap nor are killed, no  *)
(* update is lost.  (Overlapping updates are: there is no lock.)           *)
NoUpdateIsLost ==
  orderly /\ Quiet /\ file.state # "absent" =>
    \A r \in Runs : writer[r] = "done" /\ r \notin deleted => r \in Entries

-----------------------------------------------------------------------------
(* The registry the index stands for: the runs that ended, and answers     *)
(* that are the newest of them the alias accepts.                          *)
Completed == {r \in Runs : writer[r] = "done" /\ r \notin deleted}
Best(q, set) == IF \E r \in set : Accepts(q, r)
                THEN CHOOSE r \in set : Accepts(q, r)
                       /\ \A s \in set \ {r} : Accepts(q, s) => Newer(r, s)
                ELSE None

(* Every resolution that overlaps no other process answers with the newest *)
(* run, of those that had ended when it picked, that its alias accepts.    *)
AnswersAreNewest ==
  [][orderly => \A q \in Readers : reader[q] = "pick" /\ reader'[q] = "answered" =>
        answer'[q] = Best(q, Completed)]_index_vars

=============================================================================
