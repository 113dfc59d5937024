------------------------------- MODULE Corpus -------------------------------
(***************************************************************************)
(* `fozzy corpus` (src/src/cmd/corpus): add, minimize, export and import,  *)
(* one after the other, any of them killed, on a directory in which a      *)
(* session of `fozzy fuzz` keeps inputs meanwhile.  An action is one       *)
(* change of the disk.                                                     *)
(*                                                                         *)
(* A path is a kind and what distinguishes it: "input" and "crash" with    *)
(* the payload whose hash is in the name, "user" with a name of somebody   *)
(* else, "tmp" with the run and the path it will have.  Crashes lie one    *)
(* directory deeper.  A file created and not written yet is empty.         *)
(***************************************************************************)
EXTENDS Naturals, Sequences

CONSTANTS
  Payloads,      \* what a file may hold
  Empty,         \* the payload of no byte
  Nothing,       \* no payload, no archive
  UserNames,     \* other names of files
  Lower,         \* a user name in lower case
  Unsafe,        \* user names that an archive may not hold
  Corpora,       \* what there is at first: files, archive, budget, corrupt
  MaxCommands,   \* commands run (a bound of the model)
  MaxPersisted   \* inputs the fuzz session keeps (a bound of the model)

ASSUME PayloadsAssumption == Empty \in Payloads /\ Nothing \notin Payloads
ASSUME NothingAssumption == Nothing \notin [payload : Payloads, linked : BOOLEAN]
ASSUME NamesAssumption == Lower \in [UserNames -> UserNames] /\ Unsafe \subseteq UserNames

VARIABLES
  setting,   \* the member of Corpora
  dir,       \* the payload of every path there is
  archive,   \* the zip file: a sequence of <<path, payload>>
  cmd,       \* the command: name, stage, and what it knows
  staged,    \* payloads in the staging directory of the running minimize
  left,      \* payloads in those that killed ones left behind
  writing,   \* the input the fuzz session has created and not written
  runs, persisted,
  before,    \* history: dir when the command began
  held,      \* history: payloads some file has held, from the first or since its write
  torn,      \* history: payloads whose file an add or a session did not finish
  missed,    \* history: payloads a session wrote behind the running command
  misread,   \* history: payloads whose file an export read unfinished
  gone       \* history: payloads a minimize out of its budget threw away

counters == <<runs, persisted>>
history  == <<before, held, torn, missed, misread, gone>>
vars == <<setting, dir, archive, cmd, staged, left, writing, counters, history>>

Input(c) == <<"input", c>>
Tmp(p)   == <<"tmp", runs, p>>
Paths    == DOMAIN dir
TopFiles == {p \in Paths : p[1] # "crash"}
Contents == {dir[p] : p \in Paths}

(* At first a file with a hash in its name holds what was hashed, and so   *)
(* does the archive.                                                       *)
ASSUME CorporaAssumption ==
  \A s \in Corpora :
    /\ \A p \in DOMAIN s.files : p[1] = "input" => s.files[p] = p[2]
    /\ s.archive # Nothing =>
         /\ s.archive \in Seq({s.archive[i] : i \in DOMAIN s.archive})
         /\ \A i \in DOMAIN s.archive :
              s.archive[i][1][1] = "input" => s.archive[i][2] = s.archive[i][1][2]

With(p, c)   == [q \in Paths \cup {p} |-> IF q = p THEN c ELSE dir[q]]
Without(p)   == [q \in Paths \ {p} |-> dir[q]]
Moved(p, to) == [q \in (Paths \ {p}) \cup {to} |-> IF q = to THEN dir[p] ELSE dir[q]]

Idle == [name |-> "none", stage |-> "done", ok |-> FALSE, todo |-> {}, read |-> {},
         late |-> FALSE, entries |-> <<>>, next |-> 0, payload |-> Nothing]

Init ==
  /\ setting \in Corpora
  /\ dir = setting.files /\ archive = setting.archive
  /\ cmd = Idle /\ staged = {} /\ left = {} /\ writing = Nothing
  /\ runs = 0 /\ persisted = 0
  /\ before = dir /\ held = Contents
  /\ torn = {} /\ missed = {} /\ misread = {} /\ gone = {}

Running(name, stage) == cmd.name = name /\ cmd.stage = stage

Begin(c) ==
  /\ cmd.stage = "done" /\ runs < MaxCommands
  /\ runs' = runs + 1
  /\ cmd' = c
  /\ before' = dir
  /\ missed' = missed \ Contents

At(stage) == cmd' = [cmd EXCEPT !.stage = stage]
End(ok)   == cmd' = [cmd EXCEPT !.stage = "done", !.ok = ok]

Persisting(c) == writing # Nothing /\ writing.payload = c /\ writing.linked

(* A file that is unlinked or replaced while the session writes it: what   *)
(* the session writes is in no directory.                                  *)
Unlinked(p) ==
  writing' = IF \E c \in Payloads : Persisting(c) /\ p = Input(c)
             THEN [writing EXCEPT !.linked = FALSE] ELSE writing

-----------------------------------------------------------------------------
(* persist_corpus_input of the session: only if there is no such file.     *)
Persist ==
  /\ writing = Nothing /\ persisted < MaxPersisted
  /\ \E c \in Payloads \ {Empty} :
       /\ Input(c) \notin Paths
       /\ dir' = With(Input(c), Empty)
       /\ writing' = [payload |-> c, linked |-> TRUE]
  /\ persisted' = persisted + 1
  /\ UNCHANGED <<setting, archive, cmd, staged, left, runs, history>>

(* The running minimize has read this file, or listed it for removal.      *)
Passed(p) ==
  \/ Running("minimize", "read") /\ p \in cmd.entries \ cmd.todo
  \/ Running("minimize", "remove") /\ p \in cmd.todo

PersistWrite ==
  /\ writing # Nothing
  /\ IF writing.linked
     THEN /\ dir' = [dir EXCEPT ![Input(writing.payload)] = writing.payload]
          /\ torn' = torn \ {writing.payload}
     ELSE UNCHANGED <<dir, torn>>
  /\ missed' = IF writing.linked /\ ~Passed(Input(writing.payload)) THEN missed
               ELSE missed \cup {writing.payload}
  /\ held' = held \cup {writing.payload}
  /\ writing' = Nothing
  /\ UNCHANGED <<setting, archive, cmd, staged, left, counters, before, misread, gone>>

PersistKilled ==
  /\ writing # Nothing
  /\ torn' = IF writing.linked THEN torn \cup {writing.payload} ELSE torn
  /\ writing' = Nothing
  /\ UNCHANGED <<setting, dir, archive, cmd, staged, left, counters,
                 before, held, missed, misread, gone>>

-----------------------------------------------------------------------------
(* add: a file of the same payload is truncated and written again.         *)
AddOpen ==
  \E c \in Payloads \ {Empty} :
    /\ Begin([Idle EXCEPT !.name = "add", !.stage = "write", !.payload = c])
    /\ dir' = With(Input(c), Empty)
    /\ UNCHANGED <<setting, archive, staged, left, writing, persisted, held, torn, misread,
                   gone>>

AddWrite ==
  /\ Running("add", "write")
  /\ dir' = [dir EXCEPT ![Input(cmd.payload)] = cmd.payload]
  /\ held' = held \cup {cmd.payload} /\ torn' = torn \ {cmd.payload}
  /\ End(TRUE)
  /\ UNCHANGED <<setting, archive, staged, left, writing, counters, before, missed, misread,
                 gone>>

-----------------------------------------------------------------------------
(* minimize: the files beside each other are listed, ...                   *)
MinimizeScan ==
  /\ Begin([Idle EXCEPT !.name = "minimize", !.todo = TopFiles, !.entries = TopFiles,
                        !.stage = IF TopFiles = {} THEN "done" ELSE "read"])
  /\ UNCHANGED <<setting, dir, archive, staged, left, writing, persisted,
                 held, torn, misread, gone>>

(* The files are in the order of their names. *)
First == CHOOSE p \in cmd.todo : TRUE
InTime == ~cmd.late

(* ... read one by one, ...                                                *)
MinimizeRead ==
  /\ Running("minimize", "read") /\ InTime /\ cmd.todo # {}
  /\ cmd' = [cmd EXCEPT !.todo = @ \ {First}, !.read = @ \cup {dir[First]}]
  /\ UNCHANGED <<setting, dir, archive, staged, left, writing, counters, history>>

\* mutant: the files are removed before their payloads are written elsewhere
StageAfterSwap ==
  /\ Running("minimize", "read") /\ InTime /\ cmd.todo = {}
  /\ cmd' = [cmd EXCEPT !.stage = "remove", !.todo = cmd.entries]
  /\ UNCHANGED <<setting, dir, archive, staged, left, writing, counters, history>>

(* ... written to a staging directory under the names of their hashes, ... *)
MinimizeStage ==
  /\ Running("minimize", "read") /\ InTime /\ cmd.todo = {}
  /\ staged' = cmd.read
  /\ cmd' = [cmd EXCEPT !.stage = "remove", !.todo = cmd.entries]
  /\ UNCHANGED <<setting, dir, archive, left, writing, counters, history>>

(* ... removed, ...                                                        *)
MinimizeRemove ==
  /\ Running("minimize", "remove") /\ InTime /\ cmd.todo # {}
  /\ dir' = Without(First)
  /\ Unlinked(First)
  /\ cmd' = [cmd EXCEPT !.todo = @ \ {First}]
  /\ UNCHANGED <<setting, archive, staged, left, counters, history>>

(* ... and moved in from there.                                            *)
MinimizeRename ==
  /\ Running("minimize", "remove") /\ InTime /\ cmd.todo = {}
  /\ \E c \in staged :
       /\ dir' = With(Input(c), c)
       /\ staged' = staged \ {c}
       /\ Unlinked(Input(c))
  /\ UNCHANGED <<setting, archive, cmd, left, counters, history>>

MinimizeEnd ==
  /\ Running("minimize", "remove") /\ cmd.todo = {} /\ staged = {}
  /\ End(TRUE)
  /\ UNCHANGED <<setting, dir, archive, staged, left, writing, counters, history>>

(* The budget is looked at before each file; the staging directory goes.   *)
Expire ==
  /\ cmd.name = "minimize" /\ cmd.stage # "done" /\ setting.budget /\ InTime
  /\ cmd' = [cmd EXCEPT !.late = TRUE]
  /\ UNCHANGED <<setting, dir, archive, staged, left, writing, counters, history>>

MinimizeFails ==
  /\ cmd.name = "minimize" /\ cmd.stage # "done" /\ cmd.late
  /\ cmd.stage = "read" \/ cmd.todo # {} \/ staged # {}
  /\ staged' = {}
  /\ gone' = gone \cup (staged \ Contents)
  /\ End(FALSE)
  /\ UNCHANGED <<setting, dir, archive, left, writing, counters, before, held, torn,
                 missed, misread>>

-----------------------------------------------------------------------------
(* export: every file, at any depth, into a temporary archive, ...         *)
ExportOpen ==
  /\ Begin([Idle EXCEPT !.name = "export", !.stage = "files", !.todo = Paths])
  /\ UNCHANGED <<setting, dir, archive, staged, left, writing, persisted,
                 held, torn, misread, gone>>

ExportFile ==
  /\ Running("export", "files") /\ cmd.todo # {}
  /\ cmd' = [cmd EXCEPT !.todo = @ \ {First}, !.entries = Append(@, <<First, dir[First]>>)]
  /\ misread' = misread \cup {c \in Payloads : First = Input(c) /\ dir[First] # c}
  /\ UNCHANGED <<setting, dir, archive, staged, left, writing, counters, before, held,
                 torn, missed, gone>>

(* ... renamed unless it is empty.                                         *)
ExportRename ==
  /\ Running("export", "files") /\ cmd.todo = {}
  /\ archive' = IF cmd.entries = <<>> THEN archive ELSE cmd.entries
  /\ End(cmd.entries # <<>>)
  /\ UNCHANGED <<setting, dir, staged, left, writing, counters, history>>

-----------------------------------------------------------------------------
(* portable_rel_key: names that differ in case only are one file elsewhere. *)
Key(p) == IF p[1] = "user" THEN <<"user", Lower[p[2]]>> ELSE p

(* normalize_zip_entry_rel_path: drives, "..", reserved names and the like. *)
Rejected(p) == p[1] = "user" /\ p[2] \in Unsafe

(* validate_zip_archive_raw_entries. *)
Refused(a) ==
  \/ \E i \in DOMAIN a : Rejected(a[i][1])
  \/ \E i, j \in DOMAIN a : i # j /\ Key(a[i][1]) = Key(a[j][1])

(* validate_zip_target_secure: no file may be there. *)
MayImport(a) == ~Refused(a) /\ \A i \in DOMAIN a : a[i][1] \notin Paths

(* import: nothing is written unless everything may be. *)
ImportCheck ==
  /\ archive # Nothing
  /\ Begin([Idle EXCEPT !.name = "import", !.entries = archive, !.next = 1,
                        !.stage = IF MayImport(archive) THEN "entry" ELSE "done"])
  /\ UNCHANGED <<setting, dir, archive, staged, left, writing, persisted,
                 held, torn, misread, gone>>

Entry == cmd.entries[cmd.next]

(* write_zip_entry_secure: looked for again, then a new temporary file, ... *)
ImportOpen ==
  /\ Running("import", "entry") /\ cmd.next <= Len(cmd.entries)
  /\ IF {Entry[1], Tmp(Entry[1])} \cap Paths # {} THEN End(FALSE) /\ UNCHANGED dir
     ELSE At("copy") /\ dir' = With(Tmp(Entry[1]), Empty)
  /\ UNCHANGED <<setting, archive, staged, left, writing, counters, history>>

\* mutant: the entry's own name is taken before its copy is complete
CopyUnderName ==
  /\ Running("import", "copy")
  /\ At("rename")
  /\ dir' = [q \in Paths \cup {Entry[1]} |->
               CASE q = Entry[1] -> Empty [] q = Tmp(Entry[1]) -> Entry[2] [] OTHER -> dir[q]]
  /\ UNCHANGED <<setting, archive, staged, left, writing, counters, history>>

(* ... the entry copied into it, which a damaged archive prevents, ...     *)
ImportCopy ==
  /\ Running("import", "copy")
  /\ \/ /\ At("rename")
        /\ dir' = [dir EXCEPT ![Tmp(Entry[1])] = Entry[2]]
        /\ held' = held \cup {Entry[2]}
     \/ setting.corrupt /\ End(FALSE) /\ UNCHANGED <<dir, held>>
  /\ UNCHANGED <<setting, archive, staged, left, writing, counters, before, torn, missed,
                 misread, gone>>

(* ... and renamed, over what a session wrote there since it was looked for. *)
ImportRename ==
  /\ Running("import", "rename")
  /\ dir' = Moved(Tmp(Entry[1]), Entry[1])
  /\ Unlinked(Entry[1])
  /\ missed' = IF Entry[1] \in Paths THEN missed \cup ({dir[Entry[1]]} \ {Entry[2]})
               ELSE missed
  /\ cmd' = [cmd EXCEPT !.stage = "entry", !.next = @ + 1]
  /\ UNCHANGED <<setting, archive, staged, left, counters, before, held, torn, misread,
                 gone>>

ImportEnd ==
  /\ Running("import", "entry") /\ cmd.next > Len(cmd.entries)
  /\ End(TRUE)
  /\ UNCHANGED <<setting, dir, archive, staged, left, writing, counters, history>>

-----------------------------------------------------------------------------
(* A killed command leaves its temporary files where they are.             *)
Kill ==
  /\ cmd.stage # "done"
  /\ End(FALSE)
  /\ left' = left \cup staged /\ staged' = {}
  /\ torn' = IF cmd.name = "add" THEN torn \cup {cmd.payload} ELSE torn
  /\ UNCHANGED <<setting, dir, archive, writing, counters, before, held, missed, misread,
                 gone>>

Minimize == MinimizeScan \/ MinimizeRead \/ MinimizeStage \/ MinimizeRemove \/ MinimizeRename
              \/ MinimizeEnd \/ Expire \/ MinimizeFails
Export == ExportOpen \/ ExportFile \/ ExportRename
Import == ImportCheck \/ ImportOpen \/ ImportCopy \/ ImportRename \/ ImportEnd

Next == Persist \/ PersistWrite \/ PersistKilled \/ AddOpen \/ AddWrite \/ Minimize \/ Export
          \/ Import \/ Kill

Spec == Init /\ [][Next]_vars

-----------------------------------------------------------------------------
(* A payload that a file has held, whoever wrote it and whenever, is in a  *)
(* file ever after, or in a staging directory, whatever commands are run   *)
(* and killed; but                                                         *)
(*   - an add truncates the file it may find, and if it is killed then     *)
(*     leaves it so, as a killed session leaves its own (torn);            *)
(*   - a minimize whose budget ran out throws away what it staged (gone);  *)
(*   - what a session wrote to a file after a minimize read it empty, the  *)
(*     minimize removes, and an import replaces a file that a session made *)
(*     after the import looked for it (missed).                            *)
InputsAreKept ==
  \A c \in held \ {Empty} :
    \/ c \in Contents \cup staged \cup left
    \/ Running("add", "write") /\ cmd.payload = c
    \/ c \in torn \cup gone \cup missed

(* An import changes no file that was there, and one that succeeds brings  *)
(* every entry of the archive.                                             *)
ImportKeepsFiles ==
  cmd.name = "import" =>
    /\ \A p \in DOMAIN before :
         p \in Paths /\ (before[p] # Empty => dir[p] = before[p])
    /\ cmd.ok => \A i \in DOMAIN cmd.entries : cmd.entries[i][1] \in Paths

(* An export that succeeds holds every file there was, whole unless it was *)
(* just being written.                                                     *)
ExportIsWhole ==
  cmd.name = "export" /\ cmd.ok =>
    \A p \in DOMAIN before : \E i \in DOMAIN archive :
      archive[i][1] = p /\ (before[p] # Empty => archive[i][2] = before[p])

CorpusIsKept == InputsAreKept /\ ImportKeepsFiles /\ ExportIsWhole

(* A file with a hash in its name holds what was hashed, also after any    *)
(* kill of an import or a minimize, unless it is being written, its        *)
(* writing by an add or a session was never finished, or an export read it *)
(* before it was.                                                          *)
NamesTellContents ==
  \A c \in Payloads \ (torn \cup misread) :
    Input(c) \in Paths /\ ~Running("add", "write") /\ ~Persisting(c) => dir[Input(c)] = c

(* After a minimize that succeeded every file has such a name, so that no  *)
(* payload is there twice.                                                 *)
MinimizeCanonicalizes ==
  cmd.name = "minimize" /\ cmd.ok => \A p \in TopFiles : p[1] = "input"

CorpusIsCanonical == NamesTellContents /\ MinimizeCanonicalizes

(* "minimize ... removes duplicate payloads" (usage.rs), and no others.    *)
MinimizeRemovesOnlyDuplicates ==
  cmd.name = "minimize" => held \ (torn \cup {Empty}) \subseteq Contents \cup staged \cup left

(* "export/import to share failing cases across machines" (usage.rs).      *)
ExportsCanBeImported == cmd.name = "export" /\ cmd.ok => ~Refused(archive)

=============================================================================
