------------------------------- MODULE HostIo -------------------------------
(***************************************************************************)
(* File and http steps of a scenario (src/src/runtime/engine/exec/         *)
(* file_http.rs and fs.rs), first recorded on the simulated or on the host *)
(* backends, then replayed from the log.  On the host the files are those  *)
(* of a directory that other programs use too, and the answers are those   *)
(* of a server.  A replay always runs on the simulated backends            *)
(* (run_flow.rs, replay_trace) and takes from the log what the host        *)
(* answered; a step that left nothing in the log runs live once more.      *)
(*                                                                         *)
(* A behaviour is a scenario whose steps are chosen as it goes.  Each step *)
(* logs one scheduler pick and at most one decision of its own, hence one  *)
(* entry of log, None where the step logged no decision.                   *)
(***************************************************************************)
EXTENDS Naturals, Sequences, FiniteSets, FiniteSetsExt

CONSTANTS
  Paths,        \* paths a scenario names
  Refused,      \* those of them that lead out of the working directory
  Data,         \* contents of files
  Names,        \* names of snapshots
  Bodies,       \* responses, status and body together
  Times,        \* how long a call of the host takes
  MaxFileSteps, \* bound on the steps of a scenario of file steps
  MaxWebSteps,  \* bound on the steps of a scenario of http steps
  MaxMeddling,  \* bound on the writes of other programs
  None

(* What a snapshot of the host keeps: the paths touched until then.        *)
Kept == UNION {[S -> Data \cup {None}] : S \in SUBSET Paths}

ASSUME TimesAssumption == Times \subseteq Nat
ASSUME RefusedAssumption == Refused \subseteq Paths
ASSUME NoneAssumption ==
  /\ None \notin Data \cup Bodies
  /\ None \notin Kept

(* A request names an absolute url or only its path; a rule may also hold  *)
(* a path that the host backend does not support.                          *)
Absolute == "http://host/path"
Relative == "/path"
Bare     == "path"

Always == 99   \* u64::MAX: a rule without times is never used up

FileSteps ==
  [op : {"write", "read"}, path : Paths, data : Data]
    \cup [op : {"snapshot", "restore"}, name : Names]
WebSteps ==
  [op : {"when"}, path : {Absolute, Relative, Bare}, body : Bodies, times : {1, Always}]
    \cup [op : {"request"}, path : {Absolute, Relative}, expect : Bodies \cup {None}]

(* What the log keeps of a step, and how a phase ends.                     *)
Decisions == [step : FileSteps \cup WebSteps, took : Times,
              got : Data \cup Bodies \cup Kept \cup {None}]
Reasons ==
  {"", "no_steps_executed", "replay_drift", "timeout",
   "fs_read_assert", "fs_restore_missing_snapshot", "http_unmatched", "http_body",
   "host_fs_path", "host_fs_read_assert", "host_fs_restore_missing_snapshot",
   "http_host_url", "http_host_request",
   "http_when_host", "http_when_host_path", "http_when_host_unmatched"}
Outcomes == [verdict : {"pass", "fail", "timeout", "error"}, why : Reasons,
             at : Nat, clock : Nat, saved : Bodies \cup {None}]

ASSUME OptionAssumption == None \notin Decisions /\ None \notin Outcomes

VARIABLES
  menu,     \* "files" or "web": the steps of this scenario
  host,     \* whether the recording runs on the host backends
  phase,    \* "record", "replay"
  script,   \* the steps executed so far by the recording
  more,     \* the scenario goes on after the step that ended the recording
  log,      \* the decision of each of these steps, or None
  at,       \* steps done in this phase
  end,      \* how this phase ended, or None
  recorded, \* how the recording ended
  clock,    \* virtual time
  files, snaps,          \* fs, fs_snapshots
  overlay, overlaySnaps, \* replay_host_fs, replay_host_fs_snapshots
  disk,                  \* the working directory
  touched, saves,        \* host_fs_touched, host_fs_snapshots
  meddled,               \* writes of other programs, those before the run as one
  rules,    \* http_rules
  saved     \* the body saved by the last request

plan == <<menu, host, script, more, log, at, end, recorded, clock, phase>>
mem  == <<files, snaps>>
view == <<overlay, overlaySnaps>>
root == <<disk, touched, saves, meddled>>
web  == <<rules, saved>>
vars == <<plan, mem, view, root, web>>

Empty == [p \in Paths |-> None]

(* The overlay of a replay is keyed by the scenario's path in writes and   *)
(* reads, and by the path under the working directory in snapshots.        *)
Keys == {"raw", "full"} \X Paths

Fresh ==
  /\ files = Empty
  /\ snaps = [n \in Names |-> None]
  /\ overlay = [k \in Keys |-> None]
  /\ overlaySnaps = [n \in Names |-> None]
  /\ touched = {}
  /\ saves = [n \in Names |-> None]
  /\ rules = <<>>
  /\ saved = None
  /\ clock = 0
  /\ at = 0
  /\ end = None

Init ==
  /\ Fresh
  /\ menu \in {"files", "web"} /\ host \in BOOLEAN
  /\ phase = "record"
  /\ script = <<>> /\ log = <<>> /\ more = FALSE
  /\ recorded = None
  /\ \/ disk = Empty
     \/ /\ menu = "files" /\ host
        /\ disk \in {f \in [Paths -> Data \cup {None}] : \A p \in Refused : f[p] = None}
  /\ meddled = IF disk = Empty THEN 0 ELSE 1

Steps == IF menu = "files" THEN FileSteps ELSE WebSteps
Depth == IF menu = "files" THEN MaxFileSteps ELSE MaxWebSteps

(* The step s is executed next.                                            *)
Due(s) ==
  /\ end = None
  /\ IF phase = "record" THEN s \in Steps /\ at < Depth
                         ELSE at < Len(script) /\ s = script[at + 1]

(* replay_peek: what the log holds for this step.                          *)
Logged  == IF phase = "replay" /\ at < Len(log) THEN log[at + 1] ELSE None
FromLog == Logged # None
OnHost  == phase = "record" /\ host
Simulated == ~FromLog /\ ~OnHost

Remember(s, decision) ==
  /\ script' = IF phase = "record" THEN Append(script, s) ELSE script
  /\ log' = IF phase = "record" THEN Append(log, decision) ELSE log
  /\ at' = at + 1
  /\ UNCHANGED <<menu, host, more, recorded, phase>>

(* The step succeeds; a call of the host took time (advance_recorded_time) *)
Pass(s, decision, time) ==
  /\ Remember(s, decision)
  /\ clock' = clock + time
  /\ end' = None

Outcome(verdict, why, time) ==
  [verdict |-> verdict, why |-> why, at |-> at, clock |-> clock + time, saved |-> saved]

(* The step ends the run with a finding.                                   *)
Fail(s, decision, time, verdict, why) ==
  /\ Remember(s, decision)
  /\ clock' = clock + time
  /\ end' = Outcome(verdict, why, time)

Decision(s, got, time) == [step |-> s, got |-> got, took |-> time]

-----------------------------------------------------------------------------
(* The virtual backend: maps inside the run.                               *)

VirtualWrite(s) ==
  /\ files' = [files EXCEPT ![s.path] = s.data]
  /\ Pass(s, None, 0)
  /\ UNCHANGED <<snaps, view, root, web>>

VirtualRead(s) ==
  /\ IF files[s.path] = s.data THEN Pass(s, None, 0)
                               ELSE Fail(s, None, 0, "fail", "fs_read_assert")
  /\ UNCHANGED <<mem, view, root, web>>

VirtualSnapshot(s) ==
  /\ snaps' = [snaps EXCEPT ![s.name] = files]
  /\ Pass(s, None, 0)
  /\ UNCHANGED <<files, view, root, web>>

VirtualRestore(s) ==
  /\ IF snaps[s.name] = None
       THEN Fail(s, None, 0, "fail", "fs_restore_missing_snapshot") /\ UNCHANGED files
       ELSE Pass(s, None, 0) /\ files' = snaps[s.name]
  /\ UNCHANGED <<snaps, view, root, web>>

Virtual ==
  /\ Simulated
  /\ \E s \in FileSteps :
       /\ Due(s)
       /\ \/ s.op = "write" /\ VirtualWrite(s)
          \/ s.op = "read" /\ VirtualRead(s)
          \/ s.op = "snapshot" /\ VirtualSnapshot(s)
          \/ s.op = "restore" /\ VirtualRestore(s)

-----------------------------------------------------------------------------
(* The host backend: the working directory, and the paths touched so far.  *)

HostWrite(s) ==
  IF s.path \in Refused
    THEN /\ Fail(s, None, 0, "fail", "host_fs_path")
         /\ UNCHANGED <<mem, view, root, web>>
    ELSE /\ disk' = [disk EXCEPT ![s.path] = s.data]
         /\ touched' = touched \cup {s.path}
         /\ \E t \in Times : Pass(s, Decision(s, s.data, t), t)
         /\ UNCHANGED <<mem, view, saves, meddled, web>>

HostRead(s) ==
  /\ touched' = IF s.path \in Refused THEN touched ELSE touched \cup {s.path}
  /\ IF s.path \notin Refused /\ disk[s.path] = s.data
       THEN \E t \in Times : Pass(s, Decision(s, s.data, t), t)
       ELSE Fail(s, None, 0, "fail", "host_fs_read_assert")
  /\ UNCHANGED <<mem, view, disk, saves, meddled, web>>

HostSnapshot(s) ==
  LET entries == [p \in touched |-> disk[p]] IN
  /\ saves' = [saves EXCEPT ![s.name] = entries]
  /\ \E t \in Times : Pass(s, Decision(s, entries, t), t)
  /\ UNCHANGED <<mem, view, disk, touched, meddled, web>>

\* mutant: files touched since the snapshot are left
RestoredSavedOnly(entries) ==
  [p \in Paths |-> IF p \in DOMAIN entries THEN entries[p] ELSE disk[p]]

(* What is in the snapshot is written back, what was touched besides is    *)
(* removed, whoever wrote it.                                              *)
Restored(entries) ==
  [p \in Paths |-> IF p \in DOMAIN entries THEN entries[p]
                   ELSE IF p \in touched THEN None ELSE disk[p]]

HostRestore(s) ==
  IF saves[s.name] = None
    THEN /\ Fail(s, None, 0, "fail", "host_fs_restore_missing_snapshot")
         /\ UNCHANGED <<mem, view, root, web>>
    ELSE /\ disk' = Restored(saves[s.name])
         /\ touched' = DOMAIN saves[s.name]
         /\ \E t \in Times : Pass(s, Decision(s, None, t), t)
         /\ UNCHANGED <<mem, view, saves, meddled, web>>

Host ==
  /\ OnHost
  /\ \E s \in FileSteps :
       /\ Due(s)
       /\ \/ s.op = "write" /\ HostWrite(s)
          \/ s.op = "read" /\ HostRead(s)
          \/ s.op = "snapshot" /\ HostSnapshot(s)
          \/ s.op = "restore" /\ HostRestore(s)

(* Another program writes or removes a file of the working directory.      *)
Meddle(p, d) ==
  /\ OnHost /\ menu = "files" /\ end = None
  /\ meddled < MaxMeddling
  /\ disk[p] # d
  /\ disk' = [disk EXCEPT ![p] = d]
  /\ meddled' = meddled + 1
  /\ UNCHANGED <<plan, mem, view, touched, saves, web>>

-----------------------------------------------------------------------------
(* A replayed step: the log answers for the host.                          *)

ReplayedWrite(s) ==
  /\ overlay' = [overlay EXCEPT ![<<"raw", s.path>>] = Logged.got]
  /\ Pass(s, None, Logged.took)
  /\ UNCHANGED <<mem, overlaySnaps, root, web>>

\* mutant: what was read is not put into the overlay first
ReadIntoNothing(p) == overlay

(* What was read is put into the overlay, whatever that held.              *)
ReadInto(p) == [overlay EXCEPT ![<<"raw", p>>] = Logged.got]

ReplayedRead(s) ==
  /\ overlay' = ReadInto(s.path)
  /\ IF ReadInto(s.path)[<<"raw", s.path>>] = s.data
       THEN Pass(s, None, Logged.took)
       ELSE Fail(s, None, 0, "fail", "fs_read_assert")
  /\ UNCHANGED <<mem, overlaySnaps, root, web>>

ReplayedSnapshot(s) ==
  LET entries == Logged.got IN
  /\ overlay' = [k \in Keys |-> IF k[1] = "full" /\ k[2] \in DOMAIN entries
                                  THEN entries[k[2]] ELSE overlay[k]]
  /\ overlaySnaps' = [overlaySnaps EXCEPT ![s.name] = entries]
  /\ Pass(s, None, Logged.took)
  /\ UNCHANGED <<mem, root, web>>

ReplayedRestore(s) ==
  LET entries == overlaySnaps[s.name] IN
  /\ IF entries = None
       THEN /\ Fail(s, None, 0, "fail", "fs_restore_missing_snapshot")
            /\ UNCHANGED overlay
       ELSE /\ overlay' = [k \in Keys |-> IF k[1] = "full" /\ k[2] \in DOMAIN entries
                                            THEN entries[k[2]] ELSE None]
            /\ Pass(s, None, Logged.took)
  /\ UNCHANGED <<mem, overlaySnaps, root, web>>

Replayed ==
  /\ FromLog
  /\ \E s \in FileSteps :
       /\ Due(s)
       /\ \/ s.op = "write" /\ ReplayedWrite(s)
          \/ s.op = "read" /\ ReplayedRead(s)
          \/ s.op = "snapshot" /\ ReplayedSnapshot(s)
          \/ s.op = "restore" /\ ReplayedRestore(s)

-----------------------------------------------------------------------------
(* http_when and http_request.                                             *)

(* A rule is added; the host backend knows no bare paths.                  *)
When(s) ==
  /\ IF OnHost /\ s.path = Bare
       THEN Fail(s, None, 0, "fail", "http_when_host_path") /\ UNCHANGED rules
       ELSE /\ rules' = Append(rules, [path |-> s.path, body |-> s.body, left |-> s.times])
            /\ Pass(s, None, 0)
  /\ UNCHANGED <<mem, view, root, saved>>

Open(i) == rules[i].left > 0

(* The rules a request may take: the same path, or on the host the path of *)
(* an absolute url.                                                        *)
ScriptedFits(path) == {i \in DOMAIN rules : Open(i) /\ rules[i].path = path}
HostFits(path) ==
  {i \in DOMAIN rules : Open(i) /\ rules[i].path \in {path, Relative}}

Used(i) == IF rules[i].left = Always THEN rules
           ELSE [rules EXCEPT ![i].left = @ - 1]

(* The response is in; the step passes if it is the one expected.          *)
Answered(s, body, decision, time) ==
  IF s.expect \in {None, body}
    THEN Pass(s, decision, time) /\ saved' = body
    ELSE Fail(s, decision, time, "fail", "http_body") /\ UNCHANGED saved

ScriptedRequest(s) ==
  LET fits == ScriptedFits(s.path) IN
  /\ Simulated
  /\ IF fits = {}
       THEN Fail(s, None, 0, "fail", "http_unmatched") /\ UNCHANGED <<rules, saved>>
       ELSE LET i == Min(fits) IN
            /\ rules' = Used(i)
            /\ Answered(s, rules[i].body, None, 0)
  /\ UNCHANGED <<mem, view, root>>

(* The server completes with a body, is too late, or the call fails.       *)
HostRequest(s) ==
  LET fits == HostFits(s.path)
      Fails(why) == Fail(s, None, 0, "fail", why) /\ UNCHANGED <<rules, saved>>
      LoggedFail(body, t, why) ==
        Fail(s, Decision(s, body, t), t, "fail", why) /\ UNCHANGED saved
  IN
  /\ OnHost
  /\ \/ s.path # Absolute /\ Fails("http_host_url")
     \/ s.path = Absolute /\ rules # <<>> /\ fits = {} /\ Fails("http_when_host_unmatched")
     \/ /\ s.path = Absolute
        /\ rules # <<>> => fits # {}
        /\ \/ Fails("http_host_request")
           \/ \E t \in Times :
                /\ Fail(s, Decision(s, None, t), t, "timeout", "timeout")
                /\ UNCHANGED <<rules, saved>>
           \/ \E t \in Times, body \in Bodies :
                IF fits = {}
                  THEN Answered(s, body, Decision(s, body, t), t) /\ UNCHANGED rules
                  ELSE LET i == Min(fits) IN
                       /\ rules' = Used(i)
                       /\ IF rules[i].body # body
                            THEN LoggedFail(body, t, "http_when_host")
                            ELSE Answered(s, body, Decision(s, body, t), t)
  /\ UNCHANGED <<mem, view, root>>

(* HttpRequest or HttpRequestTimeout of the log: no rule is looked at.     *)
ReplayedRequest(s) ==
  /\ FromLog
  /\ IF Logged.got = None
       THEN Fail(s, None, Logged.took, "timeout", "timeout") /\ UNCHANGED saved
       ELSE Answered(s, Logged.got, None, Logged.took)
  /\ UNCHANGED <<mem, view, root, rules>>

Web ==
  \E s \in WebSteps :
    /\ Due(s)
    /\ \/ s.op = "when" /\ When(s)
       \/ s.op = "request" /\ (ScriptedRequest(s) \/ HostRequest(s) \/ ReplayedRequest(s))

-----------------------------------------------------------------------------
(* The end of a phase.                                                     *)

Declarations == {"when"}

(* Every step was done; a scenario of declarations only does not pass.     *)
AllDone ==
  IF script # <<>> /\ \A i \in DOMAIN script : script[i].op \in Declarations
    THEN Outcome("fail", "no_steps_executed", 0) ELSE Outcome("pass", "", 0)

EndRecording ==
  /\ phase = "record" /\ end = None
  /\ end' = AllDone
  /\ UNCHANGED <<menu, host, script, more, log, at, recorded, clock, phase, mem, view, root, web>>

(* A replay that gets past the step the recording ended with finds no pick *)
(* for the next one: an error, the run has no status.                      *)
EndReplay ==
  /\ phase = "replay" /\ end = None /\ at = Len(script)
  /\ end' = IF more THEN Outcome("error", "replay_drift", 0) ELSE AllDone
  /\ UNCHANGED <<menu, host, script, more, log, at, recorded, clock, phase, mem, view, root, web>>

(* replay_trace: a new run of the same scenario.                           *)
StartReplay ==
  /\ phase = "record" /\ end # None
  /\ phase' = "replay"
  /\ recorded' = end
  /\ more' \in (IF at = Len(script) /\ end.at < at THEN BOOLEAN ELSE {FALSE})
  /\ files' = Empty
  /\ snaps' = [n \in Names |-> None]
  /\ overlay' = [k \in Keys |-> None]
  /\ overlaySnaps' = [n \in Names |-> None]
  /\ touched' = {}
  /\ saves' = [n \in Names |-> None]
  /\ rules' = <<>>
  /\ saved' = None
  /\ clock' = 0
  /\ at' = 0
  /\ end' = None
  /\ UNCHANGED <<menu, host, script, log, disk, meddled>>

Next ==
  \/ Virtual
  \/ Host
  \/ \E p \in Paths \ Refused, d \in Data \cup {None} : Meddle(p, d)
  \/ Replayed
  \/ Web
  \/ EndRecording
  \/ EndReplay
  \/ StartReplay

Spec == Init /\ [][Next]_vars

-----------------------------------------------------------------------------
Ended == phase = "replay" /\ end # None

(* Failures that leave nothing in the log, or that the log cannot repeat:  *)
(* the replay looks at its own files and rules and may pass there.         *)
Unlogged == {"host_fs_path", "http_when_host_path", "http_host_url",
             "http_when_host_unmatched", "http_host_request", "http_when_host"}

Result(outcome) == [verdict |-> outcome.verdict, at |-> outcome.at,
                    clock |-> outcome.clock, saved |-> outcome.saved]

(* A replay ends as its recording did, at the same step, at the same       *)
(* virtual time and with the same body saved, whatever other programs did  *)
(* to the files and whatever the server answered; README.md:62 says that   *)
(* live observations are captured into the trace as replay decisions.      *)
ReplayReproduces ==
  Ended /\ recorded.why \notin Unlogged => Result(end) = Result(recorded)

(* README.md:18 says that every failure can be recorded and replayed.      *)
FailureReplays ==
  Ended /\ recorded.verdict # "pass" => end.verdict # "pass"

(* To a scenario that has the working directory to itself, empty at first, *)
(* the host backend looks like the virtual one.                            *)
Seen      == IF host THEN disk ELSE files
Whole(e)  == [p \in Paths |-> IF p \in DOMAIN e THEN e[p] ELSE None]
SeenSnaps == IF host THEN [n \in Names |-> IF saves[n] = None THEN None ELSE Whole(saves[n])]
                     ELSE snaps

V == INSTANCE VirtualFiles WITH files <- Seen, snaps <- SeenSnaps

(* Restoring a snapshot on the host brings back exactly the files of that  *)
(* moment: every step of a recording is a step of VirtualFiles.            *)
HostLooksVirtual ==
  [][phase' = "record" /\ meddled' = 0 => V!Next \/ UNCHANGED <<Seen, SeenSnaps>>]_vars
=============================================================================
