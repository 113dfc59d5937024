--------------------------- MODULE VirtualFiles ---------------------------
(***************************************************************************)
(* What a scenario's file steps promise: files that the scenario alone     *)
(* writes, and named snapshots of all of them.  It is the virtual backend  *)
(* of src/src/runtime/engine/exec/file_http.rs, and what the host backend  *)
(* is meant to look like from inside a scenario (HostIo).                  *)
(***************************************************************************)
CONSTANTS Paths, Data, Names, None

Empty == [p \in Paths |-> None]

VARIABLES
  files,   \* path -> what it holds
  snaps    \* name -> the files when the snapshot was taken

Init ==
  /\ files = Empty
  /\ snaps = [n \in Names |-> None]

Write(p, d) ==
  /\ files' = [files EXCEPT ![p] = d]
  /\ UNCHANGED snaps

Snapshot(n) ==
  /\ snaps' = [snaps EXCEPT ![n] = files]
  /\ UNCHANGED files

Restore(n) ==
  /\ snaps[n] # None
  /\ files' = snaps[n]
  /\ UNCHANGED snaps

Next ==
  \/ \E p \in Paths, d \in Data : Write(p, d)
  \/ \E n \in Names : Snapshot(n) \/ Restore(n)

Spec == Init /\ [][Next]_<<files, snaps>>
=============================================================================
