--------------------------- MODULE MCTraceRecord ---------------------------
(* TLC instance of TraceRecord.                                            *)
EXTENDS TraceRecord

(* Overlapping recordings of every policy under young locks, recordings    *)
(* one after the other with stale ones, and recorders of one path that     *)
(* keep coming back.                                                       *)
MCSettings ==
  {[policies |-> Policies, ages |-> FALSE, overlap |-> TRUE, endless |-> FALSE],
   [policies |-> Policies, ages |-> TRUE, overlap |-> FALSE, endless |-> FALSE],
   [policies |-> {"overwrite"}, ages |-> TRUE, overlap |-> TRUE, endless |-> TRUE]}

(* Two `--record-collision append` recorders at once. *)
AppendRace ==
  [policies : {{"append"}}, ages : {FALSE}, overlap : {TRUE}, endless : {FALSE}]

=============================================================================
