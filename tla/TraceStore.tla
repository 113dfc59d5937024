----------------------------- MODULE TraceStore -----------------------------
(***************************************************************************)
(* What `--record <path> --record-collision <policy>` promises: recording  *)
(* a trace is one atomic change of the directory, decided by the policy.   *)
(*   overwrite  replaces the requested file,                               *)
(*   error      writes it only if it does not exist,                       *)
(*   append     keeps what is there and takes the next free number.        *)
(* Name 0 is the requested path, name i > 0 is <stem>.<i>.<ext>.           *)
(***************************************************************************)
EXTENDS Naturals, FiniteSetsExt

CONSTANTS
  MaxSuffix,   \* the largest number a file name can carry (u32::MAX)
  Traces,      \* traces, records with a field "policy"
  NoFile       \* no file of that name

Names == 0..MaxSuffix

VARIABLE files

Present(fs) == {n \in Names : fs[n] # NoFile}

(* The number after the largest one in use, the last one being used again; *)
(* 0 itself is not a number.                                               *)
NextNumber(fs) == Min({Max((Present(fs) \ {0}) \cup {0}) + 1, MaxSuffix})

Init == files \in [Names -> {NoFile}] \/ \E t \in Traces :
          files = [n \in Names |-> IF n = 0 THEN t ELSE NoFile]

Record(t) ==
  \E n \in Names :
    /\ t.policy = "overwrite" => n = 0
    /\ t.policy = "error" => n = 0 /\ files[0] = NoFile
    /\ t.policy = "append" =>
         n = IF files[0] = NoFile THEN 0 ELSE NextNumber(files)
    /\ files' = [files EXCEPT ![n] = t]

Next == \E t \in Traces : Record(t)

Spec == Init /\ [][Next]_files

=============================================================================
