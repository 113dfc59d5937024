------------------------------- MODULE MCFuzz -------------------------------
(* TLC instance of Fuzz. *)
EXTENDS Fuzz

Plain == [policy |-> "append", record |-> TRUE, coverage |-> TRUE, crash_only |-> FALSE,
          minimize |-> FALSE, target |-> "steps", tracked |-> FALSE, limited |-> FALSE,
          timed |-> FALSE, runs |-> 2, max |-> 1, corpus |-> {<<0>>}, killed |-> FALSE]

(* Two sessions on one path under every policy, killed or not; ...         *)
Collisions ==
  {[Plain EXCEPT !.policy = p, !.killed = k, !.coverage = c] :
     p \in {"append", "overwrite", "error"}, k \in {TRUE}, c \in BOOLEAN}
    \cup {[Plain EXCEPT !.policy = "error"]}
    \cup {[Plain EXCEPT !.record = FALSE, !.killed = TRUE, !.timed = TRUE]}
(* ... memory of the target and of the harness; ...                        *)
Memories ==
  {[Plain EXCEPT !.target = t, !.tracked = TRUE, !.limited = l, !.runs = 1, !.timed = TRUE] :
     t \in {"steps", "distributed"}, l \in BOOLEAN}
(* ... an input longer than --max-input, no corpus at all.                 *)
Minimizing ==
  {[Plain EXCEPT !.minimize = TRUE, !.crash_only = TRUE, !.runs = 1, !.max = m,
                 !.corpus = {<<0, 1, 1>>}] : m \in {2, 4}}
    \cup {[Plain EXCEPT !.minimize = TRUE, !.runs = 1, !.corpus = {}]}
MCSetups == Collisions \cup Memories \cup Minimizing

(* Up to five items of each kind, a script two steps of which must stay.   *)
Shrinking(k, s) == [Idle EXCEPT !.kind = k, !.items = <<1, 2, 3, 4, 5>>, !.max = 5,
                                !.status = s, !.timed = k # "input"]
MCItems == Bytes \cup 1..5 \cup 11..14
MCJobs ==
  {Shrinking(k, s) : k \in {"input", "schedule"}, s \in {"pass", "fail"}}
    \cup {[Shrinking("steps", "fail") EXCEPT !.judged = j, !.items = <<1, 2, 3>>] :
            j \in BOOLEAN}
    \cup {[Shrinking("schedule", s) EXCEPT !.items = <<1, 2>>, !.all = TRUE,
            !.script = <<11, 12, 13, 14>>, !.fixed = {12, 13}] : s \in {"pass", "fail"}}

=============================================================================
