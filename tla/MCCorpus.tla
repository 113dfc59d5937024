------------------------------ MODULE MCCorpus ------------------------------
(* TLC instance of Corpus. *)
EXTENDS Corpus, TLC

MCLower == [n \in UserNames |-> IF n = "A" THEN "a" ELSE n]

User(n) == <<"user", n>>
Crash(c) == <<"crash", c>>

(* Names of others, a duplicate, a crash; nothing but an archive, which    *)
(* may be damaged, hold names that may not be, or meet a file.             *)
Seeds == (User("a") :> "x") @@ (User("A") :> "x") @@ (Crash("x") :> "x") @@ (Input("y") :> "y")
Bare  == [files |-> Seeds, archive |-> Nothing, budget |-> FALSE, corrupt |-> FALSE]
Sent  == [Bare EXCEPT !.files = <<>>, !.archive = <<<<Input("x"), "x">>, <<User("a"), "y">>>>]

MCCorpora ==
  {Bare, [Bare EXCEPT !.budget = TRUE], Sent, [Sent EXCEPT !.corrupt = TRUE],
   [Sent EXCEPT !.archive = <<<<Crash("x"), "x">>, <<User("c:"), "y">>>>],
   [Sent EXCEPT !.files = User("a") :> "x"]}

=============================================================================
