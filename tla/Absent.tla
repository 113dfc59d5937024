------------------------------- MODULE Absent -------------------------------
(* What stands for a value that is not there: an option that is not set,   *)
(* a field that a report does not have.                                    *)
EXTENDS Naturals

CONSTANT None

ASSUME NoneAssumption == None \notin Nat
=============================================================================
