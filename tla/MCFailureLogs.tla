---------------------------- MODULE MCFailureLogs ----------------------------
(* Small instances of FailureLogs for TLC. *)
EXTENDS FailureLogs, TLC

Symmetry == Permutations(Proc) \cup Permutations(Name)

=============================================================================
